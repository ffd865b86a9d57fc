---------------------------- MODULE ConsoleProofs ----------------------------
(***************************************************************************)
(* Proofs that the statistics on the operator console agree with the       *)
(* settlements beside them, for every number of polls, settlements, logins *)
(* and faults, and every length of the list that the page keeps.           *)
(*                                                                         *)
(* The argument follows the commands of the relay's one Redis connection.  *)
(* As long as no write is lost, what is counted and what the queue still   *)
(* holds make up what the relay has heard; a page has seen no settlement   *)
(* whose writes are not counted or in the queue; and a read stands behind  *)
(* the writes of all that its page had seen when it asked.                 *)
(***************************************************************************)
EXTENDS AdminConsole, SequenceTheorems, NaturalsInduction, WellFoundedInduction, TLAPS

-----------------------------------------------------------------------------
(* Sums over lists of numbers.  The sum is a recursive function: it is     *)
(* built, and shown to be the only one, by induction over the numbers.     *)

(* The least number of a set.                                              *)
LEMMA LeastNat ==
  ASSUME NEW S \in SUBSET Nat, S # {}
  PROVE  \E n \in S : \A m \in S : n <= m
<1>1. PICK n \in S : \A m \in S : <<m, n>> \notin OpToRel(<, Nat)
  BY WFMin, NatLessThanWellFounded, Zenon
<1>2. \A m \in S : ~(m < n)
  BY <1>1, Zenon DEF OpToRel
<1> QED BY <1>2

(* Induction over the numbers up to n, with a set for the property.        *)
LEMMA Upward ==
  ASSUME NEW n \in Nat, NEW T, 0 \in T, \A i \in 0..n : i # 0 /\ i - 1 \in T => i \in T
  PROVE  0..n \subseteq T
<1> DEFINE S == {i \in 0..n : i \notin T}
<1>1. SUFFICES ASSUME S # {} PROVE FALSE
  OBVIOUS
<1>2. PICK m \in S : \A k \in S : m <= k
  <2>1. S \in SUBSET Nat
    OBVIOUS
  <2> HIDE DEF S
  <2> QED BY <1>1, <2>1, LeastNat
<1>3. m # 0 /\ m - 1 \in 0..n
  BY <1>2
<1>4. m - 1 \in T
  BY <1>2, <1>3
<1>5. m \in 0..n /\ m \notin T
  BY <1>2
<1> QED BY <1>3, <1>4, <1>5

(* The totals of the first i of a list of numbers, and of the list.        *)
Sums(v)  == LET T[i \in 0..Len(v)] == IF i = 0 THEN 0 ELSE T[i - 1] + v[i] IN T
Total(v) == Sums(v)[Len(v)]

Adding(g, v, n) == g = [i \in 0..n |-> IF i = 0 THEN 0 ELSE g[i - 1] + v[i]]

LEMMA AddingExists ==
  ASSUME NEW v, NEW n \in Nat
  PROVE  \E g : Adding(g, v, n)
<1> DEFINE T == {m \in Nat : \E g : Adding(g, v, m)}
<1>1. 0 \in T
  <2>1. Adding([i \in 0..0 |-> 0], v, 0)
    BY DEF Adding
  <2> QED BY <2>1
<1>2. ASSUME NEW m \in 0..n, m # 0, m - 1 \in T
      PROVE  m \in T
  <2>1. PICK g : Adding(g, v, m - 1)
    BY <1>2
  <2> DEFINE h == [i \in 0..m |-> IF i < m THEN g[i] ELSE g[m - 1] + v[m]]
  <2>2. \A i \in 0..(m - 1) : g[i] = IF i = 0 THEN 0 ELSE g[i - 1] + v[i]
    BY <2>1 DEF Adding
  <2>3. \A i \in 0..m : /\ i < m => i \in 0..(m - 1) /\ h[i] = g[i]
                        /\ i # 0 => i - 1 \in 0..m /\ h[i - 1] = g[i - 1]
                        /\ i < m \/ i = m
    OBVIOUS
  <2>4. \A i \in 0..m : h[i] = IF i = 0 THEN 0 ELSE h[i - 1] + v[i]
    BY <1>2, <2>2, <2>3
  <2>5. Adding(h, v, m)
    BY <2>4 DEF Adding
  <2> QED BY <1>2, <2>5
<1> HIDE DEF T
<1>3. 0..n \subseteq T
  BY <1>1, <1>2, Upward
<1>4. n \in T
  BY <1>3
<1> QED BY <1>4 DEF T

LEMMA SumsAre ==
  ASSUME NEW v \in Seq(Nat)
  PROVE  /\ Sums(v) \in [0..Len(v) -> Nat]
         /\ Sums(v)[0] = 0
         /\ \A i \in 1..Len(v) : Sums(v)[i] = Sums(v)[i - 1] + v[i]
<1> DEFINE g == CHOOSE g : Adding(g, v, Len(v))
           n == Len(v)
<1>1. n \in Nat
  OBVIOUS
<1>2. Adding(g, v, n)
  BY <1>1, AddingExists, Zenon
<1>3. Sums(v) = g
  BY DEF Sums, Adding
<1> HIDE DEF g
<1>4. /\ g = [i \in 0..n |-> g[i]] /\ g[0] = 0
      /\ \A i \in 1..n : g[i] = g[i - 1] + v[i]
  BY <1>1, <1>2 DEF Adding
<1> DEFINE T == {i \in 0..n : g[i] \in Nat}
<1>5. 0 \in T
  BY <1>1, <1>4
<1>6. ASSUME NEW i \in 0..n, i # 0, i - 1 \in T
      PROVE  i \in T
  <2>1. i \in 1..n /\ v[i] \in Nat /\ g[i - 1] \in Nat
    BY <1>6
  <2>2. g[i] = g[i - 1] + v[i]
    BY <1>4, <2>1
  <2>3. g[i] \in Nat
    BY <2>1, <2>2
  <2> QED BY <2>3
<1> HIDE DEF T, n
<1>7. 0..n \subseteq T
  BY <1>1, <1>5, <1>6, Upward
<1>8. g \in [0..n -> Nat]
  BY <1>4, <1>7 DEF T
<1> QED BY <1>3, <1>4, <1>8 DEF n

LEMMA SumsUnique ==
  ASSUME NEW v \in Seq(Nat), NEW n \in 0..Len(v), NEW g, g[0] = 0,
         \A i \in 1..n : g[i] = g[i - 1] + v[i]
  PROVE  \A i \in 0..n : Sums(v)[i] = g[i]
<1> DEFINE T == {i \in 0..n : Sums(v)[i] = g[i]}
<1>1. n \in Nat /\ Len(v) \in Nat
  OBVIOUS
<1>2. 0 \in T
  BY <1>1, SumsAre
<1>3. ASSUME NEW i \in 0..n, i # 0, i - 1 \in T
      PROVE  i \in T
  <2>1. i \in 1..n /\ i \in 1..Len(v) /\ Sums(v)[i - 1] = g[i - 1]
    BY <1>1, <1>3
  <2>2. Sums(v)[i] = Sums(v)[i - 1] + v[i]
    BY <2>1, SumsAre
  <2> QED BY <2>1, <2>2
<1> HIDE DEF T
<1>4. 0..n \subseteq T
  BY <1>1, <1>2, <1>3, Upward
<1> QED BY <1>4 DEF T

LEMMA SumsOfConcat ==
  ASSUME NEW v \in Seq(Nat), NEW w \in Seq(Nat)
  PROVE  /\ \A i \in 0..Len(v) : Sums(v \o w)[i] = Sums(v)[i]
         /\ \A j \in 0..Len(w) : Sums(v \o w)[Len(v) + j] = Total(v) + Sums(w)[j]
<1> DEFINE m == Len(v)  n == Len(w)  vw == v \o w
           g == [i \in 0..(m + n) |-> IF i <= m THEN Sums(v)[i] ELSE Total(v) + Sums(w)[i - m]]
<1>1. /\ m \in Nat /\ n \in Nat /\ vw \in Seq(Nat) /\ Len(vw) = m + n
      /\ \A i \in 1..m : vw[i] = v[i]
      /\ \A j \in 1..n : vw[m + j] = w[j]
  BY ConcatProperties
<1>2. /\ Sums(v) \in [0..m -> Nat] /\ Sums(v)[0] = 0
      /\ \A i \in 1..m : Sums(v)[i] = Sums(v)[i - 1] + v[i]
  BY SumsAre
<1>3. /\ Sums(w) \in [0..n -> Nat] /\ Sums(w)[0] = 0
      /\ \A i \in 1..n : Sums(w)[i] = Sums(w)[i - 1] + w[i]
  BY SumsAre
<1>4. Total(v) = Sums(v)[m]
  BY DEF Total
<1> HIDE DEF m, n, vw
<1>5. \A i \in 0..m : g[i] = Sums(v)[i]
  BY <1>1
<1>6. \A j \in 0..n : g[m + j] = Total(v) + Sums(w)[j]
  <2>1. g[m + 0] = Total(v) + Sums(w)[0]
    BY <1>1, <1>2, <1>3, <1>4
  <2>2. \A j \in 1..n : g[m + j] = Total(v) + Sums(w)[j]
    <3>1. \A j \in 1..n : /\ m + j \in 0..(m + n) /\ ~(m + j <= m) /\ (m + j) - m = j
      BY <1>1
    <3> QED BY <3>1
  <2>3. \A j \in 0..n : j = 0 \/ j \in 1..n
    BY <1>1
  <2> HIDE DEF g
  <2> QED BY <2>1, <2>2, <2>3
<1>7. ASSUME NEW i \in 1..(m + n)
      PROVE  g[i] = g[i - 1] + vw[i]
  <2>1. CASE i <= m
    <3>1. i \in 0..m /\ i - 1 \in 0..m /\ i \in 1..m
      BY <1>1, <2>1
    <3> HIDE DEF g
    <3> QED BY <1>1, <1>2, <1>5, <3>1
  <2>2. CASE i > m
    <3>1. PICK j \in 1..n : i = m + j
      <4>1. i - m \in 1..n /\ i = m + (i - m)
        BY <1>1, <2>2
      <4> QED BY <4>1
    <3>2. j \in 0..n /\ j - 1 \in 0..n /\ i - 1 = m + (j - 1)
      BY <1>1, <3>1
    <3> HIDE DEF g
    <3>3. g[i] = Total(v) + Sums(w)[j] /\ g[i - 1] = Total(v) + Sums(w)[j - 1]
      BY <1>6, <3>1, <3>2
    <3>4. Sums(w)[j] = Sums(w)[j - 1] + w[j] /\ vw[i] = w[j]
      BY <1>1, <1>3, <3>1
    <3>5. Total(v) \in Nat /\ Sums(w)[j - 1] \in Nat /\ w[j] \in Nat
      <4>1. w[j] \in Nat
        BY <3>1 DEF n
      <4>2. m \in 0..m
        BY <1>1
      <4> QED BY <1>2, <1>3, <1>4, <3>2, <4>1, <4>2
    <3> QED BY <3>3, <3>4, <3>5
  <2> QED BY <1>1, <2>1, <2>2
<1>8. g[0] = 0
  BY <1>1, <1>2
<1> HIDE DEF g
<1>9. \A i \in 0..(m + n) : Sums(vw)[i] = g[i]
  <2>1. m + n \in 0..Len(vw)
    BY <1>1
  <2> QED BY <1>1, <1>7, <1>8, <2>1, SumsUnique
<1>10. \A i \in 0..m : Sums(vw)[i] = Sums(v)[i]
  BY <1>1, <1>5, <1>9
<1>11. \A j \in 0..n : Sums(vw)[m + j] = Total(v) + Sums(w)[j]
  <2>1. \A j \in 0..n : m + j \in 0..(m + n)
    BY <1>1
  <2> QED BY <1>6, <1>9, <2>1
<1> QED BY <1>10, <1>11 DEF m, n, vw

LEMMA Totals ==
  ASSUME NEW v \in Seq(Nat), NEW w \in Seq(Nat)
  PROVE  Total(v) \in Nat /\ Total(v \o w) = Total(v) + Total(w)
<1>1. /\ Len(v) \in Nat /\ Len(w) \in Nat /\ Len(v \o w) = Len(v) + Len(w)
  BY ConcatProperties
<1>2. Len(v) \in 0..Len(v) /\ Len(w) \in 0..Len(w)
  BY <1>1
<1>3. Total(v) \in Nat
  BY <1>2, SumsAre DEF Total
<1>4. Sums(v \o w)[Len(v) + Len(w)] = Total(v) + Sums(w)[Len(w)]
  BY <1>2, SumsOfConcat
<1> QED BY <1>1, <1>3, <1>4 DEF Total

LEMMA TotalOfOne ==
  /\ Total(<<>>) = 0
  /\ \A x \in Nat : <<x>> \in Seq(Nat) /\ Total(<<x>>) = x
<1>1. <<>> \in Seq(Nat) /\ Len(<<>>) = 0
  OBVIOUS
<1>2. Total(<<>>) = 0
  BY <1>1, SumsAre DEF Total
<1>3. ASSUME NEW x \in Nat
      PROVE  <<x>> \in Seq(Nat) /\ Total(<<x>>) = x
  <2>1. <<x>> \in Seq(Nat) /\ Len(<<x>>) = 1 /\ <<x>>[1] = x
    OBVIOUS
  <2>2. PICK v : v = <<x>>
    OBVIOUS
  <2>3. Sums(v)[0] = 0 /\ Sums(v)[1] = Sums(v)[1 - 1] + v[1]
    <3>1. 1 \in 1..Len(v) /\ v \in Seq(Nat)
      BY <2>1, <2>2
    <3> QED BY <3>1, SumsAre
  <2>4. Sums(v)[1] = x
    BY <2>1, <2>2, <2>3
  <2> QED BY <2>1, <2>2, <2>4 DEF Total
<1> QED BY <1>2, <1>3

(* The sums behind the head of a list.                                     *)
LEMMA SumsOfTail ==
  ASSUME NEW v \in Seq(Nat), v # <<>>
  PROVE  /\ Tail(v) \in Seq(Nat)
         /\ \A i \in 0..Len(Tail(v)) : Sums(v)[i + 1] = v[1] + Sums(Tail(v))[i]
         /\ Total(v) = v[1] + Total(Tail(v))
<1>1. /\ Tail(v) \in Seq(Nat) /\ v[1] \in Nat /\ <<v[1]>> \in Seq(Nat) /\ Len(<<v[1]>>) = 1
      /\ v = <<v[1]>> \o Tail(v)
  OBVIOUS
<1>2. \A i \in 0..Len(Tail(v)) : Sums(v)[1 + i] = v[1] + Sums(Tail(v))[i]
  <2>1. \A i \in 0..Len(Tail(v)) :
          Sums(<<v[1]>> \o Tail(v))[1 + i] = Total(<<v[1]>>) + Sums(Tail(v))[i]
    BY <1>1, SumsOfConcat
  <2> QED BY <1>1, <2>1, TotalOfOne
<1>3. Total(v) = v[1] + Total(Tail(v))
  <2>1. Total(<<v[1]>> \o Tail(v)) = Total(<<v[1]>>) + Total(Tail(v))
    BY <1>1, Totals
  <2> QED BY <1>1, <2>1, TotalOfOne
<1> QED BY <1>1, <1>2, <1>3

(* A list is its beginning and its end.                                    *)
LEMMA Glued ==
  ASSUME NEW S, NEW v \in Seq(S), NEW a \in Seq(S), NEW b \in Seq(S),
         Len(v) = Len(a) + Len(b),
         \A i \in 1..Len(a) : v[i] = a[i],
         \A j \in 1..Len(b) : v[Len(a) + j] = b[j]
  PROVE  v = a \o b
<1>1. /\ Len(a) \in Nat /\ Len(b) \in Nat
      /\ a \o b \in Seq(S) /\ Len(a \o b) = Len(a) + Len(b)
  OBVIOUS
<1>2. ASSUME NEW i \in 1..(Len(a) + Len(b))
      PROVE  v[i] = (a \o b)[i]
  <2>1. CASE i <= Len(a)
    <3>1. i \in 1..Len(a)
      BY <1>1, <2>1
    <3> QED BY <3>1
  <2>2. CASE i > Len(a)
    <3>1. i - Len(a) \in 1..Len(b) /\ Len(a) + (i - Len(a)) = i
      BY <1>1, <2>2
    <3>2. (a \o b)[Len(a) + (i - Len(a))] = b[i - Len(a)]
      BY <3>1
    <3>3. v[Len(a) + (i - Len(a))] = b[i - Len(a)]
      BY <3>1
    <3> QED BY <3>1, <3>2, <3>3
  <2> QED BY <1>1, <2>1, <2>2
<1> QED BY <1>1, <1>2, SeqEqual

LEMMA GluedNumbers ==
  \A v, a, b \in Seq(Nat) :
     /\ Len(v) = Len(a) + Len(b)
     /\ \A i \in 1..Len(a) : v[i] = a[i]
     /\ \A j \in 1..Len(b) : v[Len(a) + j] = b[j]
     => v = a \o b
<1>1. TAKE v, a, b \in Seq(Nat)
<1>2. HAVE /\ Len(v) = Len(a) + Len(b)
           /\ \A i \in 1..Len(a) : v[i] = a[i]
           /\ \A j \in 1..Len(b) : v[Len(a) + j] = b[j]
<1> QED BY <1>2, Glued

(* A list has no smaller a total than its beginning.                       *)
LEMMA TotalOfPrefix ==
  ASSUME NEW v \in Seq(Nat), NEW k \in 0..Len(v)
  PROVE  SubSeq(v, 1, k) \in Seq(Nat) /\ Total(SubSeq(v, 1, k)) <= Total(v)
<1>1. PICK a : a = SubSeq(v, 1, k)
  OBVIOUS
<1>2. PICK b : b = SubSeq(v, k + 1, Len(v))
  OBVIOUS
<1>3. Len(v) \in Nat /\ k \in Nat /\ k <= Len(v)
  OBVIOUS
<1>4. a \in Seq(Nat) /\ Len(a) = k /\ \A i \in 1..k : v[i] = a[i]
  BY <1>1, <1>3
<1>5. b \in Seq(Nat) /\ Len(b) = Len(v) - k /\ \A j \in 1..(Len(v) - k) : v[k + j] = b[j]
  BY <1>2, <1>3
<1>6. v = a \o b
  <2>1. Len(v) = Len(a) + Len(b)
    BY <1>3, <1>4, <1>5
  <2>2. \A i \in 1..Len(a) : v[i] = a[i]
    BY <1>4
  <2>3. \A j \in 1..Len(b) : v[Len(a) + j] = b[j]
    BY <1>4, <1>5
  <2> QED BY <1>4, <1>5, <2>1, <2>2, <2>3, Glued
<1>7. Total(a) \in Nat /\ Total(b) \in Nat /\ Total(a \o b) = Total(a) + Total(b)
  BY <1>4, <1>5, Totals
<1>8. Total(a) <= Total(a) + Total(b)
  BY <1>7
<1> QED BY <1>1, <1>4, <1>6, <1>7, <1>8

-----------------------------------------------------------------------------
(* What a list of commands adds to an outcome, and what a list of          *)
(* settlements counts of a result.                                         *)
Adds(s, r) == [i \in 1..Len(s) |-> IF s[i].op = r THEN s[i].by ELSE 0]
Wins(s, r) == [i \in 1..Len(s) |-> s[i].settled[r]]

Command == Write \cup Read

LEMMA CommandKinds ==
  ASSUME NEW c \in Command
  PROVE  /\ c \in Write <=> c.op \in Writes
         /\ c \in Read <=> c.op \notin Writes
         /\ c.op \in {"won", "lost", "seen", "read ledger", "read staleness"}
         /\ c.op \in Counted => c.by \in Nat \ {0}
         /\ c.op = "seen" => c.by \in 1..MaxEvents
         /\ c.op \notin Writes => c.poll \in Polls
BY DEF Command, Write, Read, Writes, Counted

LEMMA SettlementFacts ==
  ASSUME NEW f \in Settlement
  PROVE  /\ f.n \in 1..MaxEvents /\ f.settled \in [Results -> Nat]
         /\ f.settled["won"] \in Nat /\ f.settled["lost"] \in Nat
         /\ \A r \in Counted : f.settled[r] \in Nat
BY AdminConsoleAssumption DEF Settlement, Results, Counted

LEMMA AddsOfConcat ==
  ASSUME NEW s \in Seq(Command), NEW t \in Seq(Command), NEW r \in Counted
  PROVE  /\ Adds(s, r) \in Seq(Nat) /\ Len(Adds(s, r)) = Len(s)
         /\ Adds(s \o t, r) = Adds(s, r) \o Adds(t, r)
<1>1. ASSUME NEW u \in Seq(Command)
      PROVE  /\ Adds(u, r) \in Seq(Nat) /\ Len(Adds(u, r)) = Len(u)
             /\ \A i \in 1..Len(u) : Adds(u, r)[i] = IF u[i].op = r THEN u[i].by ELSE 0
  <2>1. ASSUME NEW i \in 1..Len(u), u[i].op = r
        PROVE  u[i].by \in Nat
    <3>1. u[i] \in Command
      OBVIOUS
    <3> QED BY <2>1, <3>1, CommandKinds
  <2> QED BY <2>1 DEF Adds
<1>2. /\ s \o t \in Seq(Command) /\ Len(s \o t) = Len(s) + Len(t)
      /\ Len(s) \in Nat /\ Len(t) \in Nat
      /\ \A i \in 1..Len(s) : i \in 1..Len(s \o t) /\ (s \o t)[i] = s[i]
      /\ \A j \in 1..Len(t) : Len(s) + j \in 1..Len(s \o t) /\ (s \o t)[Len(s) + j] = t[j]
  OBVIOUS
<1>3. /\ \A i \in 1..Len(s) : Adds(s \o t, r)[i] = Adds(s, r)[i]
      /\ \A j \in 1..Len(t) : Adds(s \o t, r)[Len(s) + j] = Adds(t, r)[j]
  <2>1. PICK st : st = s \o t
    OBVIOUS
  <2>2. \A i \in 1..Len(st) : Adds(st, r)[i] = IF st[i].op = r THEN st[i].by ELSE 0
    BY <1>1, <1>2, <2>1
  <2>3. ASSUME NEW i \in 1..Len(s)
        PROVE  Adds(st, r)[i] = Adds(s, r)[i]
    <3>1. i \in 1..Len(st) /\ st[i] = s[i]
      BY <1>2, <2>1
    <3>2. Adds(s, r)[i] = IF s[i].op = r THEN s[i].by ELSE 0
      BY <1>1
    <3> QED BY <2>2, <3>1, <3>2, Zenon
  <2>4. ASSUME NEW j \in 1..Len(t)
        PROVE  Adds(st, r)[Len(s) + j] = Adds(t, r)[j]
    <3>1. PICK k : k = Len(s) + j
      OBVIOUS
    <3>2. k \in 1..Len(st) /\ st[k] = t[j]
      BY <1>2, <2>1, <3>1
    <3>3. Adds(t, r)[j] = IF t[j].op = r THEN t[j].by ELSE 0
      BY <1>1
    <3> QED BY <2>2, <3>1, <3>2, <3>3, Zenon
  <2> QED BY <2>1, <2>3, <2>4
<1>4. /\ Adds(s, r) \in Seq(Nat) /\ Adds(t, r) \in Seq(Nat) /\ Adds(s \o t, r) \in Seq(Nat)
      /\ Len(Adds(s, r)) = Len(s) /\ Len(Adds(t, r)) = Len(t)
      /\ Len(Adds(s \o t, r)) = Len(s) + Len(t)
  BY <1>1, <1>2
<1>5. /\ Len(Adds(s \o t, r)) = Len(Adds(s, r)) + Len(Adds(t, r))
      /\ \A i \in 1..Len(Adds(s, r)) : Adds(s \o t, r)[i] = Adds(s, r)[i]
      /\ \A j \in 1..Len(Adds(t, r)) : Adds(s \o t, r)[Len(Adds(s, r)) + j] = Adds(t, r)[j]
  BY <1>3, <1>4
<1>6. Adds(s \o t, r) = Adds(s, r) \o Adds(t, r)
  <2>1. PICK v, a, b : v = Adds(s \o t, r) /\ a = Adds(s, r) /\ b = Adds(t, r)
    OBVIOUS
  <2>2. v \in Seq(Nat) /\ a \in Seq(Nat) /\ b \in Seq(Nat)
    BY <1>4, <2>1
  <2>3. /\ Len(v) = Len(a) + Len(b)
        /\ \A i \in 1..Len(a) : v[i] = a[i]
        /\ \A j \in 1..Len(b) : v[Len(a) + j] = b[j]
    BY <1>5, <2>1
  <2>4. v = a \o b
    BY <2>2, <2>3, GluedNumbers, Zenon
  <2> QED BY <2>1, <2>4
<1> QED BY <1>4, <1>6

LEMMA WinsOfConcat ==
  ASSUME NEW s \in Seq(Settlement), NEW t \in Seq(Settlement), NEW r \in Counted
  PROVE  /\ Wins(s, r) \in Seq(Nat) /\ Len(Wins(s, r)) = Len(s)
         /\ Wins(s \o t, r) = Wins(s, r) \o Wins(t, r)
<1>1. ASSUME NEW u \in Seq(Settlement)
      PROVE  /\ Wins(u, r) \in Seq(Nat) /\ Len(Wins(u, r)) = Len(u)
             /\ \A i \in 1..Len(u) : Wins(u, r)[i] = u[i].settled[r]
  <2>1. \A i \in 1..Len(u) : u[i].settled[r] \in Nat
    BY SettlementFacts
  <2> QED BY <2>1 DEF Wins
<1>2. /\ s \o t \in Seq(Settlement) /\ Len(s \o t) = Len(s) + Len(t)
      /\ Len(s) \in Nat /\ Len(t) \in Nat
      /\ \A i \in 1..Len(s) : i \in 1..Len(s \o t) /\ (s \o t)[i] = s[i]
      /\ \A j \in 1..Len(t) : Len(s) + j \in 1..Len(s \o t) /\ (s \o t)[Len(s) + j] = t[j]
  OBVIOUS
<1>3. /\ \A i \in 1..Len(s) : Wins(s \o t, r)[i] = Wins(s, r)[i]
      /\ \A j \in 1..Len(t) : Wins(s \o t, r)[Len(s) + j] = Wins(t, r)[j]
  <2>1. PICK st : st = s \o t
    OBVIOUS
  <2>2. \A i \in 1..Len(st) : Wins(st, r)[i] = st[i].settled[r]
    BY <1>1, <1>2, <2>1
  <2>3. ASSUME NEW i \in 1..Len(s)
        PROVE  Wins(st, r)[i] = Wins(s, r)[i]
    <3>1. i \in 1..Len(st) /\ st[i] = s[i]
      BY <1>2, <2>1
    <3>2. Wins(s, r)[i] = s[i].settled[r]
      BY <1>1
    <3> QED BY <2>2, <3>1, <3>2, Zenon
  <2>4. ASSUME NEW j \in 1..Len(t)
        PROVE  Wins(st, r)[Len(s) + j] = Wins(t, r)[j]
    <3>1. PICK k : k = Len(s) + j
      OBVIOUS
    <3>2. k \in 1..Len(st) /\ st[k] = t[j]
      BY <1>2, <2>1, <3>1
    <3>3. Wins(t, r)[j] = t[j].settled[r]
      BY <1>1
    <3> QED BY <2>2, <3>1, <3>2, <3>3, Zenon
  <2> QED BY <2>1, <2>3, <2>4
<1>4. /\ Wins(s, r) \in Seq(Nat) /\ Wins(t, r) \in Seq(Nat) /\ Wins(s \o t, r) \in Seq(Nat)
      /\ Len(Wins(s, r)) = Len(s) /\ Len(Wins(t, r)) = Len(t)
      /\ Len(Wins(s \o t, r)) = Len(s) + Len(t)
  BY <1>1, <1>2
<1>5. /\ Len(Wins(s \o t, r)) = Len(Wins(s, r)) + Len(Wins(t, r))
      /\ \A i \in 1..Len(Wins(s, r)) : Wins(s \o t, r)[i] = Wins(s, r)[i]
      /\ \A j \in 1..Len(Wins(t, r)) : Wins(s \o t, r)[Len(Wins(s, r)) + j] = Wins(t, r)[j]
  BY <1>3, <1>4
<1>6. Wins(s \o t, r) = Wins(s, r) \o Wins(t, r)
  <2>1. PICK v, a, b : v = Wins(s \o t, r) /\ a = Wins(s, r) /\ b = Wins(t, r)
    OBVIOUS
  <2>2. v \in Seq(Nat) /\ a \in Seq(Nat) /\ b \in Seq(Nat)
    BY <1>4, <2>1
  <2>3. /\ Len(v) = Len(a) + Len(b)
        /\ \A i \in 1..Len(a) : v[i] = a[i]
        /\ \A j \in 1..Len(b) : v[Len(a) + j] = b[j]
    BY <1>5, <2>1
  <2>4. v = a \o b
    BY <2>2, <2>3, GluedNumbers, Zenon
  <2> QED BY <2>1, <2>4
<1> QED BY <1>4, <1>6

LEMMA TotalWins ==
  ASSUME NEW s \in Seq(Settlement), NEW t \in Seq(Settlement), NEW r \in Counted
  PROVE  /\ Total(Wins(s, r)) \in Nat
         /\ Total(Wins(s \o t, r)) = Total(Wins(s, r)) + Total(Wins(t, r))
BY WinsOfConcat, Totals

LEMMA WinsOfOne ==
  ASSUME NEW f \in Settlement, NEW r \in Counted
  PROVE  Total(Wins(<<f>>, r)) = f.settled[r]
<1>1. Wins(<<f>>, r) = <<f.settled[r]>>
  BY DEF Wins
<1> QED BY <1>1, SettlementFacts, TotalOfOne

(* What the page shows is the total of the settlements it keeps.           *)
LEMMA ShownIs ==
  ASSUME history \in Seq(Settlement)
  PROVE  Shown = [r \in Counted |-> Total(Wins(history, r))]
<1> DEFINE n == Len(history)
           Adding2(T) == T = [i \in 0..n |-> IF i = 0 THEN Zero
                                              ELSE Plus(T[i - 1], history[i].settled)]
           g == [i \in 0..n |-> [r \in Counted |-> Sums(Wins(history, r))[i]]]
           total == CHOOSE T : Adding2(T)
<1>1. /\ n \in Nat /\ <<>> \in Seq(Settlement)
      /\ \A i \in 1..n : history[i] \in Settlement
  OBVIOUS
<1>2. ASSUME NEW r \in Counted
      PROVE  /\ Sums(Wins(history, r))[0] = 0
             /\ \A i \in 1..n : Sums(Wins(history, r))[i]
                                = Sums(Wins(history, r))[i - 1] + history[i].settled[r]
  <2>1. Wins(history, r) \in Seq(Nat) /\ Len(Wins(history, r)) = n
    BY <1>1, WinsOfConcat
  <2>2. \A i \in 1..n : Wins(history, r)[i] = history[i].settled[r]
    BY DEF Wins
  <2> HIDE DEF n
  <2> QED BY <2>1, <2>2, SumsAre
<1>3. \A i \in 0..n : g[i] = [r \in Counted |-> Sums(Wins(history, r))[i]]
  OBVIOUS
<1>4. g[0] = Zero
  <2>1. 0 \in 0..n
    BY <1>1
  <2> HIDE DEF g
  <2> QED BY <1>2, <1>3, <2>1 DEF Zero
<1>5. \A i \in 1..n : g[i] = Plus(g[i - 1], history[i].settled)
  <2> SUFFICES ASSUME NEW i \in 1..n PROVE g[i] = Plus(g[i - 1], history[i].settled)
    OBVIOUS
  <2>1. i \in 0..n /\ i - 1 \in 0..n
    BY <1>1
  <2>2. PICK h : h = g[i - 1]
    OBVIOUS
  <2>3. h = [r \in Counted |-> Sums(Wins(history, r))[i - 1]]
    BY <2>1, <2>2
  <2>4. \A r \in Counted : h[r] = Sums(Wins(history, r))[i - 1]
    BY <2>3
  <2>5. g[i] = [r \in Counted |-> h[r] + history[i].settled[r]]
    BY <1>2, <1>3, <2>1, <2>4
  <2> QED BY <2>2, <2>5 DEF Plus
<1>6. Adding2(g)
  <2>1. \A i \in 0..n : i = 0 \/ i \in 1..n
    BY <1>1
  <2>2. g = [i \in 0..n |-> g[i]]
    OBVIOUS
  <2> HIDE DEF g
  <2> QED BY <1>4, <1>5, <2>1, <2>2
<1>7. Adding2(total)
  <2> HIDE DEF g, Adding2
  <2> QED BY <1>6
<1>8. Shown = total[n]
  BY DEF Shown
<1> HIDE DEF g, total
<1>9. /\ total[0] = Zero
      /\ \A i \in 1..n : total[i] = Plus(total[i - 1], history[i].settled)
  BY <1>1, <1>7
<1> HIDE DEF Adding2
<1> DEFINE T == {i \in 0..n : total[i] = g[i]}
<1>10. 0 \in T
  BY <1>1, <1>4, <1>9
<1>11. ASSUME NEW i \in 0..n, i # 0, i - 1 \in T
       PROVE  i \in T
  <2>1. i \in 1..n /\ total[i - 1] = g[i - 1]
    BY <1>1, <1>11
  <2> QED BY <1>5, <1>9, <2>1
<1> HIDE DEF T, n
<1>12. 0..n \subseteq T
  BY <1>1, <1>10, <1>11, Upward
<1>13. n \in 0..n
  BY <1>1
<1>14. total[n] = g[n]
  BY <1>12, <1>13 DEF T
<1>15. g[n] = [r \in Counted |-> Sums(Wins(history, r))[n]]
  BY <1>3, <1>13
<1>16. \A r \in Counted : Total(Wins(history, r)) = Sums(Wins(history, r))[n]
  BY <1>1, WinsOfConcat DEF Total, n
<1> QED BY <1>8, <1>14, <1>15, <1>16

LEMMA IncrementFacts ==
  ASSUME NEW result \in Counted, NEW by \in Nat, NEW r \in Counted
  PROVE  /\ Increment(result, by) \in Seq(Write) /\ Increment(result, by) \in Seq(Command)
         /\ \A i \in 1..Len(Increment(result, by)) : Increment(result, by)[i].op = result
         /\ Total(Adds(Increment(result, by), r)) = IF r = result THEN by ELSE 0
<1>1. CASE by = 0
  <2>1. Increment(result, by) = <<>>
    BY <1>1 DEF Increment
  <2>2. Adds(<<>>, r) = <<>>
    BY DEF Adds
  <2>3. Total(Adds(<<>>, r)) = 0
    BY <2>2, TotalOfOne
  <2>4. <<>> \in Seq(Write) /\ <<>> \in Seq(Command)
    OBVIOUS
  <2>5. \A i \in 1..Len(<<>>) : <<>>[i].op = result
    OBVIOUS
  <2>6. PICK w : w = <<>>
    OBVIOUS
  <2>7. /\ Increment(result, by) = w /\ w \in Seq(Write) /\ w \in Seq(Command)
        /\ Total(Adds(w, r)) = 0
        /\ \A i \in 1..Len(w) : w[i].op = result
    BY <2>1, <2>3, <2>4, <2>5, <2>6
  <2> QED BY <1>1, <2>7
<1>2. CASE by # 0
  <2>1. PICK c : c = [op |-> result, by |-> by]
    OBVIOUS
  <2>2. Increment(result, by) = <<c>> /\ c \in Write /\ c \in Command /\ c.op = result /\ c.by = by
    BY <1>2, <2>1 DEF Increment, Write, Command
  <2>3. Adds(<<c>>, r) = <<IF r = result THEN by ELSE 0>>
    BY <2>2 DEF Adds
  <2>4. Total(<<IF r = result THEN by ELSE 0>>) = IF r = result THEN by ELSE 0
    BY TotalOfOne
  <2>5. \A i \in 1..Len(<<c>>) : <<c>>[i] = c
    OBVIOUS
  <2> QED BY <2>2, <2>3, <2>4, <2>5
<1> QED BY <1>1, <1>2

(* The writes for a settlement count its results, and the last of them is  *)
(* the one that says that the channel was heard.                           *)
LEMMA IncrementsFacts ==
  ASSUME NEW f \in Settlement, NEW r \in Counted
  PROVE  LET w == Increments(f)
         IN  /\ w \in Seq(Write) /\ w \in Seq(Command) /\ Len(w) \in Nat \ {0}
             /\ w[Len(w)] = [op |-> "seen", by |-> f.n]
             /\ \A i \in 1..(Len(w) - 1) : w[i].op \in Counted
             /\ Total(Adds(w, r)) = f.settled[r]
<1>1. PICK a : a = Increment("won", f.settled["won"])
  OBVIOUS
<1>2. PICK b : b = Increment("lost", f.settled["lost"])
  OBVIOUS
<1>3. PICK c : c = [op |-> "seen", by |-> f.n]
  OBVIOUS
<1>4. PICK w : w = (a \o b) \o <<c>>
  OBVIOUS
<1>5. Increments(f) = w
  BY <1>1, <1>2, <1>3, <1>4 DEF Increments
<1>6. /\ a \in Seq(Write) /\ a \in Seq(Command)
      /\ b \in Seq(Write) /\ b \in Seq(Command)
      /\ \A i \in 1..Len(a) : a[i].op = "won"
      /\ \A i \in 1..Len(b) : b[i].op = "lost"
      /\ Total(Adds(a, r)) = IF r = "won" THEN f.settled["won"] ELSE 0
      /\ Total(Adds(b, r)) = IF r = "lost" THEN f.settled["lost"] ELSE 0
  <2>1. f.settled["won"] \in Nat /\ f.settled["lost"] \in Nat /\ "won" \in Counted
            /\ "lost" \in Counted
    BY SettlementFacts DEF Counted
  <2>2. /\ a \in Seq(Write) /\ a \in Seq(Command)
        /\ \A i \in 1..Len(a) : a[i].op = "won"
        /\ Total(Adds(a, r)) = IF r = "won" THEN f.settled["won"] ELSE 0
    BY <1>1, <2>1, IncrementFacts
  <2>3. /\ b \in Seq(Write) /\ b \in Seq(Command)
        /\ \A i \in 1..Len(b) : b[i].op = "lost"
        /\ Total(Adds(b, r)) = IF r = "lost" THEN f.settled["lost"] ELSE 0
    BY <1>2, <2>1, IncrementFacts
  <2> QED BY <2>2, <2>3
<1>7. /\ c \in Write /\ c \in Command /\ c.op = "seen"
      /\ <<c>> \in Seq(Write) /\ <<c>> \in Seq(Command) /\ Len(<<c>>) = 1 /\ <<c>>[1] = c
  <2>1. c \in Write /\ c \in Command /\ c.op = "seen"
    BY <1>3, SettlementFacts DEF Write, Command
  <2> QED BY <2>1
<1>8. PICK ab : ab = a \o b
  OBVIOUS
<1>9. /\ ab \in Seq(Write) /\ ab \in Seq(Command) /\ Len(ab) \in Nat
      /\ \A i \in 1..Len(ab) : ab[i].op \in Counted
  <2>1. /\ ab \in Seq(Write) /\ ab \in Seq(Command) /\ Len(ab) = Len(a) + Len(b)
        /\ Len(a) \in Nat /\ Len(b) \in Nat
        /\ \A i \in 1..Len(a) : ab[i] = a[i]
    BY <1>6, <1>8
  <2>2. ASSUME NEW i \in 1..Len(ab)
        PROVE  ab[i].op \in Counted
    <3>1. CASE i \in 1..Len(a)
      BY <1>6, <2>1, <3>1 DEF Counted
    <3>2. CASE i \notin 1..Len(a)
      <4>1. i - Len(a) \in 1..Len(b)
        BY <2>1, <3>2
      <4>2. ab[i] = b[i - Len(a)]
        BY <1>6, <1>8, <2>1, <3>2
      <4> QED BY <1>6, <4>1, <4>2 DEF Counted
    <3> QED BY <3>1, <3>2
  <2> QED BY <2>1, <2>2
<1>10. /\ w = ab \o <<c>> /\ w \in Seq(Write) /\ w \in Seq(Command) /\ Len(w) = Len(ab) + 1
       /\ \A i \in 1..Len(ab) : w[i] = ab[i]
       /\ w[Len(ab) + 1] = c
  BY <1>4, <1>7, <1>8, <1>9
<1>11. /\ Len(w) \in Nat \ {0} /\ w[Len(w)] = c
       /\ \A i \in 1..(Len(w) - 1) : w[i].op \in Counted
  BY <1>9, <1>10
<1>12. Total(Adds(w, r)) = f.settled[r]
  <2>1. Adds(<<c>>, r) = <<0>>
    BY <1>7 DEF Adds, Counted
  <2>2. Total(Adds(<<c>>, r)) = 0
    BY <2>1, TotalOfOne
  <2>3. /\ Adds(a, r) \in Seq(Nat) /\ Adds(b, r) \in Seq(Nat) /\ Adds(ab, r) \in Seq(Nat)
        /\ Adds(<<c>>, r) \in Seq(Nat)
    BY <1>6, <1>7, <1>9, AddsOfConcat
  <2>4. Total(Adds(ab, r)) = Total(Adds(a, r)) + Total(Adds(b, r))
    BY <1>6, <1>8, <2>3, AddsOfConcat, Totals
  <2>5. Total(Adds(w, r)) = Total(Adds(ab, r)) + Total(Adds(<<c>>, r))
    <3>1. Adds(w, r) = Adds(ab, r) \o Adds(<<c>>, r)
      <4>1. <<c>> \in Seq(Command)
        BY <1>7
      <4> QED BY <1>9, <1>10, <4>1, AddsOfConcat, Zenon
    <3> QED BY <2>3, <3>1, Totals, Zenon
  <2>6. f.settled["won"] \in Nat /\ f.settled["lost"] \in Nat /\ (r = "won" \/ r = "lost")
    BY SettlementFacts DEF Counted
  <2> QED BY <1>6, <2>2, <2>4, <2>5, <2>6
<1> QED BY <1>3, <1>5, <1>10, <1>11, <1>12

-----------------------------------------------------------------------------
(* Types.                                                                  *)
Codes == {"none", "200", "401", "500", "503", "failed"}

PollType(n) ==
  [at : {"idle", "sent", "reading", "answered"}, token : 0..n, disposed : BOOLEAN, body : Body,
   base : [Counted -> Nat], code : Codes, known : 0..MaxEvents]

StoreTyped ==
  /\ relay \in {"down", "up", "quitting"}
  /\ inbox \in Seq(Settlement) /\ commands \in Seq(Command)
  /\ outcomes \in [Counted -> Nat] /\ seen \in 0..MaxEvents
  /\ fit \in Fits /\ fits \in 0..MaxFits
  /\ published \in 0..MaxEvents /\ heard \in [Counted -> Nat] /\ dropped \in BOOLEAN
  /\ faults \in 0..MaxFaults

LoginTyped ==
  /\ issued \in 0..MaxLogins /\ session \in 0..issued /\ expired \subseteq 1..issued
  /\ form \in {"idle", "busy", "granted", "failed"}
  /\ token \in 0..issued /\ leaving \in BOOLEAN
  /\ link \in {"none", "public", "admin"} /\ (link # "none" => token # 0 /\ relay # "down")

PageTyped ==
  wire \in Seq(Settlement) /\ history \in Seq(Settlement) /\ Len(history) <= Keep

PollsTyped == poll \in [Polls -> PollType(issued)]

(* c asks on behalf of the poll p.                                         *)
AsksFor(c, p) == c \in Read /\ c.poll = p

(* A poll that is being read has one read in the queue.                    *)
ReadsKnown ==
  \A p \in Polls :
    /\ poll[p].at = "reading" <=> \E i \in DOMAIN commands : AsksFor(commands[i], p)
    /\ \A i, j \in DOMAIN commands : AsksFor(commands[i], p) /\ AsksFor(commands[j], p) => i = j

PanelTyped ==
  /\ stats \in [asked : BOOLEAN, body : Body, base : [Counted -> Nat], known : 0..MaxEvents]
  /\ error \in Codes \ {"200"}

Typed == StoreTyped /\ LoginTyped /\ PageTyped /\ PollsTyped /\ ReadsKnown /\ PanelTyped

LEMMA TypedIsTypeOK == Typed => TypeOK
<1> SUFFICES ASSUME Typed PROVE TypeOK
  OBVIOUS
<1>1. /\ relay \in {"down", "up", "quitting"}
      /\ inbox \in Seq(Settlement) /\ commands \in Seq(Write \cup Read)
      /\ outcomes \in [Counted -> Nat] /\ seen \in 0..MaxEvents
      /\ fit \in Fits /\ fits \in 0..MaxFits
      /\ published \in 0..MaxEvents /\ heard \in [Counted -> Nat] /\ dropped \in BOOLEAN
      /\ faults \in 0..MaxFaults
  BY DEF Typed, StoreTyped, Command
<1>2. /\ issued \in 0..MaxLogins /\ session \in 0..issued /\ expired \subseteq 1..issued
      /\ form \in {"idle", "busy", "granted", "failed"}
      /\ token \in 0..issued /\ leaving \in BOOLEAN
      /\ link \in {"none", "public", "admin"} /\ (link # "none" => token # 0 /\ relay # "down")
  BY DEF Typed, LoginTyped
<1>3. wire \in Seq(Settlement) /\ history \in Seq(Settlement) /\ Len(history) <= Keep
  BY DEF Typed, PageTyped
<1>4. poll \in [Polls -> [at : {"idle", "sent", "reading", "answered"}, token : 0..issued,
                         disposed : BOOLEAN, body : Body, base : [Counted -> Nat],
                         code : {"none", "200", "401", "500", "503", "failed"},
                         known : 0..MaxEvents]]
  <2>1. PollType(issued) = [at : {"idle", "sent", "reading", "answered"}, token : 0..issued,
                         disposed : BOOLEAN, body : Body, base : [Counted -> Nat],
                         code : {"none", "200", "401", "500", "503", "failed"},
                         known : 0..MaxEvents]
    BY Zenon DEF PollType, Codes
  <2> QED BY <2>1, Zenon DEF Typed, PollsTyped
<1>5. \A p \in Polls :
        /\ poll[p].at = "reading" <=>
             \E i \in DOMAIN commands : commands[i] \in Read /\ commands[i].poll = p
        /\ \A i, j \in DOMAIN commands :
             commands[i] \in Read /\ commands[j] \in Read
                 /\ commands[i].poll = commands[j].poll => i = j
  <2> SUFFICES ASSUME NEW p \in Polls
               PROVE  /\ poll[p].at = "reading" <=>
                           \E i \in DOMAIN commands : commands[i] \in Read /\ commands[i].poll = p
                      /\ \A i, j \in DOMAIN commands :
                           commands[i] \in Read /\ commands[j] \in Read
                               /\ commands[i].poll = commands[j].poll => i = j
    OBVIOUS
  <2>1. poll[p].at = "reading" <=>
          \E i \in DOMAIN commands : commands[i] \in Read /\ commands[i].poll = p
    BY DEF Typed, ReadsKnown, AsksFor
  <2>2. ASSUME NEW i \in DOMAIN commands, NEW j \in DOMAIN commands,
               commands[i] \in Read, commands[j] \in Read, commands[i].poll = commands[j].poll
        PROVE  i = j
    <3>1. PICK q \in Polls : q = commands[i].poll
      BY <2>2 DEF Read
    <3> QED BY <2>2, <3>1 DEF Typed, ReadsKnown, AsksFor
  <2> QED BY <2>1, <2>2
<1>6. /\ stats \in [asked : BOOLEAN, body : Body, base : [Counted -> Nat], known : 0..MaxEvents]
      /\ error \in {"none", "401", "500", "503", "failed"}
  BY DEF Typed, PanelTyped, Codes
<1> QED BY <1>1, <1>2, <1>3, <1>4, <1>5, <1>6, Zenon DEF TypeOK

LEMMA Basics ==
  /\ Zero \in [Counted -> Nat] /\ Unread \in Body /\ \A n \in Nat : Idle \in PollType(n)
  /\ NoStats \in [asked : BOOLEAN, body : Body, base : [Counted -> Nat], known : 0..MaxEvents]
  /\ Idle.at = "idle" /\ Idle.code = "none" /\ ~NoStats.asked
<1>1. Zero \in [Counted -> Nat] /\ 0 \in 0..MaxEvents /\ "none" \in Fits
  BY AdminConsoleAssumption DEF Zero
<1>2. Unread \in Body
  BY <1>1 DEF Unread, Body
<1>3. \A n \in Nat : Idle \in PollType(n)
  BY <1>1, <1>2 DEF Idle, PollType, Codes
<1> QED BY <1>1, <1>2, <1>3 DEF NoStats, Idle

LEMMA InitTyped == Init => Typed
<1> SUFFICES ASSUME Init PROVE Typed
  OBVIOUS
<1>1. 0 \in 0..MaxEvents /\ 0 \in 0..MaxFits /\ 0 \in 0..MaxLogins /\ 0 \in 0..MaxFaults
      /\ "none" \in Fits /\ Keep \in Nat
  BY AdminConsoleAssumption
<1>2. StoreTyped
  <2>1. inbox \in Seq(Settlement) /\ commands \in Seq(Command)
    BY DEF Init
  <2> QED BY <1>1, <2>1, Basics DEF Init, StoreTyped
<1>3. LoginTyped
  <2>1. /\ issued = 0 /\ session = 0 /\ expired = {} /\ form = "idle" /\ token = 0
        /\ leaving = FALSE /\ link = "none" /\ 0 \in 0..0
    BY DEF Init
  <2> QED BY <1>1, <2>1 DEF LoginTyped
<1>4. PageTyped
  BY <1>1 DEF Init, PageTyped
<1>5. PollsTyped
  BY Basics DEF Init, PollsTyped
<1>6. ReadsKnown
  BY Basics DEF Init, ReadsKnown
<1>7. PanelTyped
  BY Basics DEF Init, PanelTyped, Codes
<1> QED BY <1>2, <1>3, <1>4, <1>5, <1>6, <1>7 DEF Typed

-----------------------------------------------------------------------------
(* What the steps make of a poll.                                          *)

(* What stays of a poll from its request to its answer.                    *)
Same(x, q) ==
  x.token = q.token /\ x.disposed = q.disposed /\ x.base = q.base /\ x.known = q.known

BodySeen(b, n)      == [b EXCEPT !.seen = n]
BodyLedger(b, f, o) == [b EXCEPT !.fit = f, !.outcomes = o]
PollAt(q, at)       == [q EXCEPT !.at = at]
PollCode(q, code)   == [q EXCEPT !.code = code]
PollBody(q, b)      == [q EXCEPT !.body = b]

LEMMA BodyFields ==
  ASSUME NEW b \in Body, NEW n \in 0..MaxEvents, NEW f \in Fits, NEW o \in [Counted -> Nat]
  PROVE  /\ b.fit \in Fits /\ b.outcomes \in [Counted -> Nat] /\ b.seen \in 0..MaxEvents
         /\ BodySeen(b, n) \in Body
         /\ BodySeen(b, n).outcomes = b.outcomes /\ BodySeen(b, n).seen = n
         /\ BodyLedger(b, f, o) \in Body
         /\ BodyLedger(b, f, o).outcomes = o /\ BodyLedger(b, f, o).seen = b.seen
BY DEF Body, BodySeen, BodyLedger

LEMMA PollFields ==
  ASSUME NEW n, NEW q \in PollType(n)
  PROVE  /\ q.at \in {"idle", "sent", "reading", "answered"} /\ q.token \in 0..n
         /\ q.disposed \in BOOLEAN /\ q.body \in Body /\ q.base \in [Counted -> Nat]
         /\ q.code \in Codes /\ q.known \in 0..MaxEvents
BY DEF PollType

LEMMA PollAtIs ==
  ASSUME NEW n, NEW q \in PollType(n), NEW at \in {"idle", "sent", "reading", "answered"}
  PROVE  /\ PollAt(q, at) \in PollType(n) /\ PollAt(q, at).at = at
         /\ PollAt(q, at).code = q.code /\ PollAt(q, at).body = q.body
         /\ Same(PollAt(q, at), q)
BY DEF PollType, Same, PollAt

LEMMA PollCodeIs ==
  ASSUME NEW n, NEW q \in PollType(n), NEW code \in Codes
  PROVE  /\ PollCode(q, code) \in PollType(n) /\ PollCode(q, code).at = q.at
         /\ PollCode(q, code).code = code /\ PollCode(q, code).body = q.body
         /\ Same(PollCode(q, code), q)
BY DEF PollType, Same, PollCode

LEMMA PollBodyIs ==
  ASSUME NEW n, NEW q \in PollType(n), NEW b \in Body
  PROVE  /\ PollBody(q, b) \in PollType(n) /\ PollBody(q, b).at = q.at
         /\ PollBody(q, b).code = q.code /\ PollBody(q, b).body = b
         /\ Same(PollBody(q, b), q)
BY DEF PollType, Same, PollBody

LEMMA RepliedIs ==
  ASSUME PollsTyped, NEW p \in Polls, NEW code \in Codes
  PROVE  \E x \in PollType(issued) :
           /\ Replied(p, code) = [poll EXCEPT ![p] = x]
           /\ x.at = "answered" /\ x.code = code /\ x.body = poll[p].body /\ Same(x, poll[p])
<1>1. poll \in [Polls -> PollType(issued)] /\ poll[p] \in PollType(issued)
  BY DEF PollsTyped
<1>2. PICK y : y = PollAt(poll[p], "answered")
  OBVIOUS
<1>3. /\ y \in PollType(issued) /\ y.at = "answered" /\ y.body = poll[p].body
      /\ Same(y, poll[p])
  BY <1>1, <1>2, PollAtIs
<1>4. PICK x : x = PollCode(y, code)
  OBVIOUS
<1>5. /\ x \in PollType(issued) /\ x.at = "answered" /\ x.code = code
      /\ x.body = poll[p].body /\ Same(x, poll[p])
  <2>1. x \in PollType(issued) /\ x.at = y.at /\ x.code = code /\ x.body = y.body /\ Same(x, y)
    BY <1>3, <1>4, PollCodeIs
  <2> QED BY <1>3, <2>1 DEF Same
<1>6. Replied(p, code) = [poll EXCEPT ![p] = x]
  BY <1>1, <1>2, <1>4 DEF Replied, PollAt, PollCode
<1> QED BY <1>5, <1>6

(* The command at the head of the queue, and the ones behind it.           *)
LEMMA HeadCommand ==
  ASSUME Typed, commands # <<>>
  PROVE  /\ Head(commands) = commands[1] /\ commands[1] \in Command
         /\ 1 \in DOMAIN commands /\ DOMAIN commands = 1..Len(commands)
             /\ Len(commands) \in Nat \ {0}
         /\ Tail(commands) \in Seq(Command) /\ Len(Tail(commands)) = Len(commands) - 1
         /\ \A i \in 1..(Len(commands) - 1) : Tail(commands)[i] = commands[i + 1]
BY DEF Typed, StoreTyped

Later(p) == [op |-> "read staleness", poll |-> p]

(* What becomes of the read at the head of the queue.                      *)
LEMMA RunReadFacts ==
  ASSUME Typed, RunRead
  PROVE  \E p \in Polls : \E x \in PollType(issued) :
           /\ AsksFor(commands[1], p)
           /\ poll' = [poll EXCEPT ![p] = x] /\ Same(x, poll[p])
           /\ \/ /\ commands[1].op = "read staleness" /\ commands' = Tail(commands)
                 /\ x.at = "answered" /\ x.code = "200"
                 /\ x.body.outcomes = poll[p].body.outcomes /\ x.body.seen = seen
              \/ /\ commands[1].op = "read ledger" /\ commands' = Append(Tail(commands), Later(p))
                 /\ x.at = "reading" /\ x.body.outcomes = outcomes
              \/ /\ commands' = Tail(commands)
                 /\ x.at = "answered" /\ x.code = "500"
<1>1. /\ commands # <<>> /\ Head(commands) = commands[1] /\ commands[1] \in Command
      /\ commands[1].op \notin Writes /\ 1 \in DOMAIN commands
  BY HeadCommand DEF RunRead
<1>2. PICK p : p = commands[1].poll
  OBVIOUS
<1>3. /\ p \in Polls /\ commands[1] \in Read /\ AsksFor(commands[1], p)
      /\ commands[1].op \in {"read ledger", "read staleness"}
  BY <1>1, <1>2, CommandKinds DEF AsksFor, Writes
<1>4. /\ PollsTyped /\ poll \in [Polls -> PollType(issued)] /\ poll[p] \in PollType(issued)
      /\ seen \in 0..MaxEvents /\ fit \in Fits /\ outcomes \in [Counted -> Nat]
      /\ poll[p].at = "reading"
  BY <1>1, <1>3 DEF Typed, PollsTyped, StoreTyped, ReadsKnown
<1>5. PICK b \in Body : b = poll[p].body
  BY <1>4, PollFields
<1>6. CASE commands[1].op = "read staleness"
  <2>1. poll' = [Replied(p, "200") EXCEPT ![p].body.seen = seen] /\ commands' = Tail(commands)
    BY <1>1, <1>2, <1>6 DEF RunRead
  <2>2. PICK y \in PollType(issued) :
           /\ Replied(p, "200") = [poll EXCEPT ![p] = y]
           /\ y.at = "answered" /\ y.code = "200" /\ y.body = b /\ Same(y, poll[p])
    <3>1. "200" \in Codes
      BY DEF Codes
    <3> QED BY <1>3, <1>4, <1>5, <3>1, RepliedIs
  <2>3. PICK c : c = BodySeen(b, seen)
    OBVIOUS
  <2>4. c \in Body /\ c.outcomes = b.outcomes /\ c.seen = seen
    BY <1>4, <2>3, BodyFields
  <2>5. PICK x : x = PollBody(y, c)
    OBVIOUS
  <2>6. /\ x \in PollType(issued) /\ x.at = "answered" /\ x.code = "200"
        /\ x.body = c /\ Same(x, y)
    BY <2>2, <2>4, <2>5, PollBodyIs
  <2>7. poll' = [poll EXCEPT ![p] = x]
    <3>1. PICK r : r = [poll EXCEPT ![p] = y]
      OBVIOUS
    <3>2. r \in [Polls -> PollType(issued)] /\ r[p] = y
      BY <1>3, <1>4, <2>2, <3>1
    <3>3. poll' = [r EXCEPT ![p] = [y EXCEPT !.body = [b EXCEPT !.seen = seen]]]
      BY <2>1, <2>2, <3>1, <3>2
    <3>4. poll' = [r EXCEPT ![p] = x]
      BY <2>3, <2>5, <3>3 DEF PollBody, BodySeen
    <3> QED BY <1>4, <3>1, <3>4
  <2>8. Same(x, poll[p])
    BY <2>2, <2>6 DEF Same
  <2> QED BY <1>3, <1>5, <1>6, <2>1, <2>4, <2>6, <2>7, <2>8
<1>7. CASE commands[1].op = "read ledger" /\ relay = "up"
  <2>1. /\ poll' = [poll EXCEPT ![p].body = [@ EXCEPT !.fit = fit, !.outcomes = outcomes]]
        /\ commands' = Append(Tail(commands), Later(p))
    BY <1>1, <1>2, <1>7 DEF RunRead, Later
  <2>2. PICK c : c = BodyLedger(b, fit, outcomes)
    OBVIOUS
  <2>3. c \in Body /\ c.outcomes = outcomes
    BY <1>4, <2>2, BodyFields
  <2>4. PICK x : x = PollBody(poll[p], c)
    OBVIOUS
  <2>5. /\ x \in PollType(issued) /\ x.at = "reading" /\ x.body = c /\ Same(x, poll[p])
    BY <1>4, <2>3, <2>4, PollBodyIs
  <2>6. poll' = [poll EXCEPT ![p] = x]
    BY <1>5, <2>1, <2>2, <2>4 DEF PollBody, BodyLedger
  <2> QED BY <1>3, <1>7, <2>1, <2>3, <2>5, <2>6
<1>8. CASE commands[1].op = "read ledger" /\ relay # "up"
  <2>1. poll' = Replied(p, "500") /\ commands' = Tail(commands)
    BY <1>1, <1>2, <1>8 DEF RunRead
  <2>2. "500" \in Codes
    BY DEF Codes
  <2>3. PICK x \in PollType(issued) :
           /\ Replied(p, "500") = [poll EXCEPT ![p] = x]
           /\ x.at = "answered" /\ x.code = "500" /\ Same(x, poll[p])
    BY <1>3, <1>4, <2>2, RepliedIs
  <2> QED BY <1>3, <2>1, <2>3
<1> QED BY <1>3, <1>6, <1>7, <1>8

(* A command of the queue that is lost, or run by RunWrite.                *)
LEMMA CommandFailsFacts ==
  ASSUME Typed, CommandFails
  PROVE  /\ commands # <<>> /\ commands' = Tail(commands)
         /\ \/ commands[1] \in Write /\ dropped' = TRUE /\ poll' = poll
            \/ /\ dropped' = dropped
               /\ \E p \in Polls : \E x \in PollType(issued) :
                    /\ AsksFor(commands[1], p) /\ poll' = [poll EXCEPT ![p] = x]
                    /\ x.at = "answered" /\ x.code = "500"
<1>1. /\ commands # <<>> /\ commands' = Tail(commands) /\ Head(commands) = commands[1]
      /\ commands[1] \in Command /\ PollsTyped /\ "500" \in Codes
  BY HeadCommand DEF CommandFails, Typed, Codes
<1>2. CASE commands[1].op \in Writes
  BY <1>1, <1>2, CommandKinds DEF CommandFails
<1>3. CASE commands[1].op \notin Writes
  <2>1. PICK p : p = commands[1].poll
    OBVIOUS
  <2>2. p \in Polls /\ AsksFor(commands[1], p)
    BY <1>1, <1>3, <2>1, CommandKinds DEF AsksFor
  <2>3. poll' = Replied(p, "500") /\ dropped' = dropped
    BY <1>1, <1>3, <2>1 DEF CommandFails
  <2>4. PICK x \in PollType(issued) :
           /\ Replied(p, "500") = [poll EXCEPT ![p] = x]
           /\ x.at = "answered" /\ x.code = "500"
    BY <1>1, <2>2, RepliedIs
  <2> QED BY <1>1, <2>2, <2>3, <2>4
<1> QED BY <1>2, <1>3

(* The answer that a request gets, or the network gives, without Redis.    *)
LEMMA RefusedFacts ==
  ASSUME Typed, NEW p \in Polls, Reject(p) \/ PollFails(p)
  PROVE  \E x \in PollType(issued) :
           /\ poll' = [poll EXCEPT ![p] = x] /\ poll[p].at = "sent"
           /\ x.at = "answered" /\ x.code \in {"401", "503", "failed"}
<1>1. PICK code \in {"401", "503", "failed"} : poll' = Replied(p, code) /\ poll[p].at = "sent"
  BY DEF Reject, PollFails
<1>2. code \in Codes /\ PollsTyped
  BY DEF Codes, Typed
<1>3. PICK x \in PollType(issued) :
         /\ Replied(p, code) = [poll EXCEPT ![p] = x] /\ x.at = "answered" /\ x.code = code
  BY <1>2, RepliedIs
<1> QED BY <1>1, <1>3

LEMMA HandleStatsFacts ==
  ASSUME Typed, NEW p \in Polls, handleStats(p)
  PROVE  \E x \in PollType(issued) :
           /\ poll' = [poll EXCEPT ![p] = x] /\ poll[p].at = "sent"
           /\ x.at = "reading" /\ Same(x, poll[p])
           /\ commands' = Append(commands, [op |-> "read ledger", poll |-> p])
<1>1. poll[p] \in PollType(issued)
  BY DEF Typed, PollsTyped
<1>2. PICK x : x = PollAt(poll[p], "reading")
  OBVIOUS
<1>3. x \in PollType(issued) /\ x.at = "reading" /\ Same(x, poll[p])
  BY <1>1, <1>2, PollAtIs
<1>4. poll' = [poll EXCEPT ![p] = x]
  BY <1>2 DEF handleStats, PollAt
<1> QED BY <1>3, <1>4 DEF handleStats

(* The number of the newest settlement that the page shows.                *)
LEMMA CycleFacts ==
  ASSUME PageTyped
  PROVE  /\ ExecutionPanel.cycle = IF history = <<>> THEN 0 ELSE history[1].n
         /\ ExecutionPanel.cycle \in 0..MaxEvents
<1>1. ExecutionPanel.cycle = IF history = <<>> THEN 0 ELSE Head(history).n
  BY DEF ExecutionPanel
<1>2. CASE history = <<>>
  BY <1>1, <1>2, AdminConsoleAssumption
<1>3. CASE history # <<>>
  <2>1. Head(history) = history[1] /\ history[1] \in Settlement
    BY <1>3 DEF PageTyped
  <2>2. history[1].n \in 1..MaxEvents
    BY <2>1, SettlementFacts
  <2> QED BY <1>1, <1>3, <2>1, <2>2, AdminConsoleAssumption
<1> QED BY <1>2, <1>3

PollNew(k, base, known) ==
  [Idle EXCEPT !.at = "sent", !.token = k, !.base = base, !.known = known]

LEMMA PollNewIs ==
  ASSUME NEW n \in Nat, NEW k \in 0..n, NEW base \in [Counted -> Nat], NEW known \in 0..MaxEvents
  PROVE  /\ PollNew(k, base, known) \in PollType(n) /\ PollNew(k, base, known).at = "sent"
         /\ PollNew(k, base, known).base = base /\ PollNew(k, base, known).known = known
<1>1. Idle \in PollType(n)
  BY Basics
<1> QED BY <1>1 DEF PollNew, PollType

LEMMA PollFacts ==
  ASSUME Typed, NEW p \in Polls, Poll(p)
  PROVE  \E x \in PollType(issued) :
           /\ poll' = [poll EXCEPT ![p] = x] /\ poll[p].at = "idle" /\ x.at = "sent"
           /\ \A r \in Counted : x.base[r] = Total(Wins(history, r))
           /\ x.known = IF history = <<>> THEN 0 ELSE history[1].n
<1>1. issued \in Nat /\ token \in 0..issued /\ PageTyped /\ history \in Seq(Settlement)
  BY AdminConsoleAssumption DEF Typed, LoginTyped, PageTyped
<1>2. /\ Shown = [r \in Counted |-> Total(Wins(history, r))]
      /\ \A r \in Counted : Total(Wins(history, r)) \in Nat
  BY <1>1, ShownIs, TotalWins
<1>3. PICK x : x = PollNew(token, Shown, ExecutionPanel.cycle)
  OBVIOUS
<1>4. /\ x \in PollType(issued) /\ x.at = "sent"
      /\ x.base = Shown /\ x.known = ExecutionPanel.cycle
  BY <1>1, <1>2, <1>3, PollNewIs, CycleFacts
<1>5. poll' = [poll EXCEPT ![p] = x] /\ poll[p].at = "idle"
  BY <1>3 DEF Poll, PollNew
<1> QED BY <1>1, <1>2, <1>4, <1>5, CycleFacts

(* The end of the process, and the logout.                                 *)
LEMMA ExitFacts ==
  ASSUME Typed, Exit
  PROVE  /\ poll' \in [Polls -> PollType(issued)]
         /\ \A p \in Polls : \/ poll'[p] = poll[p] /\ poll[p].at \notin {"sent", "reading"}
                             \/ poll'[p].at = "answered" /\ poll'[p].code = "failed"
<1>1. poll \in [Polls -> PollType(issued)] /\ PollsTyped /\ "failed" \in Codes
  BY DEF Typed, PollsTyped, Codes
<1>2. ASSUME NEW p \in Polls
      PROVE  /\ poll'[p] \in PollType(issued)
             /\ \/ poll'[p] = poll[p] /\ poll[p].at \notin {"sent", "reading"}
                \/ poll'[p].at = "answered" /\ poll'[p].code = "failed"
  <2>1. poll'[p] = IF poll[p].at \in {"sent", "reading"} THEN Replied(p, "failed")[p] ELSE poll[p]
    BY DEF Exit
  <2>2. PICK x \in PollType(issued) :
           /\ Replied(p, "failed") = [poll EXCEPT ![p] = x]
           /\ x.at = "answered" /\ x.code = "failed"
    BY <1>1, RepliedIs
  <2>3. Replied(p, "failed")[p] = x
    BY <1>1, <2>2
  <2> QED BY <1>1, <2>1, <2>2, <2>3
<1>3. poll' = [p \in Polls |-> poll'[p]]
  BY DEF Exit
<1> QED BY <1>2, <1>3

PollDisposed(q, d) == [q EXCEPT !.disposed = d]

LEMMA LoggedOutFacts ==
  ASSUME Typed, LoggedOut
  PROVE  /\ poll' \in [Polls -> PollType(issued)]
         /\ \A p \in Polls : /\ poll'[p].at = poll[p].at /\ poll'[p].code = poll[p].code
                             /\ poll'[p].body = poll[p].body /\ poll'[p].base = poll[p].base
                             /\ poll'[p].known = poll[p].known
<1>1. ASSUME NEW n, NEW q \in PollType(n), NEW d \in BOOLEAN
      PROVE  /\ PollDisposed(q, d) \in PollType(n) /\ PollDisposed(q, d).at = q.at
             /\ PollDisposed(q, d).code = q.code /\ PollDisposed(q, d).body = q.body
             /\ PollDisposed(q, d).base = q.base /\ PollDisposed(q, d).known = q.known
  BY <1>1 DEF PollType, PollDisposed
<1>2. ASSUME NEW p \in Polls
      PROVE  /\ poll'[p] \in PollType(issued)
             /\ poll'[p].at = poll[p].at /\ poll'[p].code = poll[p].code
             /\ poll'[p].body = poll[p].body /\ poll'[p].base = poll[p].base
             /\ poll'[p].known = poll[p].known
  <2>1. poll[p] \in PollType(issued)
    BY DEF Typed, PollsTyped
  <2>2. PICK d : d = (poll[p].at # "idle")
    OBVIOUS
  <2>3. d \in BOOLEAN
    BY <2>2
  <2>4. poll'[p] = PollDisposed(poll[p], d)
    BY <2>2 DEF LoggedOut, PollDisposed
  <2> QED BY <1>1, <2>1, <2>3, <2>4
<1>3. poll' = [p \in Polls |-> poll'[p]]
  BY DEF LoggedOut
<1> QED BY <1>2, <1>3

-----------------------------------------------------------------------------
(* Types, step by step.                                                    *)
LEMMA FaultTyped == StoreTyped /\ Fault => faults' \in 0..MaxFaults
BY AdminConsoleAssumption DEF StoreTyped, Fault

LEMMA PlusTyped ==
  ASSUME NEW total \in [Counted -> Nat], NEW f \in Settlement
  PROVE  /\ Plus(total, f.settled) \in [Counted -> Nat]
         /\ \A r \in Counted : Plus(total, f.settled)[r] = total[r] + f.settled[r]
BY SettlementFacts DEF Plus

(* The message at the head of the subscriber connection.                   *)
LEMMA HeadSettlement ==
  ASSUME Typed, inbox # <<>>
  PROVE  /\ Head(inbox) = inbox[1] /\ inbox[1] \in Settlement
         /\ 1 \in DOMAIN inbox /\ DOMAIN inbox = 1..Len(inbox) /\ Len(inbox) \in Nat \ {0}
         /\ Tail(inbox) \in Seq(Settlement) /\ Len(Tail(inbox)) = Len(inbox) - 1
         /\ \A i \in 1..(Len(inbox) - 1) : Tail(inbox)[i] = inbox[i + 1]
BY DEF Typed, StoreTyped

LEMMA StoreStep ==
  ASSUME Typed, Next
  PROVE  StoreTyped'
<1> USE DEF redisVars, relayVars, loginVars, pageVars, linkVars, panelVars
<1>1. StoreTyped
  BY DEF Typed
<1>2. ASSUME NEW b \in Batches, Publish(b)
      PROVE  StoreTyped'
  <2>1. PICK f : f = [n |-> published + 1, settled |-> b]
    OBVIOUS
  <2>2. f \in Settlement /\ published' \in 0..MaxEvents
    BY <1>1, <1>2, <2>1, AdminConsoleAssumption DEF StoreTyped, Publish, Settlement
  <2>3. inbox' = IF relay = "down" THEN inbox ELSE Append(inbox, f)
    BY <1>2, <2>1 DEF Publish
  <2>4. inbox' \in Seq(Settlement)
    BY <1>1, <2>2, <2>3 DEF StoreTyped
  <2> QED BY <1>1, <1>2, <2>2, <2>4 DEF StoreTyped, Publish
<1>3. ASSUME NEW status \in Fits, Calibrate(status)
      PROVE  StoreTyped'
  BY <1>1, <1>3, AdminConsoleAssumption DEF StoreTyped, Calibrate
<1>4. CASE Start
  BY <1>1, <1>4 DEF StoreTyped, Start
<1>5. CASE RelaySettlement
  <2>1. PICK f \in Settlement : f = Head(inbox)
    BY <1>5, HeadSettlement DEF RelaySettlement
  <2>2. inbox' \in Seq(Settlement)
    BY <1>5, HeadSettlement DEF RelaySettlement
  <2>3. heard' \in [Counted -> Nat]
    BY <1>1, <1>5, <2>1, PlusTyped DEF RelaySettlement, StoreTyped
  <2>4. PICK w \in Seq(Command) : w = Increments(f)
    BY IncrementsFacts DEF Counted
  <2>5. commands' = commands \o w \/ commands' = commands
    BY <1>5, <2>1, <2>4 DEF RelaySettlement
  <2>6. commands' \in Seq(Command) /\ dropped' \in BOOLEAN
    <3>1. commands \in Seq(Command) /\ dropped \in BOOLEAN
      BY <1>1 DEF StoreTyped
    <3>2. commands \o w \in Seq(Command)
      BY <3>1
    <3>3. commands' \in Seq(Command)
      BY <2>5, <3>1, <3>2
    <3>4. dropped' = TRUE \/ dropped' = dropped
      BY <1>5 DEF RelaySettlement
    <3> QED BY <3>1, <3>3, <3>4
  <2> QED BY <1>1, <1>5, <2>2, <2>3, <2>6 DEF RelaySettlement, StoreTyped
<1>6. CASE RunWrite
  <2>1. PICK c \in Command : c = Head(commands) /\ c.op \in Writes
    BY <1>6, HeadCommand DEF RunWrite
  <2>2. commands' \in Seq(Command)
    BY <1>6, HeadCommand DEF RunWrite
  <2>3. CASE c.op = "seen"
    <3>1. seen' = c.by /\ outcomes' = outcomes /\ c.by \in 1..MaxEvents
      BY <1>6, <2>1, <2>3, CommandKinds DEF RunWrite
    <3>2. seen' \in 0..MaxEvents
      BY <3>1, AdminConsoleAssumption
    <3> QED BY <1>1, <1>6, <2>2, <3>1, <3>2 DEF RunWrite, StoreTyped
  <2>4. CASE c.op # "seen"
    <3>1. /\ outcomes' = [outcomes EXCEPT ![c.op] = @ + c.by] /\ seen' = seen
          /\ c.op \in Counted /\ c.by \in Nat
      BY <1>6, <2>1, <2>4, CommandKinds DEF RunWrite, Writes, Counted
    <3>2. outcomes' \in [Counted -> Nat]
      BY <1>1, <3>1 DEF StoreTyped
    <3> QED BY <1>1, <1>6, <2>2, <3>1, <3>2 DEF RunWrite, StoreTyped
  <2> QED BY <2>3, <2>4
<1>7. CASE RunRead
  <2>1. PICK p \in Polls : commands' = Tail(commands)
                               \/ commands' = Append(Tail(commands), Later(p))
    BY <1>7, RunReadFacts
  <2>2. Later(p) \in Command
    BY DEF Later, Command, Read
  <2>3. Tail(commands) \in Seq(Command)
    BY <1>7, HeadCommand DEF RunRead
  <2>4. commands' \in Seq(Command)
    BY <2>1, <2>2, <2>3
  <2> QED BY <1>1, <1>7, <2>4 DEF RunRead, StoreTyped
<1>8. CASE CommandFails
  <2>1. commands' \in Seq(Command) /\ dropped' \in BOOLEAN
    BY <1>1, <1>8, CommandFailsFacts, HeadCommand DEF StoreTyped
  <2> QED BY <1>1, <1>8, <2>1, FaultTyped DEF CommandFails, StoreTyped
<1>9. CASE Crash
  <2>1. dropped' \in BOOLEAN
    BY <1>1, <1>9 DEF Crash, StoreTyped
  <2> QED BY <1>1, <1>9, <2>1, FaultTyped DEF Crash, Exit, StoreTyped
<1>10. CASE Sigterm
  BY <1>1, <1>10, FaultTyped DEF Sigterm, StoreTyped
<1>11. CASE Quit
  BY <1>1, <1>11 DEF Quit, Exit, StoreTyped
<1>12. CASE submit \/ LoginFails \/ handleLogin \/ logout \/ LoggedOut \/ Expire
  BY <1>1, <1>12, FaultTyped
     DEF submit, LoginFails, handleLogin, logout, LoggedOut, Expire, StoreTyped
<1>13. ASSUME NEW ok \in BOOLEAN, handleTokenIssue(ok)
       PROVE  StoreTyped'
  BY <1>1, <1>13 DEF handleTokenIssue, StoreTyped
<1>14. CASE Connect \/ Disconnect \/ OnSettlement
  BY <1>1, <1>14, FaultTyped DEF Connect, Disconnect, OnSettlement, StoreTyped
<1>15. ASSUME NEW p \in Polls, Reject(p) \/ Poll(p) \/ PollFails(p) \/ Polled(p)
       PROVE  StoreTyped'
  BY <1>1, <1>15 DEF Reject, Poll, PollFails, Polled, StoreTyped
<1>16. ASSUME NEW p \in Polls, handleStats(p)
       PROVE  StoreTyped'
  <2>1. PICK c : c = [op |-> "read ledger", poll |-> p]
    OBVIOUS
  <2>2. c \in Command /\ commands' = Append(commands, c)
    BY <1>16, <2>1 DEF Command, Read, handleStats
  <2>3. commands' \in Seq(Command)
    BY <1>1, <2>2 DEF StoreTyped
  <2> QED BY <1>1, <1>16, <2>3 DEF handleStats, StoreTyped
<1> QED BY <1>2, <1>3, <1>4, <1>5, <1>6, <1>7, <1>8, <1>9, <1>10, <1>11, <1>12, <1>13, <1>14,
      <1>15, <1>16 DEF Next

LEMMA LoginStep ==
  ASSUME Typed, Next
  PROVE  LoginTyped'
<1> USE DEF redisVars, relayVars, loginVars, pageVars, linkVars, panelVars
<1>1. LoginTyped /\ issued \in Nat /\ MaxLogins \in Nat
  BY AdminConsoleAssumption DEF Typed, LoginTyped
<1>2. CASE UNCHANGED <<loginVars, pageVars, link, relay>>
  BY <1>1, <1>2 DEF LoginTyped
<1>3. CASE Start \/ Sigterm \/ Crash \/ Quit
  BY <1>1, <1>3 DEF Start, Sigterm, Crash, Quit, Exit, LoginTyped
<1>4. CASE submit \/ LoginFails \/ handleLogin \/ logout \/ LoggedOut
  <2>1. CASE submit \/ LoginFails
    BY <1>1, <2>1 DEF submit, LoginFails, LoginTyped
  <2>4. CASE logout
    <3>1. 0 \in 0..issued
      BY <1>1
    <3> QED BY <1>1, <2>4, <3>1 DEF logout, LoginTyped
  <2>2. CASE handleLogin
    <3>1. issued \in 0..issued /\ (link # "none" => issued # 0)
      BY <1>1 DEF LoginTyped
    <3> QED BY <1>1, <2>2, <3>1 DEF handleLogin, LoginTyped
  <2>3. CASE LoggedOut
    <3>1. 0 \in 0..issued
      BY <1>1
    <3> QED BY <1>1, <2>3, <3>1 DEF LoggedOut, LoginTyped
  <2> QED BY <1>4, <2>1, <2>2, <2>3, <2>4
<1>5. CASE Expire
  BY <1>1, <1>5 DEF Expire, LoginTyped
<1>6. ASSUME NEW ok \in BOOLEAN, handleTokenIssue(ok)
      PROVE  LoginTyped'
  <2>1. CASE ok
    <3>1. issued' = issued + 1 /\ issued' \in 0..MaxLogins /\ form' = "granted"
      BY <1>1, <1>6, <2>1 DEF handleTokenIssue, LoginTyped
    <3>2. session \in 0..(issued + 1) /\ token \in 0..(issued + 1)
              /\ expired \subseteq 1..(issued + 1)
      BY <1>1 DEF LoginTyped
    <3> QED BY <1>1, <1>6, <3>1, <3>2 DEF handleTokenIssue, LoginTyped
  <2>2. CASE ~ok
    BY <1>1, <1>6, <2>2 DEF handleTokenIssue, LoginTyped
  <2> QED BY <2>1, <2>2
<1>7. CASE Connect
  <2>1. SessionToken \in 0..issued
    BY <1>1 DEF SessionToken, LoginTyped
  <2> QED BY <1>1, <1>7, <2>1 DEF Connect, LoginTyped
<1>8. CASE Disconnect
  BY <1>1, <1>8 DEF Disconnect, LoginTyped
<1> QED BY <1>2, <1>3, <1>4, <1>5, <1>6, <1>7, <1>8
      DEF Next, Publish, Calibrate, RelaySettlement, RunWrite, RunRead, CommandFails, OnSettlement,
          Reject, handleStats, Poll, PollFails, Polled

LEMMA PageStep ==
  ASSUME Typed, Next
  PROVE  PageTyped'
<1> USE DEF redisVars, relayVars, loginVars, pageVars, linkVars, panelVars
<1>1. PageTyped /\ Keep \in Nat \ {0}
  BY AdminConsoleAssumption DEF Typed
<1>2. CASE UNCHANGED <<wire, history>>
  BY <1>1, <1>2 DEF PageTyped
<1>3. CASE RelaySettlement
  <2>1. PICK f \in Settlement : f = Head(inbox)
    BY <1>3, HeadSettlement DEF RelaySettlement
  <2>2. wire' = Append(wire, f) \/ wire' = wire
    BY <1>3, <2>1 DEF RelaySettlement
  <2> QED BY <1>1, <1>3, <2>2 DEF RelaySettlement, PageTyped
<1>4. CASE LoggedOut \/ Disconnect
  <2>1. wire' = <<>> /\ history' = history
    BY <1>4 DEF LoggedOut, Disconnect
  <2> QED BY <1>1, <2>1 DEF PageTyped
<1>5. CASE OnSettlement
  <2>1. PICK f \in Settlement : f = Head(wire)
    BY <1>1, <1>5 DEF OnSettlement, PageTyped
  <2>2. PICK all : all = <<f>> \o history
    OBVIOUS
  <2>3. all \in Seq(Settlement) /\ Len(all) \in Nat
    BY <1>1, <2>2 DEF PageTyped
  <2>4. PICK k : k = IF Len(all) < Keep THEN Len(all) ELSE Keep
    OBVIOUS
  <2>5. k \in 0..Len(all) /\ k <= Keep
    BY <1>1, <2>3, <2>4
  <2>6. history' = SubSeq(all, 1, k)
    BY <1>5, <2>1, <2>2, <2>4 DEF OnSettlement
  <2>7. history' \in Seq(Settlement) /\ Len(history') = k
    BY <2>3, <2>5, <2>6
  <2>8. wire' \in Seq(Settlement)
    BY <1>1, <1>5 DEF OnSettlement, PageTyped
  <2> QED BY <2>5, <2>7, <2>8 DEF PageTyped
<1> QED BY <1>2, <1>3, <1>4, <1>5
      DEF Next, Publish, Calibrate, Start, RunWrite, RunRead, CommandFails, Crash, Sigterm, Quit,
      Exit,
          submit, LoginFails, handleLogin, logout, Expire, handleTokenIssue, Connect,
          Reject, handleStats, Poll, PollFails, Polled

(* The actions that leave the polls alone, and the ones that change them.  *)
PollsAlone ==
  \/ \E b \in Batches : Publish(b)
  \/ \E status \in Fits : Calibrate(status)
  \/ Start \/ RelaySettlement \/ RunWrite \/ Sigterm
  \/ submit \/ LoginFails \/ handleLogin \/ logout \/ Expire
  \/ \E ok \in BOOLEAN : handleTokenIssue(ok)
  \/ Connect \/ Disconnect \/ OnSettlement

LEMMA NextCases ==
  ASSUME Next
  PROVE  \/ PollsAlone \/ RunRead \/ CommandFails \/ Crash \/ Quit \/ LoggedOut
         \/ \E p \in Polls : Reject(p) \/ handleStats(p) \/ Poll(p) \/ PollFails(p) \/ Polled(p)
BY DEF Next, PollsAlone

LEMMA PollsAloneFacts ==
  ASSUME PollsAlone
  PROVE  poll' = poll
BY DEF PollsAlone, Publish, Calibrate, Start, RelaySettlement, RunWrite, Sigterm, submit,
  LoginFails,
       handleLogin, logout, Expire, handleTokenIssue, Connect, Disconnect, OnSettlement

LEMMA IssuedGrows ==
  ASSUME Typed, Next
  PROVE  /\ issued' \in Nat /\ PollType(issued) \subseteq PollType(issued')
         /\ ~PollsAlone => issued' = issued
<1>1. issued \in Nat /\ issued' \in Nat /\ issued <= issued'
  <2>1. issued \in Nat
    BY AdminConsoleAssumption DEF Typed, LoginTyped
  <2>2. issued' = issued \/ issued' = issued + 1
    BY DEF Next, Publish, Calibrate, Start, RelaySettlement, RunWrite, RunRead, CommandFails, Crash,
         Sigterm, Quit, Exit, submit, LoginFails, handleLogin, logout, LoggedOut, Expire,
         handleTokenIssue, Connect, Disconnect, OnSettlement, Reject, handleStats, Poll, PollFails,
         Polled, loginVars
  <2> QED BY <2>1, <2>2
<1>2. 0..issued \subseteq 0..issued'
  BY <1>1
<1>3. PollType(issued) \subseteq PollType(issued')
  BY <1>2 DEF PollType
<1>4. ~PollsAlone => issued' = issued
  BY NextCases DEF RunRead, CommandFails, Crash, Quit, Exit, LoggedOut, Reject, handleStats, Poll,
       PollFails, Polled, loginVars
<1> QED BY <1>1, <1>3, <1>4

LEMMA PolledFacts ==
  ASSUME Typed, NEW p \in Polls, Polled(p)
  PROVE  \E x \in PollType(issued) :
           poll' = [poll EXCEPT ![p] = x] /\ poll[p].at = "answered" /\ x.at = "idle"
<1>1. issued \in Nat
  BY AdminConsoleAssumption DEF Typed, LoginTyped
<1>2. Idle \in PollType(issued) /\ Idle.at = "idle"
  BY <1>1, Basics
<1> QED BY <1>2 DEF Polled

LEMMA PollsStep ==
  ASSUME Typed, Next
  PROVE  PollsTyped'
<1>1. poll \in [Polls -> PollType(issued)]
  BY DEF Typed, PollsTyped
<1>2. poll' \in [Polls -> PollType(issued)]
  <2>1. ASSUME NEW p \in Polls, NEW x \in PollType(issued), poll' = [poll EXCEPT ![p] = x]
        PROVE  poll' \in [Polls -> PollType(issued)]
    BY <1>1, <2>1
  <2>2. CASE PollsAlone
    BY <1>1, <2>2, PollsAloneFacts
  <2>3. CASE RunRead
    BY <2>1, <2>3, RunReadFacts
  <2>4. CASE CommandFails
    BY <1>1, <2>1, <2>4, CommandFailsFacts
  <2>5. CASE Crash \/ Quit
    BY <2>5, ExitFacts DEF Crash, Quit
  <2>6. CASE LoggedOut
    BY <2>6, LoggedOutFacts
  <2>7. ASSUME NEW p \in Polls, Reject(p) \/ handleStats(p) \/ Poll(p) \/ PollFails(p) \/ Polled(p)
        PROVE  poll' \in [Polls -> PollType(issued)]
    <3>1. \E x \in PollType(issued) : poll' = [poll EXCEPT ![p] = x]
      BY <2>7, RefusedFacts, HandleStatsFacts, PollFacts, PolledFacts
    <3> QED BY <2>1, <3>1
  <2> QED BY <2>2, <2>3, <2>4, <2>5, <2>6, <2>7, NextCases
<1> QED BY <1>2, IssuedGrows DEF PollsTyped

(* The reads in the queue, as it changes.                                  *)
LEMMA ReadsBehindHead ==
  ASSUME Typed, commands # <<>>, NEW p \in Polls
  PROVE  /\ (\E i \in DOMAIN Tail(commands) : AsksFor(Tail(commands)[i], p))
             <=> (poll[p].at = "reading" /\ ~AsksFor(commands[1], p))
         /\ \A i, j \in DOMAIN Tail(commands) :
              AsksFor(Tail(commands)[i], p) /\ AsksFor(Tail(commands)[j], p) => i = j
<1> DEFINE n == Len(commands)
<1>1. /\ n \in Nat \ {0} /\ DOMAIN commands = 1..n /\ DOMAIN Tail(commands) = 1..(n - 1)
      /\ \A i \in 1..(n - 1) : i + 1 \in 1..n /\ Tail(commands)[i] = commands[i + 1]
      /\ 1 \in 1..n
  BY HeadCommand
<1> HIDE DEF n
<1>2. \A i \in 1..n : i = 1 \/ (i - 1 \in 1..(n - 1) /\ (i - 1) + 1 = i)
  BY <1>1
<1>3. /\ poll[p].at = "reading" <=> \E i \in 1..n : AsksFor(commands[i], p)
      /\ \A i, j \in 1..n : AsksFor(commands[i], p) /\ AsksFor(commands[j], p) => i = j
  BY <1>1 DEF Typed, ReadsKnown
<1>4. ASSUME NEW i \in 1..(n - 1), AsksFor(Tail(commands)[i], p)
      PROVE  poll[p].at = "reading" /\ ~AsksFor(commands[1], p)
  <2>1. AsksFor(commands[i + 1], p) /\ i + 1 \in 1..n /\ i + 1 # 1
    BY <1>1, <1>4
  <2> QED BY <1>1, <1>3, <2>1
<1>5. ASSUME poll[p].at = "reading", ~AsksFor(commands[1], p)
      PROVE  \E i \in 1..(n - 1) : AsksFor(Tail(commands)[i], p)
  <2>1. PICK i \in 1..n : AsksFor(commands[i], p)
    BY <1>3, <1>5
  <2>2. i # 1
    BY <1>5, <2>1
  <2>3. i - 1 \in 1..(n - 1) /\ Tail(commands)[i - 1] = commands[i]
    BY <1>1, <1>2, <2>2
  <2> QED BY <2>1, <2>3
<1>6. ASSUME NEW i \in 1..(n - 1), NEW j \in 1..(n - 1),
             AsksFor(Tail(commands)[i], p), AsksFor(Tail(commands)[j], p)
      PROVE  i = j
  <2>1. i + 1 = j + 1
    BY <1>1, <1>3, <1>6
  <2> QED BY <1>1, <2>1
<1> QED BY <1>1, <1>4, <1>5, <1>6

LEMMA ReadsAppended ==
  ASSUME NEW s \in Seq(Command), NEW c, NEW p
  PROVE  /\ DOMAIN Append(s, c) = 1..(Len(s) + 1) /\ DOMAIN s = 1..Len(s) /\ Len(s) \in Nat
         /\ \A i \in 1..Len(s) : Append(s, c)[i] = s[i]
         /\ Append(s, c)[Len(s) + 1] = c
OBVIOUS

(* Reads and writes are different commands.                                *)
LEMMA WritesAskNothing ==
  ASSUME NEW c \in Command, c.op \in Writes, NEW p
  PROVE  ~AsksFor(c, p)
BY CommandKinds DEF AsksFor

LEMMA ReadsStep ==
  ASSUME Typed, Next
  PROVE  ReadsKnown'
<1> DEFINE n == Len(commands)
           Alone == \A p \in Polls : poll'[p].at = "reading" <=> poll[p].at = "reading"
<1>1. /\ commands \in Seq(Command) /\ n \in Nat /\ DOMAIN commands = 1..n
      /\ poll \in [Polls -> PollType(issued)]
      /\ \A i \in 1..n : commands[i] \in Command
  BY DEF Typed, StoreTyped, PollsTyped
<1>2. \A p \in Polls :
        /\ poll[p].at = "reading" <=> \E i \in 1..n : AsksFor(commands[i], p)
        /\ \A i, j \in 1..n : AsksFor(commands[i], p) /\ AsksFor(commands[j], p) => i = j
  BY <1>1 DEF Typed, ReadsKnown
<1>3. CASE commands' = commands /\ Alone
  BY <1>3 DEF Typed, ReadsKnown, AsksFor
<1>4. CASE RelaySettlement
  <2>1. PICK f \in Settlement : f = Head(inbox)
    BY <1>4, HeadSettlement DEF RelaySettlement
  <2>2. PICK w \in Seq(Command) : w = Increments(f) /\ w \in Seq(Write)
    BY IncrementsFacts DEF Counted
  <2>3. poll' = poll /\ (commands' = commands \o w \/ commands' = commands)
    BY <1>4, <2>1, <2>2 DEF RelaySettlement
  <2>4. CASE commands' = commands
    BY <1>3, <2>3, <2>4
  <2>5. CASE commands' = commands \o w
    <3>1. /\ Len(w) \in Nat /\ DOMAIN commands' = 1..(n + Len(w))
          /\ \A i \in 1..n : commands'[i] = commands[i]
          /\ \A i \in 1..(n + Len(w)) : i \notin 1..n => i - n \in 1..Len(w)
              /\ commands'[i] = w[i - n]
      BY <1>1, <2>2, <2>5
    <3>2. \A i \in 1..Len(w) : \A p : ~AsksFor(w[i], p)
      <4>1. ASSUME NEW i \in 1..Len(w)
            PROVE  w[i] \in Command /\ w[i].op \in Writes
        <5>1. w[i] \in Write /\ w[i] \in Command
          BY <2>2
        <5> QED BY <5>1, CommandKinds
      <4> QED BY <4>1, WritesAskNothing
    <3>3. ASSUME NEW i \in 1..(n + Len(w)), NEW p, AsksFor(commands'[i], p)
          PROVE  i \in 1..n /\ AsksFor(commands[i], p)
      BY <3>1, <3>2, <3>3
    <3>4. \A i \in 1..n : i \in 1..(n + Len(w))
      BY <1>1, <3>1
    <3>5. ASSUME NEW p \in Polls
          PROVE  /\ poll'[p].at = "reading" <=> \E i \in 1..(n + Len(w)) : AsksFor(commands'[i], p)
                 /\ \A i, j \in 1..(n + Len(w)) :
                      AsksFor(commands'[i], p) /\ AsksFor(commands'[j], p) => i = j
      BY <1>2, <2>3, <3>1, <3>3, <3>4
    <3> QED BY <3>1, <3>5 DEF ReadsKnown, AsksFor
  <2> QED BY <2>3, <2>4, <2>5
<1>5. ASSUME commands # <<>>, commands' = Tail(commands),
             \A p \in Polls : poll'[p].at = "reading"
                             <=> poll[p].at = "reading" /\ ~AsksFor(commands[1], p)
      PROVE  ReadsKnown'
  <2>1. ASSUME NEW p \in Polls
        PROVE  /\ poll'[p].at = "reading" <=> \E i \in DOMAIN commands' : AsksFor(commands'[i], p)
               /\ \A i, j \in DOMAIN commands' :
                    AsksFor(commands'[i], p) /\ AsksFor(commands'[j], p) => i = j
    BY <1>5, ReadsBehindHead
  <2> QED BY <2>1 DEF ReadsKnown, AsksFor
<1>6. CASE RunWrite
  <2>1. commands # <<>> /\ commands' = Tail(commands) /\ poll' = poll
            /\ Head(commands).op \in Writes
    BY <1>6 DEF RunWrite
  <2>2. \A p : ~AsksFor(commands[1], p)
    BY <2>1, HeadCommand, WritesAskNothing
  <2> QED BY <1>5, <2>1, <2>2
<1>7. ASSUME commands # <<>>, commands' = Tail(commands),
             NEW p \in Polls, NEW x, poll' = [poll EXCEPT ![p] = x],
             AsksFor(commands[1], p), x.at = "answered"
      PROVE  ReadsKnown'
  <2>1. \A q \in Polls : q # p => poll'[q] = poll[q] /\ ~AsksFor(commands[1], q)
    BY <1>1, <1>7 DEF AsksFor
  <2>2. poll'[p] = x
    BY <1>1, <1>7
  <2> QED BY <1>5, <1>7, <2>1, <2>2
<1>8. CASE CommandFails
  <2>1. commands # <<>> /\ commands' = Tail(commands) /\ commands[1] \in Command
    BY <1>8, CommandFailsFacts, HeadCommand
  <2>2. CASE commands[1] \in Write /\ poll' = poll
    <3>1. \A p : ~AsksFor(commands[1], p)
      BY <2>1, <2>2, CommandKinds, WritesAskNothing
    <3> QED BY <1>5, <2>1, <2>2, <3>1
  <2>3. ASSUME NEW p \in Polls, NEW x \in PollType(issued),
               AsksFor(commands[1], p), poll' = [poll EXCEPT ![p] = x], x.at = "answered"
        PROVE  ReadsKnown'
    BY <1>7, <2>1, <2>3
  <2> QED BY <1>8, <2>2, <2>3, CommandFailsFacts
<1>9. CASE RunRead
  <2>1. commands # <<>>
    BY <1>9 DEF RunRead
  <2>2. PICK p \in Polls, x \in PollType(issued) :
          /\ AsksFor(commands[1], p) /\ poll' = [poll EXCEPT ![p] = x]
          /\ \/ commands' = Tail(commands) /\ x.at = "answered"
             \/ commands' = Append(Tail(commands), Later(p)) /\ x.at = "reading"
    BY <1>9, RunReadFacts
  <2>3. CASE commands' = Tail(commands) /\ x.at = "answered"
    BY <1>7, <2>1, <2>2, <2>3
  <2>4. CASE commands' = Append(Tail(commands), Later(p)) /\ x.at = "reading"
    <3>1. PICK s \in Seq(Command) : s = Tail(commands)
      BY <2>1, HeadCommand
    <3>2. /\ DOMAIN commands' = 1..(Len(s) + 1) /\ DOMAIN s = 1..Len(s) /\ Len(s) \in Nat
          /\ \A i \in 1..Len(s) : commands'[i] = s[i]
          /\ commands'[Len(s) + 1] = Later(p)
      BY <2>4, <3>1, ReadsAppended
    <3>3. /\ poll'[p].at = "reading" /\ poll[p].at = "reading"
          /\ \A q \in Polls : q # p => poll'[q] = poll[q] /\ ~AsksFor(commands[1], q)
      <4>1. 1 \in 1..n
        BY <2>1, HeadCommand
      <4> QED BY <1>1, <1>2, <2>2, <2>4, <4>1 DEF AsksFor
    <3>4. AsksFor(Later(p), p) /\ \A q \in Polls : q # p => ~AsksFor(Later(p), q)
      BY DEF AsksFor, Later, Read
    <3>5. ASSUME NEW q \in Polls
          PROVE  /\ poll'[q].at = "reading" <=> \E i \in DOMAIN commands' : AsksFor(commands'[i], q)
                 /\ \A i, j \in DOMAIN commands' :
                      AsksFor(commands'[i], q) /\ AsksFor(commands'[j], q) => i = j
      <4>1. /\ (\E i \in 1..Len(s) : AsksFor(s[i], q))
                 <=> (poll[q].at = "reading" /\ ~AsksFor(commands[1], q))
            /\ \A i, j \in 1..Len(s) : AsksFor(s[i], q) /\ AsksFor(s[j], q) => i = j
        BY <2>1, <3>1, <3>2, ReadsBehindHead
      <4>2. \A i \in 1..(Len(s) + 1) : i \in 1..Len(s) \/ i = Len(s) + 1
        BY <3>2
      <4>3. Len(s) + 1 \in 1..(Len(s) + 1) /\ \A i \in 1..Len(s) : i \in 1..(Len(s) + 1)
        BY <3>2
      <4>4. CASE q = p
        <5>1. \A i \in 1..Len(s) : ~AsksFor(commands'[i], p)
          BY <2>2, <3>2, <4>1, <4>4
        <5> QED BY <3>2, <3>3, <3>4, <4>2, <4>3, <4>4, <5>1
      <4>5. CASE q # p
        <5>1. \A i \in 1..(Len(s) + 1) : AsksFor(commands'[i], q) => i \in 1..Len(s)
                  /\ AsksFor(s[i], q)
          BY <3>2, <3>4, <4>2, <4>5
        <5> QED BY <3>2, <3>3, <4>1, <4>3, <4>5, <5>1
      <4> QED BY <4>4, <4>5
    <3> QED BY <3>5 DEF ReadsKnown, AsksFor
  <2> QED BY <2>2, <2>3, <2>4
<1>10. CASE Crash \/ Quit
  <2>1. DOMAIN commands' = {}
    BY <1>10 DEF Crash, Quit, Exit
  <2>2. \A p \in Polls : poll'[p].at # "reading"
    BY <1>10, ExitFacts DEF Crash, Quit
  <2> QED BY <2>1, <2>2 DEF ReadsKnown
<1>11. CASE LoggedOut
  <2>1. commands' = commands /\ Alone
    BY <1>11, LoggedOutFacts DEF LoggedOut, relayVars
  <2> QED BY <1>3, <2>1
<1>12. ASSUME NEW p \in Polls, Reject(p) \/ Poll(p) \/ PollFails(p) \/ Polled(p)
       PROVE  ReadsKnown'
  <2>1. PICK x : poll' = [poll EXCEPT ![p] = x] /\ poll[p].at # "reading" /\ x.at # "reading"
    BY <1>12, RefusedFacts, PollFacts, PolledFacts
  <2>2. commands' = commands
    BY <1>12 DEF Reject, Poll, PollFails, Polled, relayVars
  <2>3. Alone
    BY <1>1, <2>1
  <2> QED BY <1>3, <2>2, <2>3
<1>13. ASSUME NEW p \in Polls, handleStats(p)
       PROVE  ReadsKnown'
  <2>1. PICK x \in PollType(issued) :
          /\ poll' = [poll EXCEPT ![p] = x] /\ poll[p].at = "sent" /\ x.at = "reading"
          /\ commands' = Append(commands, [op |-> "read ledger", poll |-> p])
    BY <1>13, HandleStatsFacts
  <2>2. PICK c : c = [op |-> "read ledger", poll |-> p]
    OBVIOUS
  <2>3. /\ DOMAIN commands' = 1..(n + 1) /\ \A i \in 1..n : commands'[i] = commands[i]
        /\ commands'[n + 1] = c
    <3>1. commands' = Append(commands, c)
      BY <2>1, <2>2
    <3>2. /\ DOMAIN Append(commands, c) = 1..(Len(commands) + 1)
          /\ \A i \in 1..Len(commands) : Append(commands, c)[i] = commands[i]
          /\ Append(commands, c)[Len(commands) + 1] = c
      BY <1>1, ReadsAppended
    <3> QED BY <3>1, <3>2
  <2>4. AsksFor(c, p) /\ \A q \in Polls : q # p => ~AsksFor(c, q)
    BY <2>2 DEF AsksFor, Read
  <2>5. /\ \A i \in 1..(n + 1) : i \in 1..n \/ i = n + 1
        /\ n + 1 \in 1..(n + 1) /\ \A i \in 1..n : i \in 1..(n + 1)
    BY <1>1
  <2>6. poll'[p].at = "reading" /\ \A q \in Polls : q # p => poll'[q] = poll[q]
    BY <1>1, <2>1
  <2>7. ASSUME NEW q \in Polls
        PROVE  /\ poll'[q].at = "reading" <=> \E i \in 1..(n + 1) : AsksFor(commands'[i], q)
               /\ \A i, j \in 1..(n + 1) :
                    AsksFor(commands'[i], q) /\ AsksFor(commands'[j], q) => i = j
    <3>1. CASE q = p
      <4>1. \A i \in 1..n : ~AsksFor(commands'[i], p)
        BY <1>2, <2>1, <2>3
      <4> QED BY <2>3, <2>4, <2>5, <2>6, <3>1, <4>1
    <3>2. CASE q # p
      <4>1. \A i \in 1..(n + 1) : AsksFor(commands'[i], q) => i \in 1..n /\ AsksFor(commands[i], q)
        BY <2>3, <2>4, <2>5, <3>2
      <4> QED BY <1>2, <2>3, <2>5, <2>6, <3>2, <4>1
    <3> QED BY <3>1, <3>2
  <2> QED BY <2>3, <2>7 DEF ReadsKnown, AsksFor
<1>14. CASE PollsAlone
  <2>1. Alone
    BY <1>14, PollsAloneFacts
  <2>2. commands' = commands \/ RelaySettlement \/ RunWrite
    BY <1>14 DEF PollsAlone, Publish, Calibrate, Start, Sigterm, submit, LoginFails,
      handleLogin, logout, Expire, handleTokenIssue, Connect, Disconnect, OnSettlement, relayVars
  <2> QED BY <1>3, <1>4, <1>6, <2>1, <2>2
<1> QED BY <1>8, <1>9, <1>10, <1>11, <1>12, <1>13, <1>14, NextCases

LEMMA PanelStep ==
  ASSUME Typed, Next
  PROVE  PanelTyped'
<1> USE DEF redisVars, relayVars, loginVars, pageVars, linkVars, panelVars
<1>1. PanelTyped
  BY DEF Typed
<1>2. CASE UNCHANGED panelVars
  BY <1>1, <1>2 DEF PanelTyped
<1>3. CASE LoggedOut
  BY <1>3, Basics DEF LoggedOut, PanelTyped, Codes
<1>4. ASSUME NEW p \in Polls, Polled(p)
      PROVE  PanelTyped'
  <2>1. /\ poll[p].body \in Body /\ poll[p].base \in [Counted -> Nat]
        /\ poll[p].known \in 0..MaxEvents /\ poll[p].code \in Codes
    BY PollFields DEF Typed, PollsTyped
  <2>2. CASE Answered(p)
    BY <2>1, <2>2 DEF Answered, PanelTyped, Codes
  <2>3. CASE error' = poll[p].code /\ poll[p].code # "200" /\ stats' = stats
    BY <1>1, <2>1, <2>3 DEF PanelTyped
  <2> QED BY <1>2, <1>4, <2>2, <2>3 DEF Polled
<1> QED BY <1>2, <1>3, <1>4
      DEF Next, Publish, Calibrate, Start, RelaySettlement, RunWrite, RunRead, CommandFails, Crash,
          Sigterm, Quit, Exit, submit, LoginFails, handleLogin, logout, Expire, handleTokenIssue,
          Connect, Disconnect, OnSettlement, Reject, handleStats, Poll, PollFails

LEMMA TypedStep ==
  ASSUME Typed, [Next]_vars
  PROVE  Typed'
<1>1. CASE Next
  BY <1>1, StoreStep, LoginStep, PageStep, PollsStep, ReadsStep, PanelStep DEF Typed
<1>2. CASE UNCHANGED vars
  BY <1>2 DEF Typed, StoreTyped, LoginTyped, PageTyped, PollsTyped, ReadsKnown, AsksFor, PanelTyped,
    vars, redisVars, relayVars, loginVars, pageVars, linkVars, panelVars
<1> QED BY <1>1, <1>2

LEMMA TypedHolds == Spec => []Typed
BY InitTyped, TypedStep, PTL DEF Spec

(* Types, among them that every poll that is being read has one read in    *)
(* the queue: none is forgotten, none is answered twice                    *)
(* (server.js:153-159, 286-310, ModelAccuracyPanel.jsx:57-86).             *)
THEOREM ConsoleTypes == Spec => []TypeOK
BY TypedHolds, TypedIsTypeOK, PTL

-----------------------------------------------------------------------------
(* A queue of commands s, with q in the staleness hash, o in the ledger    *)
(* and h heard by the relay.                                               *)
SeenAt(s, j) == j \in 1..Len(s) /\ s[j].op = "seen"

(* The hash has reached the n-th message by the time that the k-th command *)
(* runs.                                                                   *)
Reached(s, q, n, k) == n <= q \/ \E j \in 1..(k - 1) : SeenAt(s, j) /\ n <= s[j].by

(* What the first k commands add to an outcome.                            *)
Due(s, r, k) == Sums(Adds(s, r))[k]

(* The hash only grows, and it follows the ledger.                         *)
Rising(s, q) ==
  /\ \A j : SeenAt(s, j) => q < s[j].by
  /\ \A i, j : SeenAt(s, i) /\ SeenAt(s, j) /\ i < j => s[i].by < s[j].by
  /\ \A i \in 1..Len(s) : s[i].op \in Counted => \E j : SeenAt(s, j) /\ i < j

(* Nothing in the hash or on its way to it is above n.                     *)
Below(s, q, n) == q <= n /\ \A j : SeenAt(s, j) => s[j].by <= n

(* What the head of the queue makes of the hash and of the ledger.         *)
SeenBy(s, q)    == IF s[1].op = "seen" THEN s[1].by ELSE q
AddsTo(s, o, o2) == \A r \in Counted : o2[r] = o[r] + Adds(s, r)[1]

LEMMA Positions ==
  ASSUME NEW s \in Seq(Command)
  PROVE  /\ Len(s) \in Nat
         /\ \A j : SeenAt(s, j) => /\ j \in 1..Len(s) /\ j \in Nat \ {0} /\ s[j] \in Command
                                   /\ s[j].by \in 1..MaxEvents /\ s[j].by \in Nat \ {0}
         /\ s # <<>> => /\ Tail(s) \in Seq(Command) /\ Len(s) # 0 /\ Len(Tail(s)) = Len(s) - 1
                        /\ s[1] \in Command /\ 1 \in 1..Len(s)
                        /\ \A i \in 1..(Len(s) - 1) : Tail(s)[i] = s[i + 1]
                        /\ \A j : SeenAt(Tail(s), j) <=> SeenAt(s, j + 1) /\ j \in 1..(Len(s) - 1)
<1>1. Len(s) \in Nat
  OBVIOUS
<1>2. ASSUME NEW j, SeenAt(s, j)
      PROVE  /\ j \in 1..Len(s) /\ j \in Nat \ {0} /\ s[j] \in Command
             /\ s[j].by \in 1..MaxEvents /\ s[j].by \in Nat \ {0}
  <2>1. j \in 1..Len(s) /\ s[j] \in Command /\ s[j].op = "seen"
    BY <1>2 DEF SeenAt
  <2>2. s[j].by \in 1..MaxEvents
    BY <2>1, CommandKinds
  <2> QED BY <1>1, <2>1, <2>2
<1>3. ASSUME s # <<>>
      PROVE  /\ Tail(s) \in Seq(Command) /\ Len(s) # 0 /\ Len(Tail(s)) = Len(s) - 1
             /\ s[1] \in Command /\ 1 \in 1..Len(s)
             /\ \A i \in 1..(Len(s) - 1) : Tail(s)[i] = s[i + 1]
  BY <1>3
<1>4. ASSUME s # <<>>, NEW j
      PROVE  SeenAt(Tail(s), j) <=> SeenAt(s, j + 1) /\ j \in 1..(Len(s) - 1)
  <2>1. \A i \in 1..(Len(s) - 1) : i + 1 \in 1..Len(s) /\ Tail(s)[i] = s[i + 1]
    BY <1>1, <1>3, <1>4
  <2>2. Len(Tail(s)) = Len(s) - 1
    BY <1>3, <1>4
  <2> QED BY <2>1, <2>2 DEF SeenAt
<1> QED BY <1>1, <1>2, <1>3, <1>4

LEMMA OneMore ==
  ASSUME NEW S, NEW s \in Seq(S), NEW c \in S
  PROVE  /\ <<c>> \in Seq(S) /\ Append(s, c) = s \o <<c>> /\ s \o <<c>> \in Seq(S)
         /\ Len(<<c>>) = 1 /\ \A j \in 1..Len(<<c>>) : <<c>>[j] = c
<1>1. Append(s, c) = s \o <<c>>
  BY AppendIsConcat
<1>2. <<c>> \in Seq(S) /\ Len(<<c>>) = 1 /\ \A j \in 1..Len(<<c>>) : <<c>>[j] = c
  OBVIOUS
<1>3. s \o <<c>> \in Seq(S)
  BY <1>2, ConcatProperties
<1> QED BY <1>1, <1>2, <1>3

LEMMA PositionsOfConcat ==
  ASSUME NEW s \in Seq(Command), NEW w \in Seq(Command)
  PROVE  /\ s \o w \in Seq(Command) /\ Len(s \o w) = Len(s) + Len(w)
         /\ Len(s) \in Nat /\ Len(w) \in Nat
         /\ \A i \in 1..Len(s) : i \in 1..Len(s \o w) /\ (s \o w)[i] = s[i]
         /\ \A j \in 1..Len(w) : Len(s) + j \in 1..Len(s \o w) /\ (s \o w)[Len(s) + j] = w[j]
         /\ \A i \in 1..Len(s \o w) : i \in 1..Len(s) \/ \E j \in 1..Len(w) : i = Len(s) + j
         /\ \A j : SeenAt(s, j) => SeenAt(s \o w, j)
<1>1. /\ s \o w \in Seq(Command) /\ Len(s \o w) = Len(s) + Len(w)
      /\ Len(s) \in Nat /\ Len(w) \in Nat
      /\ \A i \in 1..Len(s) : i \in 1..Len(s \o w) /\ (s \o w)[i] = s[i]
      /\ \A j \in 1..Len(w) : Len(s) + j \in 1..Len(s \o w) /\ (s \o w)[Len(s) + j] = w[j]
  OBVIOUS
<1>2. ASSUME NEW i \in 1..Len(s \o w), i \notin 1..Len(s)
      PROVE  \E j \in 1..Len(w) : i = Len(s) + j
  <2>1. i - Len(s) \in 1..Len(w) /\ i = Len(s) + (i - Len(s))
    BY <1>1, <1>2
  <2> QED BY <2>1
<1>3. \A j : SeenAt(s, j) => SeenAt(s \o w, j)
  BY <1>1 DEF SeenAt
<1> QED BY <1>1, <1>2, <1>3

LEMMA ReachedOfTail ==
  ASSUME NEW s \in Seq(Command), s # <<>>, NEW q \in Nat, Rising(s, q),
         NEW n \in Nat, NEW k \in 2..(Len(s) + 1), Reached(s, q, n, k)
  PROVE  Reached(Tail(s), SeenBy(s, q), n, k - 1)
<1>1. Len(s) \in Nat /\ SeenBy(s, q) \in Nat /\ q <= SeenBy(s, q)
  <2>1. CASE s[1].op = "seen"
    <3>1. SeenAt(s, 1)
      BY <2>1, Positions DEF SeenAt
    <3> QED BY <2>1, <3>1, Positions DEF SeenBy, Rising
  <2>2. CASE s[1].op # "seen"
    BY <2>2, Positions DEF SeenBy
  <2> QED BY <2>1, <2>2
<1>2. CASE n <= q
  BY <1>1, <1>2 DEF Reached
<1>3. ASSUME NEW j \in 1..(k - 1), SeenAt(s, j), n <= s[j].by
      PROVE  Reached(Tail(s), SeenBy(s, q), n, k - 1)
  <2>1. CASE j = 1
    BY <1>3, <2>1 DEF SeenBy, SeenAt, Reached
  <2>2. CASE j # 1
    <3>1. j - 1 \in 1..(k - 1 - 1) /\ j - 1 \in 1..(Len(s) - 1) /\ (j - 1) + 1 = j
      BY <1>1, <1>3, <2>2
    <3>2. SeenAt(Tail(s), j - 1) /\ Tail(s)[j - 1] = s[j]
      BY <1>3, <3>1, Positions
    <3> QED BY <1>3, <3>1, <3>2 DEF Reached
  <2> QED BY <2>1, <2>2
<1> QED BY <1>2, <1>3 DEF Reached

LEMMA ReachedOfConcat ==
  ASSUME NEW s \in Seq(Command), NEW w \in Seq(Command), NEW q \in Nat, NEW n \in Nat,
         NEW k \in 1..(Len(s) + 1), NEW m \in Nat, k <= m, Reached(s, q, n, k)
  PROVE  Reached(s \o w, q, n, m)
<1>1. CASE n <= q
  BY <1>1 DEF Reached
<1>2. ASSUME NEW j \in 1..(k - 1), SeenAt(s, j), n <= s[j].by
      PROVE  Reached(s \o w, q, n, m)
  <2>1. j \in 1..Len(s) /\ j \in 1..(m - 1)
    BY <1>2 DEF SeenAt
  <2>2. SeenAt(s \o w, j) /\ (s \o w)[j] = s[j]
    BY <1>2, <2>1, PositionsOfConcat
  <2> QED BY <1>2, <2>1, <2>2 DEF Reached
<1> QED BY <1>1, <1>2 DEF Reached

LEMMA RisingOfTail ==
  ASSUME NEW s \in Seq(Command), s # <<>>, NEW q \in Nat, Rising(s, q)
  PROVE  /\ Rising(Tail(s), SeenBy(s, q)) /\ Rising(Tail(s), q) /\ SeenBy(s, q) \in Nat
         /\ \A n \in Nat : Below(s, q, n) => Below(Tail(s), SeenBy(s, q), n) /\ Below(Tail(s), q, n)
<1> DEFINE t == Tail(s)
<1>1. /\ Len(s) \in Nat /\ Len(t) = Len(s) - 1 /\ s[1] \in Command /\ 1 \in 1..Len(s)
      /\ \A i \in 1..(Len(s) - 1) : t[i] = s[i + 1]
      /\ \A j : SeenAt(t, j) <=> SeenAt(s, j + 1) /\ j \in 1..(Len(s) - 1)
      /\ \A j : SeenAt(s, j) => j \in 1..Len(s) /\ s[j].by \in Nat
  BY Positions
<1> HIDE DEF t
<1>2. \A j : SeenAt(t, j) => t[j].by = s[j + 1].by /\ SeenAt(s, j + 1) /\ 1 < j + 1 /\ j \in Nat
  BY <1>1
<1>3. s[1].op = "seen" => SeenAt(s, 1)
  BY <1>1 DEF SeenAt
<1>4. SeenBy(s, q) \in Nat
  BY <1>1, <1>3 DEF SeenBy
<1>5. \A j : SeenAt(t, j) => q < t[j].by /\ SeenBy(s, q) < t[j].by
  BY <1>1, <1>2, <1>3 DEF Rising, SeenBy
<1>6. ASSUME NEW i, NEW j, SeenAt(t, i), SeenAt(t, j), i < j
      PROVE  t[i].by < t[j].by
  <2>1. i + 1 < j + 1
    BY <1>2, <1>6
  <2> QED BY <1>2, <1>6, <2>1 DEF Rising
<1>7. ASSUME NEW i \in 1..Len(t), t[i].op \in Counted
      PROVE  \E j : SeenAt(t, j) /\ i < j
  <2>1. i + 1 \in 1..Len(s) /\ s[i + 1].op \in Counted
    BY <1>1, <1>7
  <2>2. PICK j : SeenAt(s, j) /\ i + 1 < j
    BY <2>1 DEF Rising
  <2>3. j \in 1..Len(s) /\ j - 1 \in 1..(Len(s) - 1) /\ (j - 1) + 1 = j /\ i < j - 1
    BY <1>1, <2>2
  <2>4. SeenAt(t, j - 1)
    BY <1>1, <2>2, <2>3
  <2> QED BY <2>3, <2>4
<1>8. Rising(t, SeenBy(s, q)) /\ Rising(t, q)
  BY <1>5, <1>6, <1>7 DEF Rising
<1>9. ASSUME NEW n \in Nat, Below(s, q, n)
      PROVE  Below(t, SeenBy(s, q), n) /\ Below(t, q, n)
  BY <1>2, <1>3, <1>9 DEF Below, SeenBy
<1> QED BY <1>4, <1>8, <1>9 DEF t

LEMMA DueFacts ==
  ASSUME NEW s \in Seq(Command), NEW r \in Counted
  PROVE  /\ Due(s, r, 0) = 0 /\ \A k \in 0..Len(s) : Due(s, r, k) \in Nat
         /\ s # <<>> =>
              /\ Adds(s, r)[1] = (IF s[1].op = r THEN s[1].by ELSE 0) /\ Adds(s, r)[1] \in Nat
              /\ \A k \in 1..Len(s) : Due(s, r, k) = Adds(s, r)[1] + Due(Tail(s), r, k - 1)
<1>1. Adds(s, r) \in Seq(Nat) /\ Len(Adds(s, r)) = Len(s) /\ Len(s) \in Nat
  BY AddsOfConcat
<1>2. Due(s, r, 0) = 0 /\ \A k \in 0..Len(s) : Due(s, r, k) \in Nat
  BY <1>1, SumsAre DEF Due
<1>3. ASSUME s # <<>>
      PROVE  /\ Adds(s, r)[1] = (IF s[1].op = r THEN s[1].by ELSE 0) /\ Adds(s, r)[1] \in Nat
             /\ \A k \in 1..Len(s) : Due(s, r, k) = Adds(s, r)[1] + Due(Tail(s), r, k - 1)
  <2>1. 1 \in 1..Len(s) /\ Len(Tail(s)) = Len(s) - 1
    BY <1>3, Positions
  <2>2. Adds(s, r)[1] = (IF s[1].op = r THEN s[1].by ELSE 0)
    BY <2>1 DEF Adds
  <2>3. Adds(s, r) # <<>> /\ Adds(s, r)[1] \in Nat
    BY <1>1, <2>1
  <2>4. Adds(Tail(s), r) = Tail(Adds(s, r))
    <3>1. \A i \in 1..(Len(s) - 1) : Tail(s)[i] = s[i + 1] /\ i + 1 \in 1..Len(s)
      BY <1>1, <1>3, Positions
    <3>2. PICK v \in Seq(Nat) : v = Adds(s, r)
      BY <1>1
    <3>3. /\ Len(Tail(v)) = Len(v) - 1 /\ Tail(v) \in Seq(Nat)
          /\ \A i \in 1..(Len(v) - 1) : Tail(v)[i] = v[i + 1]
      BY <2>3, <3>2
    <3>4. PICK u \in Seq(Nat) : u = Adds(Tail(s), r) /\ Len(u) = Len(s) - 1
      <4>1. Tail(s) \in Seq(Command)
        BY <1>3, Positions
      <4> QED BY <2>1, <4>1, AddsOfConcat
    <3>5. \A i \in 1..(Len(s) - 1) : u[i] = IF Tail(s)[i].op = r THEN Tail(s)[i].by ELSE 0
      BY <2>1, <3>4 DEF Adds
    <3>6. \A i \in 1..(Len(s) - 1) : v[i + 1] = IF s[i + 1].op = r THEN s[i + 1].by ELSE 0
      BY <3>1, <3>2 DEF Adds
    <3>7. Len(u) = Len(Tail(v)) /\ \A i \in 1..Len(u) : u[i] = Tail(v)[i]
      <4>1. Len(v) = Len(s) /\ Len(u) = Len(s) - 1 /\ Len(Tail(v)) = Len(s) - 1
        BY <1>1, <3>2, <3>3, <3>4
      <4>2. ASSUME NEW i \in 1..(Len(s) - 1)
            PROVE  u[i] = Tail(v)[i]
        <5>1. Tail(v)[i] = v[i + 1]
          BY <3>3, <4>1
        <5>2. u[i] = (IF s[i + 1].op = r THEN s[i + 1].by ELSE 0)
          BY <3>1, <3>5
        <5> QED BY <3>6, <5>1, <5>2
      <4> QED BY <4>1, <4>2
    <3>8. u = Tail(v)
      BY <3>3, <3>4, <3>7, SeqEqual
    <3> QED BY <3>2, <3>4, <3>8
  <2>5. \A i \in 0..(Len(s) - 1) : Due(s, r, i + 1) = Adds(s, r)[1] + Due(Tail(s), r, i)
    <3>1. Len(Tail(Adds(s, r))) = Len(s) - 1
      BY <1>1, <2>3
    <3> QED BY <1>1, <2>3, <2>4, <3>1, SumsOfTail DEF Due
  <2>6. \A k \in 1..Len(s) : k - 1 \in 0..(Len(s) - 1) /\ (k - 1) + 1 = k
    BY <1>1
  <2>7. ASSUME NEW k \in 1..Len(s)
        PROVE  Due(s, r, k) = Adds(s, r)[1] + Due(Tail(s), r, k - 1)
    <3>1. Due(s, r, (k - 1) + 1) = Adds(s, r)[1] + Due(Tail(s), r, k - 1)
      BY <2>5, <2>6
    <3> QED BY <2>6, <3>1
  <2> QED BY <2>2, <2>3, <2>7
<1> QED BY <1>2, <1>3

LEMMA DueOfConcat ==
  ASSUME NEW s \in Seq(Command), NEW w \in Seq(Command), NEW r \in Counted
  PROVE  /\ \A k \in 0..Len(s) : Due(s \o w, r, k) = Due(s, r, k)
         /\ Due(s \o w, r, Len(s \o w)) = Due(s, r, Len(s)) + Due(w, r, Len(w))
         /\ Due(w, r, Len(w)) = Total(Adds(w, r))
<1>1. /\ Adds(s, r) \in Seq(Nat) /\ Len(Adds(s, r)) = Len(s)
      /\ Adds(w, r) \in Seq(Nat) /\ Len(Adds(w, r)) = Len(w)
      /\ Adds(s \o w, r) = Adds(s, r) \o Adds(w, r)
      /\ Len(w) \in Nat /\ Len(s \o w) = Len(s) + Len(w)
  BY AddsOfConcat, PositionsOfConcat
<1>2. /\ \A k \in 0..Len(s) : Due(s \o w, r, k) = Due(s, r, k)
      /\ \A j \in 0..Len(w) : Due(s \o w, r, Len(s) + j) = Total(Adds(s, r)) + Due(w, r, j)
  <2>1. /\ \A k \in 0..Len(Adds(s, r)) : Sums(Adds(s, r) \o Adds(w, r))[k] = Sums(Adds(s, r))[k]
        /\ \A j \in 0..Len(Adds(w, r)) : Sums(Adds(s, r) \o Adds(w, r))[Len(Adds(s, r)) + j]
                                          = Total(Adds(s, r)) + Sums(Adds(w, r))[j]
    BY <1>1, SumsOfConcat
  <2> QED BY <1>1, <2>1 DEF Due
<1>3. Total(Adds(s, r)) = Due(s, r, Len(s)) /\ Total(Adds(w, r)) = Due(w, r, Len(w))
  BY <1>1 DEF Total, Due
<1>4. Len(w) \in 0..Len(w)
  BY <1>1
<1> QED BY <1>1, <1>2, <1>3, <1>4

(* A queue without writes adds nothing.                                    *)
LEMMA NothingDue ==
  ASSUME NEW s \in Seq(Command), \A i \in 1..Len(s) : s[i].op \notin Writes, NEW r \in Counted
  PROVE  Due(s, r, Len(s)) = 0
<1>1. Adds(s, r) \in Seq(Nat) /\ Len(Adds(s, r)) = Len(s) /\ Len(s) \in Nat
  BY AddsOfConcat
<1>2. \A i \in 1..Len(s) : Adds(s, r)[i] = 0
  BY DEF Adds, Writes, Counted
<1> DEFINE g == [i \in 0..Len(s) |-> 0]
<1>3. g[0] = 0 /\ \A i \in 1..Len(s) : g[i] = g[i - 1] + Adds(s, r)[i]
  BY <1>1, <1>2
<1>4. g[Len(s)] = 0 /\ Len(s) \in 0..Len(s) /\ Len(s) \in 0..Len(Adds(s, r))
  BY <1>1
<1> HIDE DEF g
<1>5. \A i \in 0..Len(s) : Sums(Adds(s, r))[i] = g[i]
  BY <1>1, <1>3, <1>4, SumsUnique
<1> QED BY <1>4, <1>5 DEF Due

-----------------------------------------------------------------------------
(* The invariant.                                                          *)

(* Messages are numbered in the order in which they were published: those  *)
(* of b wait behind those whose writes are in the queue.                   *)
QueueOK(s, q, b, n) ==
  /\ Rising(s, q) /\ Below(s, q, n)
  /\ \A i, j \in 1..Len(b) : i < j => b[i].n < b[j].n
  /\ \A i \in 1..Len(b) : b[i].n <= n /\ Below(s, q, b[i].n - 1)

QueueInv == QueueOK(commands, seen, inbox, published)

(* The relay has heard of what is on the page or on its way there.         *)
PageInv == \A r \in Counted : Total(Wins(history, r)) + Total(Wins(wire, r)) <= heard[r]

(* What is counted and what is queued make up what was heard.              *)
Counts(s, q, o, h) ==
  /\ \A r \in Counted : o[r] + Due(s, r, Len(s)) = h[r]
  /\ o # Zero => Reached(s, q, 1, Len(s) + 1)

(* The page knows of no settlement that is not counted or queued.          *)
Told(s, q) ==
  /\ \A i \in 1..Len(wire) : Reached(s, q, wire[i].n, Len(s) + 1)
  /\ history # <<>> => Reached(s, q, history[1].n, Len(s) + 1)

(* Answers to be shown, of a poll or of the panel.                         *)
CurrentAt(a, h) ==
  /\ \A r \in Counted : a.base[r] <= a.body.outcomes[r] /\ a.body.outcomes[r] <= h[r]
  /\ a.known <= a.body.seen
  /\ a.body.outcomes # Zero => a.body.seen # 0

(* The k-th command asks for a poll x: it stands behind all that the page  *)
(* had seen.                                                               *)
Promise(s, q, o, h, x, k) ==
  /\ Reached(s, q, x.known, k)
  /\ s[k].op = "read ledger" => \A r \in Counted : x.base[r] <= o[r] + Due(s, r, k - 1)
  /\ s[k].op = "read staleness" =>
       /\ \A r \in Counted : x.base[r] <= x.body.outcomes[r] /\ x.body.outcomes[r] <= h[r]
       /\ x.body.outcomes # Zero => Reached(s, q, 1, k)

Asked(s, q, o, h, x, p) ==
  /\ x.at = "sent" =>
       (\A r \in Counted : x.base[r] <= h[r]) /\ Reached(s, q, x.known, Len(s) + 1)
  /\ \A k \in 1..Len(s) : AsksFor(s[k], p) => Promise(s, q, o, h, x, k)
  /\ x.at = "answered" /\ x.code = "200" => CurrentAt(x, h)

PollsInv(s, q, o, h) == \A p \in Polls : Asked(s, q, o, h, poll[p], p)

PanelInv == stats.asked => CurrentAt(stats, heard)

ConsoleInv ==
  /\ QueueInv /\ PageInv
  /\ ~dropped => /\ Counts(commands, seen, outcomes, heard) /\ Told(commands, seen)
                 /\ PollsInv(commands, seen, outcomes, heard) /\ PanelInv

(* What the head of the queue adds leaves the sum of both as it was.       *)
LEMMA CountsOfTail ==
  ASSUME NEW s \in Seq(Command), s # <<>>, NEW q \in Nat, Rising(s, q),
         NEW o \in [Counted -> Nat], NEW o2 \in [Counted -> Nat], AddsTo(s, o, o2), NEW h,
         Counts(s, q, o, h)
  PROVE  Counts(Tail(s), SeenBy(s, q), o2, h)
<1>1. Len(s) \in Nat /\ Len(s) # 0 /\ Len(Tail(s)) = Len(s) - 1 /\ s[1] \in Command
          /\ 1 \in 1..Len(s)
  BY Positions
<1>2. ASSUME NEW r \in Counted
      PROVE  o2[r] + Due(Tail(s), r, Len(Tail(s))) = h[r]
  <2>1. Due(s, r, Len(s)) = Adds(s, r)[1] + Due(Tail(s), r, Len(s) - 1)
    BY <1>1, DueFacts
  <2>2. Adds(s, r)[1] \in Nat /\ o[r] \in Nat /\ Due(s, r, Len(s)) \in Nat
    BY <1>1, DueFacts
  <2>3. Due(Tail(s), r, Len(s) - 1) \in Nat
    <3>1. Tail(s) \in Seq(Command) /\ Len(s) - 1 \in 0..Len(Tail(s))
      BY <1>1, Positions
    <3> QED BY <3>1, DueFacts
  <2> QED BY <1>1, <2>1, <2>2, <2>3 DEF Counts, AddsTo
<1>3. ASSUME o2 # Zero
      PROVE  Reached(s, q, 1, Len(s) + 1)
  <2>1. CASE o # Zero
    BY <2>1 DEF Counts
  <2>2. CASE o = Zero
    <3>1. PICK r \in Counted : o2[r] # 0
      BY <1>3 DEF Zero
    <3>2. Adds(s, r)[1] # 0
      BY <2>2, <3>1 DEF AddsTo, Zero
    <3>3. s[1].op \in Counted
      BY <3>2, DueFacts
    <3>4. PICK j : SeenAt(s, j) /\ 1 < j
      BY <1>1, <3>3 DEF Rising
    <3>5. j \in 1..(Len(s) + 1 - 1) /\ 1 <= s[j].by
      BY <1>1, <3>4, Positions
    <3> QED BY <3>4, <3>5 DEF Reached
  <2> QED BY <2>1, <2>2
<1>4. ASSUME o2 # Zero
      PROVE  Reached(Tail(s), SeenBy(s, q), 1, Len(Tail(s)) + 1)
  <2>1. Len(s) + 1 \in 2..(Len(s) + 1) /\ (Len(s) + 1) - 1 = Len(Tail(s)) + 1
    BY <1>1
  <2> QED BY <1>3, <1>4, <2>1, ReachedOfTail
<1> QED BY <1>2, <1>4 DEF Counts

LEMMA CountsOfConcat ==
  ASSUME NEW s \in Seq(Command), NEW w \in Seq(Command), NEW q \in Nat,
         NEW o \in [Counted -> Nat], NEW h, NEW h2,
         \A r \in Counted : h2[r] = h[r] + Total(Adds(w, r)), Counts(s, q, o, h)
  PROVE  Counts(s \o w, q, o, h2)
<1>1. Len(s) \in Nat /\ Len(w) \in Nat /\ Len(s \o w) = Len(s) + Len(w) /\ s \o w \in Seq(Command)
  BY PositionsOfConcat
<1>2. ASSUME NEW r \in Counted
      PROVE  o[r] + Due(s \o w, r, Len(s \o w)) = h2[r]
  <2>1. /\ Due(s \o w, r, Len(s \o w)) = Due(s, r, Len(s)) + Due(w, r, Len(w))
        /\ Due(w, r, Len(w)) = Total(Adds(w, r))
    BY DueOfConcat
  <2>2. Len(s) \in 0..Len(s) /\ Len(w) \in 0..Len(w)
    BY <1>1
  <2>3. Due(s, r, Len(s)) \in Nat /\ Due(w, r, Len(w)) \in Nat /\ o[r] \in Nat
    BY <2>2, DueFacts
  <2> QED BY <2>1, <2>3 DEF Counts
<1>3. ASSUME o # Zero
      PROVE  Reached(s \o w, q, 1, Len(s \o w) + 1)
  <2>1. Reached(s, q, 1, Len(s) + 1)
    BY <1>3 DEF Counts
  <2>2. /\ Len(s) + 1 \in 1..(Len(s) + 1) /\ Len(s \o w) + 1 \in Nat
        /\ Len(s) + 1 <= Len(s \o w) + 1
    BY <1>1
  <2> QED BY <2>1, <2>2, ReachedOfConcat
<1> QED BY <1>2, <1>3 DEF Counts

(* Commands that have been issued are reached no later when more are       *)
(* issued, nor when the one before them has run.                           *)
LEMMA ReachedLater ==
  ASSUME NEW s \in Seq(Command), NEW q \in Nat, NEW n \in Nat, Reached(s, q, n, Len(s) + 1)
  PROVE  /\ \A w \in Seq(Command) : Reached(s \o w, q, n, Len(s \o w) + 1)
         /\ s # <<>> /\ Rising(s, q) => Reached(Tail(s), SeenBy(s, q), n, Len(Tail(s)) + 1)
<1>1. ASSUME NEW w \in Seq(Command)
      PROVE  Reached(s \o w, q, n, Len(s \o w) + 1)
  <2>1. Len(s) \in Nat /\ Len(w) \in Nat /\ Len(s \o w) = Len(s) + Len(w)
    BY PositionsOfConcat
  <2>2. /\ Len(s) + 1 \in 1..(Len(s) + 1) /\ Len(s \o w) + 1 \in Nat
        /\ Len(s) + 1 <= Len(s \o w) + 1
    BY <2>1
  <2> QED BY <2>2, ReachedOfConcat
<1>2. ASSUME s # <<>>, Rising(s, q)
      PROVE  Reached(Tail(s), SeenBy(s, q), n, Len(Tail(s)) + 1)
  <2>1. Len(s) \in Nat /\ Len(s) # 0 /\ Len(Tail(s)) = Len(s) - 1
    BY <1>2, Positions
  <2>2. Len(s) + 1 \in 2..(Len(s) + 1) /\ (Len(s) + 1) - 1 = Len(Tail(s)) + 1
    BY <2>1
  <2> QED BY <1>2, <2>2, ReachedOfTail
<1> QED BY <1>1, <1>2

LEMMA PromiseOfTail ==
  ASSUME NEW s \in Seq(Command), s # <<>>, NEW q \in Nat, Rising(s, q),
         NEW o \in [Counted -> Nat], NEW o2 \in [Counted -> Nat], AddsTo(s, o, o2), NEW h,
         NEW n, NEW x \in PollType(n), NEW k \in 2..Len(s), Promise(s, q, o, h, x, k)
  PROVE  Promise(Tail(s), SeenBy(s, q), o2, h, x, k - 1)
<1>1. /\ Len(s) \in Nat /\ Len(Tail(s)) = Len(s) - 1 /\ k - 1 \in 1..(Len(s) - 1)
      /\ k \in 2..(Len(s) + 1) /\ k - 1 \in 1..Len(s) /\ Tail(s)[k - 1] = s[k]
  <2>1. /\ Len(s) \in Nat /\ Len(Tail(s)) = Len(s) - 1
        /\ \A i \in 1..(Len(s) - 1) : Tail(s)[i] = s[i + 1]
    BY Positions
  <2>2. k - 1 \in 1..(Len(s) - 1) /\ k \in 2..(Len(s) + 1) /\ k - 1 \in 1..Len(s) /\ (k - 1) + 1 = k
    BY <2>1
  <2>3. Tail(s)[k - 1] = s[(k - 1) + 1]
    BY <2>1, <2>2
  <2> QED BY <2>1, <2>2, <2>3
<1>2. x.known \in Nat /\ x.base \in [Counted -> Nat]
  BY PollFields, AdminConsoleAssumption
<1>3. Reached(Tail(s), SeenBy(s, q), x.known, k - 1)
  BY <1>1, <1>2, ReachedOfTail DEF Promise
<1>4. ASSUME s[k].op = "read ledger", NEW r \in Counted
      PROVE  x.base[r] <= o2[r] + Due(Tail(s), r, (k - 1) - 1)
  <2>1. Due(s, r, k - 1) = Adds(s, r)[1] + Due(Tail(s), r, (k - 1) - 1) /\ Adds(s, r)[1] \in Nat
    BY <1>1, DueFacts
  <2>2. Due(Tail(s), r, (k - 1) - 1) \in Nat
    <3>1. Tail(s) \in Seq(Command) /\ (k - 1) - 1 \in 0..Len(Tail(s))
      BY <1>1, Positions
    <3> QED BY <3>1, DueFacts
  <2>3. x.base[r] <= o[r] + Due(s, r, k - 1)
    BY <1>4 DEF Promise
  <2>4. o2[r] = o[r] + Adds(s, r)[1] /\ o[r] \in Nat /\ x.base[r] \in Nat
    BY <1>2 DEF AddsTo
  <2> QED BY <2>1, <2>2, <2>3, <2>4
<1>5. ASSUME s[k].op = "read staleness"
      PROVE  /\ \A r \in Counted : x.base[r] <= x.body.outcomes[r] /\ x.body.outcomes[r] <= h[r]
             /\ x.body.outcomes # Zero => Reached(Tail(s), SeenBy(s, q), 1, k - 1)
  BY <1>1, <1>5, ReachedOfTail DEF Promise
<1> QED BY <1>1, <1>3, <1>4, <1>5 DEF Promise

LEMMA PromiseOfConcat ==
  ASSUME NEW s \in Seq(Command), NEW w \in Seq(Command), NEW q \in Nat,
         NEW o \in [Counted -> Nat], NEW h \in [Counted -> Nat], NEW h2 \in [Counted -> Nat],
         \A r \in Counted : h[r] <= h2[r],
         NEW n, NEW x \in PollType(n), NEW k \in 1..Len(s), Promise(s, q, o, h, x, k)
  PROVE  Promise(s \o w, q, o, h2, x, k)
<1>1. /\ Len(s) \in Nat /\ k \in 1..(Len(s) + 1) /\ k \in Nat /\ k <= k /\ (s \o w)[k] = s[k]
      /\ k - 1 \in 0..Len(s)
  BY PositionsOfConcat
<1>2. x.known \in Nat /\ x.body \in Body
  BY PollFields, AdminConsoleAssumption
<1>3. \A m \in Nat : Reached(s, q, m, k) => Reached(s \o w, q, m, k)
  BY <1>1, ReachedOfConcat
<1>4. \A r \in Counted : Due(s \o w, r, k - 1) = Due(s, r, k - 1)
  BY <1>1, DueOfConcat
<1>5. \A r \in Counted : x.body.outcomes[r] <= h[r] => x.body.outcomes[r] <= h2[r]
  <2>1. x.body.outcomes \in [Counted -> Nat]
    BY <1>2 DEF Body
  <2> QED BY <2>1
<1>6. Reached(s \o w, q, x.known, k)
  BY <1>2, <1>3 DEF Promise
<1>7. x.body.outcomes # Zero /\ Reached(s, q, 1, k) => Reached(s \o w, q, 1, k)
  BY <1>3
<1>8. s[k].op = "read ledger" => \A r \in Counted : x.base[r] <= o[r] + Due(s \o w, r, k - 1)
  BY <1>4 DEF Promise
<1> QED BY <1>1, <1>5, <1>6, <1>7, <1>8 DEF Promise

LEMMA BodyOutcomes ==
  ASSUME NEW b \in Body
  PROVE  b.outcomes \in [Counted -> Nat] /\ b.seen \in 0..MaxEvents
BY DEF Body

LEMMA CurrentGrows ==
  ASSUME NEW a, a.body.outcomes \in [Counted -> Nat], NEW h \in [Counted -> Nat],
         NEW h2 \in [Counted -> Nat], \A r \in Counted : h[r] <= h2[r], CurrentAt(a, h)
  PROVE  CurrentAt(a, h2)
<1>1. ASSUME NEW r \in Counted
      PROVE  a.body.outcomes[r] <= h2[r]
  BY DEF CurrentAt
<1> QED BY <1>1 DEF CurrentAt

(* A poll that the head of the queue is not about.                         *)
LEMMA AskedOfTail ==
  ASSUME NEW s \in Seq(Command), s # <<>>, NEW q \in Nat, Rising(s, q),
         NEW o \in [Counted -> Nat], NEW o2 \in [Counted -> Nat], AddsTo(s, o, o2), NEW h,
         NEW n, NEW x \in PollType(n), NEW p, Asked(s, q, o, h, x, p)
  PROVE  Asked(Tail(s), SeenBy(s, q), o2, h, x, p)
<1>1. x.at = "sent" => Reached(Tail(s), SeenBy(s, q), x.known, Len(Tail(s)) + 1)
  <2>1. x.known \in Nat
    BY PollFields, AdminConsoleAssumption
  <2> QED BY <2>1, ReachedLater DEF Asked
<1>2. ASSUME NEW k \in 1..Len(Tail(s)), AsksFor(Tail(s)[k], p)
      PROVE  Promise(Tail(s), SeenBy(s, q), o2, h, x, k)
  <2>1. k + 1 \in 2..Len(s) /\ k + 1 \in 1..Len(s) /\ Tail(s)[k] = s[k + 1] /\ (k + 1) - 1 = k
    BY Positions
  <2>2. Promise(s, q, o, h, x, k + 1)
    BY <1>2, <2>1 DEF Asked
  <2>3. Promise(Tail(s), SeenBy(s, q), o2, h, x, (k + 1) - 1)
    BY <2>1, <2>2, PromiseOfTail
  <2> QED BY <2>1, <2>3
<1> QED BY <1>1, <1>2 DEF Asked

LEMMA AskedOfConcat ==
  ASSUME NEW s \in Seq(Command), NEW w \in Seq(Command), NEW q \in Nat,
         NEW o \in [Counted -> Nat], NEW h \in [Counted -> Nat], NEW h2 \in [Counted -> Nat],
         \A r \in Counted : h[r] <= h2[r],
         NEW n, NEW x \in PollType(n), NEW p, \A j \in 1..Len(w) : ~AsksFor(w[j], p),
         Asked(s, q, o, h, x, p)
  PROVE  Asked(s \o w, q, o, h2, x, p)
<1>1. ASSUME x.at = "sent"
      PROVE  (\A r \in Counted : x.base[r] <= h2[r]) /\ Reached(s \o w, q, x.known, Len(s \o w) + 1)
  <2>1. x.known \in Nat /\ x.base \in [Counted -> Nat]
    BY PollFields, AdminConsoleAssumption
  <2>2. Reached(s \o w, q, x.known, Len(s \o w) + 1)
    BY <1>1, <2>1, ReachedLater DEF Asked
  <2>3. ASSUME NEW r \in Counted
        PROVE  x.base[r] <= h2[r]
    <3>1. x.base[r] <= h[r] /\ h[r] <= h2[r]
      BY <1>1 DEF Asked
    <3> QED BY <2>1, <3>1
  <2> QED BY <2>2, <2>3
<1>2. ASSUME NEW k \in 1..Len(s \o w), AsksFor((s \o w)[k], p)
      PROVE  Promise(s \o w, q, o, h2, x, k)
  <2>1. k \in 1..Len(s) /\ (s \o w)[k] = s[k]
    BY <1>2, PositionsOfConcat
  <2>2. Promise(s, q, o, h, x, k)
    BY <1>2, <2>1 DEF Asked
  <2> QED BY <2>1, <2>2, PromiseOfConcat
<1>3. ASSUME x.at = "answered", x.code = "200"
      PROVE  CurrentAt(x, h2)
  <2>1. x.body.outcomes \in [Counted -> Nat]
    BY PollFields, BodyOutcomes
  <2> QED BY <1>3, <2>1, CurrentGrows DEF Asked
<1> QED BY <1>1, <1>2, <1>3 DEF Asked

-----------------------------------------------------------------------------
(* The steps: the queue.                                                   *)
LEMMA QueueOfTail ==
  ASSUME NEW s \in Seq(Command), s # <<>>, NEW q \in Nat, NEW b \in Seq(Settlement), NEW n \in Nat,
         QueueOK(s, q, b, n)
  PROVE  QueueOK(Tail(s), SeenBy(s, q), b, n) /\ QueueOK(Tail(s), q, b, n)
<1>1. \A i \in 1..Len(b) : b[i].n - 1 \in Nat
  <2>1. \A i \in 1..Len(b) : b[i] \in Settlement
    OBVIOUS
  <2> QED BY <2>1, SettlementFacts
<1>2. Rising(s, q)
  BY DEF QueueOK
<1> QED BY <1>1, <1>2, RisingOfTail DEF QueueOK

LEMMA QueueOfRead ==
  ASSUME NEW s \in Seq(Command), NEW q \in Nat, NEW b, NEW n, QueueOK(s, q, b, n),
         NEW c \in Read
  PROVE  QueueOK(Append(s, c), q, b, n)
<1>1. c.op # "seen" /\ c.op \notin Counted
  BY DEF Read, Counted
<1>2. PICK t : t = Append(s, c)
  OBVIOUS
<1>3. /\ Len(s) \in Nat /\ Len(t) = Len(s) + 1 /\ \A i \in 1..Len(s) : t[i] = s[i]
      /\ t[Len(s) + 1] = c
  BY <1>2
<1>4. \A i \in 1..Len(t) : i \in 1..Len(s) \/ i = Len(s) + 1
  BY <1>3
<1>5. \A i \in 1..Len(s) : i \in 1..Len(t)
  BY <1>3
<1>6. \A j : SeenAt(t, j) <=> SeenAt(s, j)
  BY <1>1, <1>3, <1>4, <1>5 DEF SeenAt
<1>7. \A j : SeenAt(s, j) => t[j] = s[j]
  BY <1>3 DEF SeenAt
<1>8. Rising(t, q)
  <2>1. \A i \in 1..Len(t) : t[i].op \in Counted => \E j : SeenAt(t, j) /\ i < j
    BY <1>1, <1>3, <1>4, <1>6 DEF QueueOK, Rising
  <2> QED BY <1>6, <1>7, <2>1 DEF QueueOK, Rising
<1>9. \A m : Below(s, q, m) => Below(t, q, m)
  BY <1>6, <1>7 DEF Below
<1> QED BY <1>2, <1>8, <1>9 DEF QueueOK

LEMMA QueueOfPublish ==
  ASSUME NEW s \in Seq(Command), NEW q \in Nat, NEW b \in Seq(Settlement), NEW n \in Nat,
         QueueOK(s, q, b, n), NEW f, f.n = n + 1
  PROVE  QueueOK(s, q, b, n + 1) /\ QueueOK(s, q, Append(b, f), n + 1)
<1>1. Below(s, q, n) /\ Below(s, q, n + 1) /\ Below(s, q, f.n - 1)
  BY Positions DEF QueueOK, Below
<1>2. \A i \in 1..Len(b) : b[i].n \in Nat
  <2>1. \A i \in 1..Len(b) : b[i] \in Settlement
    OBVIOUS
  <2> QED BY <2>1, SettlementFacts
<1>3. QueueOK(s, q, b, n + 1)
  BY <1>1, <1>2 DEF QueueOK
<1>4. PICK a : a = Append(b, f)
  OBVIOUS
<1>5. /\ Len(b) \in Nat /\ Len(a) = Len(b) + 1 /\ \A i \in 1..Len(b) : a[i] = b[i]
      /\ a[Len(b) + 1] = f
  BY <1>4
<1>6. \A i \in 1..Len(a) : i \in 1..Len(b) \/ i = Len(b) + 1
  BY <1>5
<1>7. \A i \in 1..Len(b) : b[i].n <= n /\ b[i].n < f.n
  BY <1>2 DEF QueueOK
<1>8. \A i, j \in 1..Len(a) : i < j => a[i].n < a[j].n
  <2>1. ASSUME NEW i \in 1..Len(a), NEW j \in 1..Len(a), i < j
        PROVE  a[i].n < a[j].n
    <3>1. i \in 1..Len(b)
      BY <1>5, <1>6, <2>1
    <3>2. CASE j \in 1..Len(b)
      BY <1>5, <2>1, <3>1, <3>2 DEF QueueOK
    <3>3. CASE j = Len(b) + 1
      BY <1>5, <1>7, <3>1, <3>3
    <3> QED BY <1>6, <3>2, <3>3
  <2> QED BY <2>1
<1>9. \A i \in 1..Len(a) : a[i].n <= n + 1 /\ Below(s, q, a[i].n - 1)
  <2>1. \A i \in 1..Len(b) : a[i].n <= n + 1 /\ Below(s, q, a[i].n - 1)
    BY <1>2, <1>5 DEF QueueOK
  <2>2. a[Len(b) + 1].n <= n + 1 /\ Below(s, q, a[Len(b) + 1].n - 1)
    BY <1>1, <1>5
  <2> QED BY <1>6, <2>1, <2>2
<1> QED BY <1>1, <1>3, <1>4, <1>8, <1>9 DEF QueueOK

(* A message leaves the subscriber connection, and its writes join the     *)
(* queue or are lost.                                                      *)
LEMMA QueueOfRelay ==
  ASSUME NEW s \in Seq(Command), NEW q \in Nat, NEW b \in Seq(Settlement), b # <<>>, NEW n \in Nat,
         QueueOK(s, q, b, n), NEW w \in Seq(Command), Len(w) # 0,
         w[Len(w)] = [op |-> "seen", by |-> b[1].n],
         \A i \in 1..(Len(w) - 1) : w[i].op \in Counted
  PROVE  QueueOK(s, q, Tail(b), n) /\ QueueOK(s \o w, q, Tail(b), n)
<1> DEFINE f == b[1]
<1>1. /\ Len(b) \in Nat /\ Len(Tail(b)) = Len(b) - 1 /\ 1 \in 1..Len(b)
      /\ \A i \in 1..(Len(b) - 1) : Tail(b)[i] = b[i + 1]
      /\ \A i \in 1..Len(b) : b[i] \in Settlement
  OBVIOUS
<1>2. \A i \in 1..Len(b) : b[i].n \in Nat \ {0}
  BY <1>1, SettlementFacts
<1>3. \A i \in 1..Len(Tail(b)) : i + 1 \in 1..Len(b) /\ 1 < i + 1 /\ Tail(b)[i] = b[i + 1]
  BY <1>1
<1>4. QueueOK(s, q, Tail(b), n)
  <2>1. \A i, j \in 1..Len(Tail(b)) : i < j => Tail(b)[i].n < Tail(b)[j].n
    BY <1>3 DEF QueueOK
  <2>2. \A i \in 1..Len(Tail(b)) : Tail(b)[i].n <= n /\ Below(s, q, Tail(b)[i].n - 1)
    BY <1>3 DEF QueueOK
  <2> QED BY <2>1, <2>2 DEF QueueOK
<1>5. PICK t : t = s \o w
  OBVIOUS
<1>6. PICK last : last = Len(s) + Len(w)
  OBVIOUS
<1>7. /\ Len(s) \in Nat /\ Len(w) \in Nat /\ Len(t) = last /\ last \in 1..last /\ last \in Nat
      /\ \A i \in 1..Len(s) : i \in 1..last /\ t[i] = s[i] /\ i < last
      /\ \A j \in 1..Len(w) : t[Len(s) + j] = w[j]
      /\ \A i \in 1..last : i \in 1..Len(s) \/ \E j \in 1..Len(w) : i = Len(s) + j
  BY <1>5, <1>6, PositionsOfConcat
<1>8. /\ t[last].op = "seen" /\ t[last].by = f.n
      /\ \A i \in 1..last : i \in 1..Len(s) \/ i = last \/ (t[i].op \in Counted /\ i < last)
  <2>1. Len(w) \in 1..Len(w)
    BY <1>7
  <2>2. t[last] = w[Len(w)]
    BY <1>6, <1>7, <2>1
  <2>3. ASSUME NEW i \in 1..last, i \notin 1..Len(s), i # last
        PROVE  t[i].op \in Counted /\ i < last
    <3>1. PICK j \in 1..Len(w) : i = Len(s) + j
      BY <1>7, <2>3
    <3>2. j \in 1..(Len(w) - 1)
      BY <1>6, <1>7, <2>3, <3>1
    <3>3. t[i] = w[j]
      BY <1>7, <3>1
    <3>4. w[j].op \in Counted /\ Len(s) + j < Len(s) + Len(w)
      BY <1>7, <3>2
    <3> QED BY <1>6, <3>1, <3>3, <3>4
  <2> QED BY <2>2, <2>3
<1>9. \A j : SeenAt(t, j) <=> SeenAt(s, j) \/ j = last
  BY <1>7, <1>8 DEF SeenAt, Counted
<1>10. \A j : SeenAt(s, j) => t[j] = s[j] /\ j < last /\ j \in Nat /\ s[j].by \in Nat
  BY <1>7, Positions DEF SeenAt
<1>11. f.n \in Nat /\ f.n <= n /\ q < f.n /\ \A j : SeenAt(s, j) => s[j].by < f.n
  BY <1>1, <1>2, Positions DEF QueueOK, Below
<1>12. Rising(t, q)
  <2>1. \A j : SeenAt(t, j) => q < t[j].by
    BY <1>8, <1>9, <1>10, <1>11 DEF QueueOK, Rising
  <2>2. ASSUME NEW i, NEW j, SeenAt(t, i), SeenAt(t, j), i < j
        PROVE  t[i].by < t[j].by
    <3>1. SeenAt(s, i)
      <4>1. SeenAt(s, j) \/ j = last
        BY <1>9, <2>2
      <4>2. i # last
        <5>1. j <= last /\ j \in Nat
          <6>1. CASE SeenAt(s, j)
            <7>1. j < last /\ j \in Nat
              BY <1>10, <6>1, Zenon
            <7> QED BY <1>7, <7>1
          <6>2. CASE j = last
            BY <1>7, <6>2
          <6> QED BY <4>1, <6>1, <6>2
        <5> QED BY <1>7, <2>2, <5>1
      <4> QED BY <1>9, <2>2, <4>2
    <3> QED BY <1>8, <1>9, <1>10, <1>11, <2>2, <3>1 DEF QueueOK, Rising
  <2>3. ASSUME NEW i \in 1..Len(t), t[i].op \in Counted
        PROVE  \E j : SeenAt(t, j) /\ i < j
    <3>1. i # last
      BY <1>8, <2>3 DEF Counted
    <3>2. i < last
      BY <1>7, <1>8, <3>1
    <3> QED BY <1>9, <3>2
  <2> QED BY <2>1, <2>2, <2>3 DEF Rising
<1>13. ASSUME NEW m \in Nat, Below(s, q, m), f.n <= m
       PROVE  Below(t, q, m)
  BY <1>8, <1>9, <1>10, <1>13 DEF Below
<1>14. Below(t, q, n)
  BY <1>11, <1>13 DEF QueueOK
<1>15. ASSUME NEW i \in 1..Len(Tail(b))
       PROVE  Below(t, q, Tail(b)[i].n - 1)
  <2>1. f.n < b[i + 1].n /\ Below(s, q, b[i + 1].n - 1) /\ b[i + 1].n \in Nat \ {0}
    BY <1>1, <1>2, <1>3 DEF QueueOK
  <2> QED BY <1>2, <1>3, <1>11, <1>13, <2>1
<1> QED BY <1>4, <1>5, <1>12, <1>14, <1>15 DEF QueueOK

LEMMA RunWriteFacts ==
  ASSUME Typed, RunWrite
  PROVE  /\ commands # <<>> /\ commands' = Tail(commands) /\ commands[1].op \in Writes
         /\ seen' = SeenBy(commands, seen) /\ AddsTo(commands, outcomes, outcomes')
<1>1. commands # <<>> /\ commands' = Tail(commands) /\ Head(commands).op \in Writes
  BY DEF RunWrite
<1>2. Head(commands) = commands[1] /\ commands[1] \in Command /\ commands \in Seq(Command)
  BY <1>1, HeadCommand DEF Typed, StoreTyped
<1>3. \A r \in Counted : Adds(commands, r)[1] = (IF commands[1].op = r THEN commands[1].by ELSE 0)
  BY <1>1, <1>2, DueFacts
<1>4. outcomes \in [Counted -> Nat]
  BY DEF Typed, StoreTyped
<1>5. CASE commands[1].op = "seen"
  <2>1. seen' = commands[1].by /\ outcomes' = outcomes
    BY <1>2, <1>5 DEF RunWrite
  <2>2. \A r \in Counted : Adds(commands, r)[1] = 0
    BY <1>3, <1>5 DEF Counted
  <2> QED BY <1>1, <1>2, <1>4, <1>5, <2>1, <2>2 DEF SeenBy, AddsTo
<1>6. CASE commands[1].op # "seen"
  <2>1. /\ seen' = seen
        /\ outcomes' = [outcomes EXCEPT ![commands[1].op] = @ + commands[1].by]
    BY <1>2, <1>6 DEF RunWrite
  <2>2. commands[1].by \in Nat /\ commands[1].op \in Counted
    BY <1>1, <1>2, <1>6, CommandKinds DEF Writes, Counted
  <2>3. \A r \in Counted : outcomes'[r] = outcomes[r] + Adds(commands, r)[1]
    BY <1>3, <1>4, <2>1, <2>2
  <2> QED BY <1>1, <1>2, <1>6, <2>1, <2>3 DEF SeenBy, AddsTo
<1> QED BY <1>5, <1>6

(* A read leaves the hash and the ledger alone.                            *)
LEMMA ReadFacts ==
  ASSUME Typed, commands # <<>>, commands[1].op \notin Writes
  PROVE  SeenBy(commands, seen) = seen /\ AddsTo(commands, outcomes, outcomes)
<1>1. commands \in Seq(Command) /\ outcomes \in [Counted -> Nat]
  BY DEF Typed, StoreTyped
<1>2. \A r \in Counted : Adds(commands, r)[1] = 0
  <2>1. \A r \in Counted : Adds(commands, r)[1] = (IF commands[1].op = r THEN commands[1].by ELSE 0)
    BY <1>1, DueFacts
  <2> QED BY <2>1 DEF Writes, Counted
<1> QED BY <1>1, <1>2 DEF SeenBy, AddsTo, Writes

(* The writes for the message that the relay handles.                      *)
LEMMA RelayFacts ==
  ASSUME Typed, RelaySettlement
  PROVE  \E w \in Seq(Command) :
           /\ w \in Seq(Write) /\ Len(w) # 0 /\ w[Len(w)] = [op |-> "seen", by |-> inbox[1].n]
           /\ \A i \in 1..(Len(w) - 1) : w[i].op \in Counted
           /\ \A r \in Counted : Total(Adds(w, r)) = inbox[1].settled[r]
           /\ \/ commands' = commands \o w /\ dropped' = dropped
              \/ commands' = commands /\ dropped' = TRUE
<1>1. inbox # <<>> /\ Head(inbox) = inbox[1] /\ inbox[1] \in Settlement
  BY HeadSettlement DEF RelaySettlement
<1>2. PICK w : w = Increments(inbox[1])
  OBVIOUS
<1>3. "won" \in Counted
  BY DEF Counted
<1>4. /\ w \in Seq(Write) /\ w \in Seq(Command) /\ Len(w) \in Nat \ {0}
      /\ w[Len(w)] = [op |-> "seen", by |-> inbox[1].n]
      /\ \A i \in 1..(Len(w) - 1) : w[i].op \in Counted
  BY <1>1, <1>2, <1>3, IncrementsFacts
<1>5. \A r \in Counted : Total(Adds(w, r)) = inbox[1].settled[r]
  BY <1>1, <1>2, IncrementsFacts
<1>6. \/ commands' = commands \o w /\ dropped' = dropped
      \/ commands' = commands /\ dropped' = TRUE
  BY <1>1, <1>2 DEF RelaySettlement
<1> QED BY <1>4, <1>5, <1>6

(* The steps that leave the queue and the ledger alone.                    *)
LEMMA QueueCases ==
  ASSUME Next
  PROVE  \/ UNCHANGED <<inbox, commands, seen, outcomes, published, heard, dropped>>
         \/ RelaySettlement \/ RunWrite \/ RunRead \/ CommandFails \/ Crash \/ Quit
         \/ \E b \in Batches : Publish(b)
         \/ \E p \in Polls : handleStats(p)
<1> USE DEF redisVars, relayVars
<1>1. CASE \E status \in Fits : Calibrate(status)
  BY <1>1 DEF Calibrate
<1>2. CASE Start \/ Sigterm
  BY <1>2 DEF Start, Sigterm
<1>3. CASE submit \/ LoginFails \/ handleLogin \/ logout \/ LoggedOut \/ Expire
             \/ \E ok \in BOOLEAN : handleTokenIssue(ok)
  BY <1>3 DEF submit, LoginFails, handleLogin, logout, LoggedOut, Expire, handleTokenIssue
<1>4. CASE Connect \/ Disconnect \/ OnSettlement
  BY <1>4 DEF Connect, Disconnect, OnSettlement
<1>5. CASE \E p \in Polls : Reject(p) \/ Poll(p) \/ PollFails(p) \/ Polled(p)
  BY <1>5 DEF Reject, Poll, PollFails, Polled
<1> QED BY <1>1, <1>2, <1>3, <1>4, <1>5 DEF Next

LEMMA QueueStep ==
  ASSUME Typed, QueueInv, Next
  PROVE  QueueInv'
<1>1. /\ commands \in Seq(Command) /\ seen \in Nat /\ inbox \in Seq(Settlement) /\ published \in Nat
      /\ QueueOK(commands, seen, inbox, published)
  BY AdminConsoleAssumption DEF Typed, StoreTyped, QueueInv
<1>2. CASE UNCHANGED <<inbox, commands, seen, outcomes, published, heard, dropped>>
  BY <1>1, <1>2 DEF QueueInv
<1>3. CASE RelaySettlement
  <2>1. PICK w \in Seq(Command) :
          /\ Len(w) # 0 /\ w[Len(w)] = [op |-> "seen", by |-> inbox[1].n]
          /\ \A i \in 1..(Len(w) - 1) : w[i].op \in Counted
          /\ commands' = commands \o w \/ commands' = commands
    BY <1>3, RelayFacts
  <2>2. inbox # <<>> /\ inbox' = Tail(inbox) /\ seen' = seen /\ published' = published
    BY <1>3 DEF RelaySettlement, redisVars
  <2>3. QueueOK(commands, seen, Tail(inbox), published)
            /\ QueueOK(commands \o w, seen, Tail(inbox), published)
    BY <1>1, <2>1, <2>2, QueueOfRelay
  <2> QED BY <2>1, <2>2, <2>3 DEF QueueInv
<1>4. CASE RunWrite
  <2>1. inbox' = inbox /\ published' = published
    BY <1>4 DEF RunWrite
  <2> QED BY <1>1, <1>4, <2>1, RunWriteFacts, QueueOfTail DEF QueueInv
<1>5. CASE RunRead \/ CommandFails
  <2>1. commands # <<>> /\ seen' = seen /\ inbox' = inbox /\ published' = published
    BY <1>5 DEF RunRead, CommandFails, redisVars
  <2>2. QueueOK(Tail(commands), seen, inbox, published) /\ Tail(commands) \in Seq(Command)
    BY <1>1, <2>1, QueueOfTail, Positions
  <2>3. \/ commands' = Tail(commands)
        \/ \E p \in Polls : commands' = Append(Tail(commands), Later(p))
    BY <1>5, RunReadFacts, CommandFailsFacts
  <2>4. \A p \in Polls : Later(p) \in Read
    BY DEF Later, Read
  <2> QED BY <1>1, <2>1, <2>2, <2>3, <2>4, QueueOfRead DEF QueueInv
<1>6. CASE Crash \/ Quit
  <2>1. commands' = <<>> /\ inbox' = <<>> /\ seen' = seen /\ published' = published
    BY <1>6 DEF Crash, Quit, Exit, redisVars
  <2>2. QueueOK(<<>>, seen, <<>>, published)
    BY <1>1 DEF QueueOK, Rising, Below, SeenAt
  <2> QED BY <2>1, <2>2 DEF QueueInv
<1>7. ASSUME NEW b \in Batches, Publish(b)
      PROVE  QueueInv'
  <2>1. PICK f : f = [n |-> published + 1, settled |-> b]
    OBVIOUS
  <2>2. /\ commands' = commands /\ seen' = seen /\ published' = published + 1
        /\ inbox' = inbox \/ inbox' = Append(inbox, f)
    BY <1>7, <2>1 DEF Publish, redisVars
  <2>3. f.n = published + 1
    BY <2>1
  <2>4. QueueOK(commands, seen, inbox, published + 1)
        /\ QueueOK(commands, seen, Append(inbox, f), published + 1)
    BY <1>1, <2>3, QueueOfPublish
  <2> QED BY <2>2, <2>4 DEF QueueInv
<1>8. ASSUME NEW p \in Polls, handleStats(p)
      PROVE  QueueInv'
  <2>1. PICK c : c = [op |-> "read ledger", poll |-> p]
    OBVIOUS
  <2>2. /\ commands' = Append(commands, c) /\ seen' = seen /\ published' = published
            /\ inbox' = inbox
        /\ c \in Read
    BY <1>8, <2>1 DEF handleStats, redisVars, Read
  <2> QED BY <1>1, <2>2, QueueOfRead DEF QueueInv
<1> QED BY <1>2, <1>3, <1>4, <1>5, <1>6, <1>7, <1>8, QueueCases

-----------------------------------------------------------------------------
(* The steps: what the page has heard.                                     *)
LEMMA WinsOfTail ==
  ASSUME NEW b \in Seq(Settlement), b # <<>>, NEW r \in Counted
  PROVE  /\ Total(Wins(Tail(b), r)) \in Nat /\ b[1].settled[r] \in Nat
         /\ Total(Wins(b, r)) = b[1].settled[r] + Total(Wins(Tail(b), r))
<1>1. PICK f \in Settlement : f = b[1]
  OBVIOUS
<1>2. Tail(b) \in Seq(Settlement) /\ <<f>> \in Seq(Settlement) /\ <<f>> \o Tail(b) = b
  BY <1>1
<1>3. /\ Total(Wins(Tail(b), r)) \in Nat
      /\ Total(Wins(<<f>> \o Tail(b), r)) = Total(Wins(<<f>>, r)) + Total(Wins(Tail(b), r))
  BY <1>2, TotalWins
<1>4. Total(Wins(<<f>>, r)) = f.settled[r] /\ f.settled[r] \in Nat
  BY WinsOfOne, SettlementFacts
<1> QED BY <1>1, <1>2, <1>3, <1>4

LEMMA WinsOfPrefix ==
  ASSUME NEW b \in Seq(Settlement), NEW k \in 0..Len(b), NEW r \in Counted
  PROVE  Total(Wins(SubSeq(b, 1, k), r)) \in Nat
             /\ Total(Wins(SubSeq(b, 1, k), r)) <= Total(Wins(b, r))
<1>1. PICK a : a = SubSeq(b, 1, k)
  OBVIOUS
<1>2. /\ a \in Seq(Settlement) /\ Len(a) = k /\ Len(b) \in Nat /\ k \in Nat /\ k <= Len(b)
      /\ \A i \in 1..k : a[i] = b[i]
  BY <1>1
<1>3. PICK v \in Seq(Nat) : v = Wins(b, r) /\ Len(v) = Len(b)
  BY WinsOfConcat
<1>4. PICK u \in Seq(Nat) : u = Wins(a, r) /\ Len(u) = k
  BY <1>2, WinsOfConcat
<1>5. SubSeq(v, 1, k) \in Seq(Nat) /\ Len(SubSeq(v, 1, k)) = k
          /\ \A i \in 1..k : SubSeq(v, 1, k)[i] = v[i]
  BY <1>2, <1>3
<1>6. \A i \in 1..k : u[i] = v[i]
  BY <1>2, <1>3, <1>4 DEF Wins
<1>7. u = SubSeq(v, 1, k)
  BY <1>4, <1>5, <1>6, SeqEqual
<1>8. Total(SubSeq(v, 1, k)) <= Total(v) /\ Total(u) \in Nat
  BY <1>2, <1>3, TotalOfPrefix, Totals
<1> QED BY <1>1, <1>3, <1>4, <1>7, <1>8

(* The page drops settlements at the end of its list, never what it has    *)
(* not counted before.                                                     *)
LEMMA OnSettlementFacts ==
  ASSUME Typed, OnSettlement
  PROVE  /\ wire # <<>> /\ wire' = Tail(wire) /\ history' \in Seq(Settlement)
         /\ history' # <<>> /\ history'[1] = wire[1] /\ wire[1] \in Settlement
         /\ \A r \in Counted :
              /\ Total(Wins(history', r)) \in Nat
              /\ Total(Wins(history', r)) <= wire[1].settled[r] + Total(Wins(history, r))
<1>1. /\ wire \in Seq(Settlement) /\ history \in Seq(Settlement) /\ wire # <<>>
          /\ wire' = Tail(wire)
      /\ Keep \in Nat \ {0}
  BY AdminConsoleAssumption DEF OnSettlement, Typed, PageTyped
<1>2. PICK f \in Settlement : f = wire[1] /\ f = Head(wire)
  BY <1>1
<1>3. PICK all \in Seq(Settlement) : all = <<f>> \o history
  <2>1. <<f>> \in Seq(Settlement)
    OBVIOUS
  <2>2. <<f>> \o history \in Seq(Settlement)
    BY <1>1, <2>1, ConcatProperties
  <2> QED BY <2>2
<1>4. PICK k : k = IF Len(all) < Keep THEN Len(all) ELSE Keep
  OBVIOUS
<1>5. /\ Len(all) \in Nat /\ Len(all) # 0 /\ all[1] = f /\ k \in 1..Len(all) /\ k \in 0..Len(all)
  <2>1. Len(all) = 1 + Len(history) /\ Len(history) \in Nat /\ all[1] = f
    BY <1>1, <1>3
  <2> QED BY <1>1, <1>4, <2>1
<1>6. history' = SubSeq(all, 1, k)
  BY <1>2, <1>3, <1>4 DEF OnSettlement
<1>7. history' \in Seq(Settlement) /\ history' # <<>> /\ history'[1] = f
  <2>1. /\ SubSeq(all, 1, k) \in Seq(Settlement) /\ Len(SubSeq(all, 1, k)) = k
        /\ \A i \in 1..k : SubSeq(all, 1, k)[i] = all[i]
    BY <1>3, <1>5
  <2>2. 1 \in 1..k /\ k # 0
    BY <1>5
  <2> QED BY <1>5, <1>6, <2>1, <2>2
<1>8. ASSUME NEW r \in Counted
      PROVE  /\ Total(Wins(history', r)) \in Nat
             /\ Total(Wins(history', r)) <= f.settled[r] + Total(Wins(history, r))
  <2>1. <<f>> \in Seq(Settlement)
    OBVIOUS
  <2>2. Total(Wins(all, r)) = Total(Wins(<<f>>, r)) + Total(Wins(history, r))
    BY <1>1, <1>3, <2>1, TotalWins
  <2>3. Total(Wins(<<f>>, r)) = f.settled[r]
    BY WinsOfOne
  <2> QED BY <1>5, <1>6, <2>2, <2>3, WinsOfPrefix
<1> QED BY <1>1, <1>2, <1>7, <1>8

LEMMA PageInvStep ==
  ASSUME Typed, PageInv, Next
  PROVE  PageInv'
<1> DEFINE H(r) == Total(Wins(history, r))
           W(r) == Total(Wins(wire, r))
<1>1. /\ wire \in Seq(Settlement) /\ history \in Seq(Settlement) /\ heard \in [Counted -> Nat]
      /\ \A r \in Counted : H(r) \in Nat /\ W(r) \in Nat /\ heard[r] \in Nat
          /\ H(r) + W(r) <= heard[r]
  <2>1. wire \in Seq(Settlement) /\ history \in Seq(Settlement) /\ heard \in [Counted -> Nat]
    BY DEF Typed, PageTyped, StoreTyped
  <2>2. \A r \in Counted : H(r) \in Nat /\ W(r) \in Nat
    BY <2>1, TotalWins
  <2> QED BY <2>1, <2>2 DEF PageInv
<1>2. CASE UNCHANGED <<wire, history, heard>>
  BY <1>2 DEF PageInv
<1>3. CASE RelaySettlement
  <2>1. PICK f \in Settlement : f = Head(inbox)
    BY <1>3, HeadSettlement DEF RelaySettlement
  <2>2. /\ heard' = Plus(heard, f.settled) /\ history' = history
        /\ wire' = Append(wire, f) \/ wire' = wire
    BY <1>3, <2>1 DEF RelaySettlement
  <2>3. ASSUME NEW r \in Counted
        PROVE  /\ heard'[r] = heard[r] + f.settled[r] /\ f.settled[r] \in Nat
               /\ Total(Wins(Append(wire, f), r)) = W(r) + f.settled[r]
    <3>1. heard'[r] = heard[r] + f.settled[r] /\ f.settled[r] \in Nat
      BY <1>1, <2>2, PlusTyped, SettlementFacts
    <3>2. <<f>> \in Seq(Settlement) /\ Append(wire, f) = wire \o <<f>>
      BY <1>1, OneMore
    <3>3. Total(Wins(wire \o <<f>>, r)) = W(r) + Total(Wins(<<f>>, r))
      BY <1>1, <3>2, TotalWins
    <3>4. Total(Wins(<<f>>, r)) = f.settled[r]
      BY WinsOfOne
    <3> QED BY <3>1, <3>2, <3>3, <3>4
  <2>4. ASSUME NEW r \in Counted
        PROVE  Total(Wins(history', r)) + Total(Wins(wire', r)) <= heard'[r]
    <3> HIDE DEF H, W
    <3>1. Total(Wins(history', r)) = H(r)
      BY <2>2 DEF H
    <3>2. Total(Wins(wire', r)) = W(r) \/ Total(Wins(wire', r)) = W(r) + f.settled[r]
      BY <2>2, <2>3 DEF W
    <3> QED BY <1>1, <2>3, <3>1, <3>2
  <2> QED BY <2>4 DEF PageInv
<1>4. CASE OnSettlement
  <2>1. heard' = heard
    BY <1>4 DEF OnSettlement, relayVars
  <2>2. ASSUME NEW r \in Counted
        PROVE  Total(Wins(history', r)) + Total(Wins(wire', r)) <= heard[r]
    <3>1. /\ Total(Wins(history', r)) \in Nat
          /\ Total(Wins(history', r)) <= wire[1].settled[r] + H(r)
          /\ wire # <<>> /\ wire' = Tail(wire)
      BY <1>4, OnSettlementFacts
    <3>2. /\ Total(Wins(Tail(wire), r)) \in Nat /\ wire[1].settled[r] \in Nat
          /\ W(r) = wire[1].settled[r] + Total(Wins(Tail(wire), r))
      BY <1>1, <3>1, WinsOfTail
    <3> HIDE DEF H, W
    <3>3. PICK a, b, c : /\ a = Total(Wins(history', r)) /\ b = Total(Wins(Tail(wire), r))
                         /\ c = wire[1].settled[r]
      OBVIOUS
    <3>4. /\ a \in Nat /\ b \in Nat /\ c \in Nat
          /\ a <= c + H(r) /\ W(r) = c + b /\ H(r) + W(r) <= heard[r]
          /\ H(r) \in Nat /\ heard[r] \in Nat
      BY <1>1, <3>1, <3>2, <3>3, Zenon
    <3>5. a + b <= heard[r]
      BY <3>4
    <3> QED BY <3>1, <3>3, <3>5
  <2> QED BY <2>1, <2>2 DEF PageInv
<1>5. CASE Disconnect \/ LoggedOut
  <2>1. wire' = <<>> /\ history' = history /\ heard' = heard
    BY <1>5 DEF Disconnect, LoggedOut, relayVars
  <2>2. \A r : Wins(<<>>, r) = <<>>
    BY DEF Wins
  <2>3. \A r : Total(Wins(<<>>, r)) = 0
    BY <2>2, TotalOfOne
  <2>4. \A r \in Counted : Total(Wins(history', r)) + Total(Wins(wire', r)) = H(r)
    BY <1>1, <2>1, <2>3
  <2>5. \A r \in Counted : H(r) <= heard[r]
    <3> HIDE DEF H, W
    <3> QED BY <1>1
  <2> QED BY <2>1, <2>4, <2>5 DEF PageInv
<1>6. UNCHANGED <<wire, history, heard>> \/ RelaySettlement \/ OnSettlement \/ Disconnect
          \/ LoggedOut
  BY DEF Next, Publish, Calibrate, Start, RunWrite, RunRead, CommandFails, Crash, Sigterm, Quit,
    Exit,
    submit, LoginFails, handleLogin, logout, Expire, handleTokenIssue, Connect, Reject, handleStats,
    Poll, PollFails, Polled, relayVars, linkVars
<1> QED BY <1>2, <1>3, <1>4, <1>5, <1>6

-----------------------------------------------------------------------------
(* The steps: the ledger.                                                  *)

(* Commands are issued; the head of the queue runs, and at most one read   *)
(* is issued for it; or the process ends without a write to be lost.       *)
Issues(w) ==
  /\ commands' = commands \o w /\ seen' = seen /\ outcomes' = outcomes
  /\ \A r \in Counted : heard'[r] = heard[r] + Total(Adds(w, r))

Runs(w) ==
  /\ commands # <<>> /\ commands' = Tail(commands) \o w
  /\ seen' = SeenBy(commands, seen) /\ AddsTo(commands, outcomes, outcomes')
  /\ heard' = heard /\ \A r \in Counted : Total(Adds(w, r)) = 0

Ends ==
  /\ commands' = <<>> /\ seen' = seen /\ outcomes' = outcomes /\ heard' = heard
  /\ \A i \in 1..Len(commands) : commands[i].op \notin Writes

LEMMA ReadsAddNothing ==
  /\ <<>> \in Seq(Command) /\ \A r \in Counted : Total(Adds(<<>>, r)) = 0
  /\ \A c \in Read : c \in Command /\ <<c>> \in Seq(Command)
                     /\ \A r \in Counted : Total(Adds(<<c>>, r)) = 0
<1>1. <<>> \in Seq(Command) /\ \A i \in 1..Len(<<>>) : <<>>[i].op \notin Writes
  OBVIOUS
<1>2. ASSUME NEW c \in Read
      PROVE  c \in Command /\ <<c>> \in Seq(Command)
                 /\ \A i \in 1..Len(<<c>>) : <<c>>[i].op \notin Writes
  <2>1. c \in Command /\ c.op \notin Writes
    BY DEF Command, Read, Writes
  <2> QED BY <2>1
<1>3. ASSUME NEW s \in Seq(Command), \A i \in 1..Len(s) : s[i].op \notin Writes, NEW r \in Counted
      PROVE  Total(Adds(s, r)) = 0
  BY <1>3, NothingDue, DueOfConcat
<1>4. \A r \in Counted : Total(Adds(<<>>, r)) = 0
  BY <1>1, <1>3
<1>5. \A c \in Read : \A r \in Counted : Total(Adds(<<c>>, r)) = 0
  BY <1>2, <1>3
<1> QED BY <1>1, <1>2, <1>4, <1>5

LEMMA DroppedStays ==
  ASSUME Next, ~dropped'
  PROVE  ~dropped
BY DEF Next, Publish, Calibrate, Start, RelaySettlement, RunWrite, RunRead, CommandFails, Crash,
  Quit,
  Sigterm, submit, LoginFails, handleLogin, logout, LoggedOut, Expire, handleTokenIssue, Connect,
  Disconnect, OnSettlement, Reject, handleStats, Poll, PollFails, Polled, relayVars

LEMMA StillMoves ==
  ASSUME Typed, UNCHANGED <<commands, seen, outcomes, heard>>
  PROVE  Issues(<<>>) /\ <<>> \in Seq(Command)
<1>1. commands \in Seq(Command) /\ heard \in [Counted -> Nat]
  BY DEF Typed, StoreTyped
<1>2. commands \o <<>> = commands
  BY <1>1, ConcatEmptySeq
<1>3. \A r \in Counted : Total(Adds(<<>>, r)) = 0 /\ heard[r] \in Nat
  BY <1>1, ReadsAddNothing
<1>4. \A r \in Counted : heard'[r] = heard[r] + Total(Adds(<<>>, r))
  BY <1>3
<1> QED BY <1>2, <1>4, ReadsAddNothing DEF Issues

LEMMA RelayMoves ==
  ASSUME Typed, RelaySettlement, ~dropped'
  PROVE  \E w \in Seq(Command) :
           /\ Issues(w) /\ w \in Seq(Write) /\ Len(w) # 0
           /\ w[Len(w)] = [op |-> "seen", by |-> inbox[1].n]
<1>1. PICK w \in Seq(Command) :
        /\ \A r \in Counted : Total(Adds(w, r)) = inbox[1].settled[r]
        /\ w \in Seq(Write) /\ Len(w) # 0 /\ w[Len(w)] = [op |-> "seen", by |-> inbox[1].n]
        /\ commands' = commands \o w
  BY RelayFacts
<1>2. PICK f \in Settlement : f = inbox[1] /\ f = Head(inbox)
  BY HeadSettlement DEF RelaySettlement
<1>3. seen' = seen /\ outcomes' = outcomes /\ heard' = Plus(heard, f.settled)
  BY <1>2 DEF RelaySettlement, redisVars
<1>4. \A r \in Counted : heard'[r] = heard[r] + f.settled[r]
  BY <1>3, PlusTyped DEF Typed, StoreTyped
<1>5. \A r \in Counted : heard'[r] = heard[r] + Total(Adds(w, r))
  BY <1>1, <1>2, <1>4
<1> QED BY <1>1, <1>3, <1>5 DEF Issues

LEMMA WriteMoves ==
  ASSUME Typed, RunWrite
  PROVE  Runs(<<>>) /\ <<>> \in Seq(Command)
<1>1. heard' = heard
  BY DEF RunWrite
<1>2. /\ commands # <<>> /\ commands' = Tail(commands)
      /\ seen' = SeenBy(commands, seen) /\ AddsTo(commands, outcomes, outcomes')
  BY RunWriteFacts
<1>3. Tail(commands) \in Seq(Command)
  BY <1>2, HeadCommand
<1>4. Tail(commands) \o <<>> = Tail(commands)
  BY <1>3, ConcatEmptySeq
<1> QED BY <1>1, <1>2, <1>4, ReadsAddNothing DEF Runs

(* A read at the head of the queue is answered, or it fails, or the next   *)
(* read is issued.                                                         *)
LEMMA ReadMoves ==
  ASSUME Typed, RunRead \/ CommandFails, ~dropped'
  PROVE  /\ commands # <<>> /\ commands[1].op \notin Writes
         /\ commands' = Tail(commands) => Runs(<<>>) /\ <<>> \in Seq(Command)
         /\ \A p \in Polls : commands' = Append(Tail(commands), Later(p)) =>
              Runs(<<Later(p)>>) /\ <<Later(p)>> \in Seq(Command)
<1>1. commands # <<>> /\ seen' = seen /\ outcomes' = outcomes /\ heard' = heard
  BY DEF RunRead, CommandFails, redisVars
<1>2. commands[1].op \notin Writes
  BY <1>1, HeadCommand DEF RunRead, CommandFails
<1>3. seen' = SeenBy(commands, seen) /\ AddsTo(commands, outcomes, outcomes')
  BY <1>1, <1>2, ReadFacts
<1>4. Tail(commands) \in Seq(Command)
  BY <1>1, HeadCommand
<1>5. Tail(commands) \o <<>> = Tail(commands)
  BY <1>4, ConcatEmptySeq
<1>6. commands' = Tail(commands) => Runs(<<>>)
  BY <1>1, <1>3, <1>5, ReadsAddNothing DEF Runs
<1>7. ASSUME NEW p \in Polls, commands' = Append(Tail(commands), Later(p))
      PROVE  Runs(<<Later(p)>>) /\ <<Later(p)>> \in Seq(Command)
  <2>1. Later(p) \in Read
    BY DEF Later, Read
  <2>2. Append(Tail(commands), Later(p)) = Tail(commands) \o <<Later(p)>>
    BY <1>4, <2>1, OneMore, ReadsAddNothing
  <2> QED BY <1>1, <1>3, <1>7, <2>1, <2>2, ReadsAddNothing DEF Runs
<1> QED BY <1>1, <1>2, <1>6, <1>7, ReadsAddNothing

First(p) == [op |-> "read ledger", poll |-> p]

LEMMA StatsMoves ==
  ASSUME Typed, NEW p \in Polls, handleStats(p)
  PROVE  Issues(<<First(p)>>) /\ <<First(p)>> \in Seq(Command) /\ heard' = heard
<1>1. First(p) \in Read
  BY DEF First, Read
<1>2. /\ commands' = Append(commands, First(p))
      /\ seen' = seen /\ outcomes' = outcomes /\ heard' = heard
  BY DEF handleStats, redisVars, First
<1>3. commands \in Seq(Command) /\ heard \in [Counted -> Nat]
  BY DEF Typed, StoreTyped
<1>4. commands' = commands \o <<First(p)>>
  BY <1>1, <1>2, <1>3, OneMore, ReadsAddNothing
<1>5. \A r \in Counted : Total(Adds(<<First(p)>>, r)) = 0 /\ heard[r] \in Nat
  BY <1>1, <1>3, ReadsAddNothing
<1>6. \A r \in Counted : heard'[r] = heard[r] + Total(Adds(<<First(p)>>, r))
  BY <1>2, <1>5
<1> QED BY <1>1, <1>2, <1>4, <1>6, ReadsAddNothing DEF Issues

LEMMA ExitMoves ==
  ASSUME Typed, Crash \/ Quit, ~dropped'
  PROVE  Ends
<1>1. commands' = <<>> /\ seen' = seen /\ outcomes' = outcomes /\ heard' = heard
  BY DEF Crash, Quit, Exit, redisVars
<1>2. \A i \in 1..Len(commands) : commands[i].op \notin Writes
  <2>1. CASE Crash
    <3>1. dropped' = (dropped \/ \E i \in DOMAIN commands : commands[i].op \in Writes)
      BY <2>1 DEF Crash
    <3>2. ~\E i \in DOMAIN commands : commands[i].op \in Writes
      BY <3>1, Zenon
    <3>3. commands \in Seq(Command)
      BY DEF Typed, StoreTyped
    <3> QED BY <3>2, <3>3
  <2>2. CASE Quit
    BY <2>2 DEF Quit
  <2> QED BY <2>1, <2>2
<1> QED BY <1>1, <1>2 DEF Ends

LEMMA Moves ==
  ASSUME Typed, Next, ~dropped'
  PROVE  (\E w \in Seq(Command) : Issues(w) \/ Runs(w)) \/ Ends
<1>1. CASE UNCHANGED <<commands, seen, outcomes, heard>>
  BY <1>1, StillMoves
<1>2. CASE RelaySettlement
  BY <1>2, RelayMoves
<1>3. CASE RunWrite
  BY <1>3, WriteMoves
<1>4. CASE RunRead \/ CommandFails
  <2>1. \/ commands' = Tail(commands)
        \/ \E p \in Polls : commands' = Append(Tail(commands), Later(p))
    BY <1>4, RunReadFacts, CommandFailsFacts
  <2> QED BY <1>4, <2>1, ReadMoves
<1>5. CASE Crash \/ Quit
  BY <1>5, ExitMoves
<1>6. ASSUME NEW b \in Batches, Publish(b)
      PROVE  UNCHANGED <<commands, seen, outcomes, heard>>
  BY <1>6 DEF Publish, redisVars
<1>7. ASSUME NEW p \in Polls, handleStats(p)
      PROVE  \E w \in Seq(Command) : Issues(w)
  BY <1>7, StatsMoves
<1> QED BY <1>1, <1>2, <1>3, <1>4, <1>5, <1>6, <1>7, QueueCases

LEMMA LedgerStep ==
  ASSUME Typed, QueueInv, Next, ~dropped', Counts(commands, seen, outcomes, heard)
  PROVE  /\ Counts(commands', seen', outcomes', heard')
         /\ \A n \in Nat : Reached(commands, seen, n, Len(commands) + 1)
                             => Reached(commands', seen', n, Len(commands') + 1)
<1>1. /\ commands \in Seq(Command) /\ seen \in Nat /\ outcomes \in [Counted -> Nat]
      /\ heard \in [Counted -> Nat] /\ Rising(commands, seen)
  BY AdminConsoleAssumption DEF Typed, StoreTyped, QueueInv, QueueOK
<1>2. outcomes' \in [Counted -> Nat] /\ seen' \in Nat
  <2>1. StoreTyped'
    BY StoreStep
  <2> QED BY <2>1, AdminConsoleAssumption DEF StoreTyped
<1>3. ASSUME NEW w \in Seq(Command), Issues(w)
      PROVE  /\ Counts(commands \o w, seen, outcomes, heard')
             /\ \A n \in Nat : Reached(commands, seen, n, Len(commands) + 1)
                                 => Reached(commands \o w, seen, n, Len(commands \o w) + 1)
  <2>1. \A r \in Counted : heard'[r] = heard[r] + Total(Adds(w, r))
    BY <1>3 DEF Issues
  <2>2. Counts(commands \o w, seen, outcomes, heard')
    BY <1>1, <2>1, CountsOfConcat
  <2> QED BY <1>1, <2>2, ReachedLater
<1>4. ASSUME NEW w \in Seq(Command), Runs(w)
      PROVE  /\ Counts(Tail(commands) \o w, seen', outcomes', heard)
             /\ \A n \in Nat : Reached(commands, seen, n, Len(commands) + 1)
                                
                                => Reached(Tail(commands) \o w, seen', n, Len(Tail(commands) \o w) + 1)
  <2>1. /\ commands # <<>> /\ seen' = SeenBy(commands, seen)
            /\ AddsTo(commands, outcomes, outcomes')
        /\ \A r \in Counted : Total(Adds(w, r)) = 0
    BY <1>4 DEF Runs
  <2>2. PICK t \in Seq(Command) : t = Tail(commands)
    BY <1>1, <2>1, Positions
  <2>3. Counts(t, seen', outcomes', heard)
    BY <1>1, <1>2, <2>1, <2>2, CountsOfTail
  <2>4. \A r \in Counted : heard[r] = heard[r] + Total(Adds(w, r))
    BY <1>1, <2>1
  <2>5. Counts(t \o w, seen', outcomes', heard)
    BY <1>2, <2>3, <2>4, CountsOfConcat
  <2>6. ASSUME NEW n \in Nat, Reached(commands, seen, n, Len(commands) + 1)
        PROVE  Reached(t \o w, seen', n, Len(t \o w) + 1)
    <3>1. Reached(t, seen', n, Len(t) + 1)
      BY <1>1, <2>1, <2>2, <2>6, ReachedLater
    <3> QED BY <1>2, <3>1, ReachedLater
  <2> QED BY <2>2, <2>5, <2>6
<1>5. ASSUME Ends
      PROVE  /\ Counts(<<>>, seen, outcomes, heard)
             /\ \A n \in Nat : Reached(commands, seen, n, Len(commands) + 1)
                                 => Reached(<<>>, seen, n, Len(<<>>) + 1)
  <2>1. \A i \in 1..Len(commands) : commands[i].op \notin Writes
    BY <1>5 DEF Ends
  <2>2. \A j : ~SeenAt(commands, j)
    BY <2>1 DEF SeenAt, Writes
  <2>3. \A n \in Nat : Reached(commands, seen, n, Len(commands) + 1)
                         => Reached(<<>>, seen, n, Len(<<>>) + 1)
    BY <2>2 DEF Reached
  <2>4. ASSUME NEW r \in Counted
        PROVE  outcomes[r] + Due(<<>>, r, Len(<<>>)) = heard[r]
    <3>1. Due(commands, r, Len(commands)) = 0
      BY <1>1, <2>1, NothingDue
    <3>2. Due(<<>>, r, Len(<<>>)) = 0
      BY ReadsAddNothing, DueFacts
    <3> QED BY <3>1, <3>2 DEF Counts
  <2>5. Counts(<<>>, seen, outcomes, heard)
    BY <2>3, <2>4 DEF Counts
  <2> QED BY <2>3, <2>5
<1>6. CASE \E w \in Seq(Command) : Issues(w)
  <2>1. PICK w \in Seq(Command) : Issues(w)
    BY <1>6
  <2>2. commands' = commands \o w /\ seen' = seen /\ outcomes' = outcomes
    BY <2>1 DEF Issues
  <2> QED BY <1>3, <2>1, <2>2
<1>7. CASE \E w \in Seq(Command) : Runs(w)
  <2>1. PICK w \in Seq(Command) : Runs(w)
    BY <1>7
  <2>2. commands' = Tail(commands) \o w /\ heard' = heard
    BY <2>1 DEF Runs
  <2> QED BY <1>4, <2>1, <2>2
<1>8. CASE Ends
  <2>1. commands' = <<>> /\ seen' = seen /\ outcomes' = outcomes /\ heard' = heard
    BY <1>8 DEF Ends
  <2> QED BY <1>5, <1>8, <2>1
<1> QED BY <1>6, <1>7, <1>8, Moves

(* A settlement is told after its writes have been issued.                 *)
LEMMA ToldStep ==
  ASSUME Typed, QueueInv, Next, ~dropped', Counts(commands, seen, outcomes, heard),
         Told(commands, seen)
  PROVE  Told(commands, seen)'
<1> DEFINE Ok(n) == Reached(commands', seen', n, Len(commands') + 1)
<1>1. wire \in Seq(Settlement) /\ history \in Seq(Settlement)
  BY DEF Typed, PageTyped
<1>2. /\ \A i \in 1..Len(wire) : wire[i] \in Settlement /\ wire[i].n \in Nat
      /\ history # <<>> => history[1].n \in Nat
  BY <1>1, SettlementFacts
<1>3. (\A i \in 1..Len(wire) : Ok(wire[i].n)) /\ (history # <<>> => Ok(history[1].n))
  BY <1>2, LedgerStep DEF Told
<1> SUFFICES (\A i \in 1..Len(wire') : Ok(wire'[i].n)) /\ (history' # <<>> => Ok(history'[1].n))
  BY DEF Told
<1>4. CASE RelaySettlement
  <2>1. PICK w \in Seq(Command) :
          /\ Len(w) # 0 /\ w[Len(w)] = [op |-> "seen", by |-> inbox[1].n]
              /\ commands' = commands \o w
    BY <1>4, RelayFacts
  <2>2. PICK f \in Settlement : f = inbox[1] /\ f = Head(inbox)
    BY <1>4, HeadSettlement DEF RelaySettlement
  <2>3. history' = history /\ (wire' = Append(wire, f) \/ wire' = wire)
    BY <1>4, <2>2 DEF RelaySettlement
  <2>4. Ok(f.n)
    <3>1. commands \in Seq(Command)
      BY DEF Typed, StoreTyped
    <3>2. /\ Len(commands') = Len(commands) + Len(w) /\ Len(commands) \in Nat /\ Len(w) \in Nat
          /\ commands'[Len(commands) + Len(w)] = w[Len(w)]
      <4>1. Len(w) \in 1..Len(w)
        BY <2>1
      <4> QED BY <2>1, <3>1, <4>1, PositionsOfConcat
    <3>3. Len(commands') \in 1..(Len(commands') + 1 - 1) /\ Len(commands') \in 1..Len(commands')
      BY <2>1, <3>2
    <3>4. commands'[Len(commands')].op = "seen" /\ commands'[Len(commands')].by = f.n
      BY <2>1, <2>2, <3>2
    <3>5. f.n <= f.n
      BY <2>2, SettlementFacts
    <3> QED BY <3>3, <3>4, <3>5 DEF Reached, SeenAt
  <2> HIDE DEF Ok
  <2>5. \A i \in 1..Len(Append(wire, f)) : Ok(Append(wire, f)[i].n)
    <3>1. /\ Len(Append(wire, f)) = Len(wire) + 1 /\ Len(wire) \in Nat
          /\ \A i \in 1..Len(wire) : Append(wire, f)[i] = wire[i]
          /\ Append(wire, f)[Len(wire) + 1] = f
      BY <1>1
    <3>2. \A i \in 1..(Len(wire) + 1) : i \in 1..Len(wire) \/ i = Len(wire) + 1
      BY <3>1
    <3> QED BY <1>3, <2>4, <3>1, <3>2
  <2> QED BY <1>3, <2>3, <2>5
<1>5. CASE OnSettlement
  <2>1. wire # <<>> /\ wire' = Tail(wire) /\ history'[1] = wire[1]
    BY <1>5, OnSettlementFacts
  <2>2. 1 \in 1..Len(wire) /\ \A i \in 1..Len(Tail(wire)) : i + 1 \in 1..Len(wire)
            /\ Tail(wire)[i] = wire[i + 1]
    BY <1>1, <2>1
  <2> HIDE DEF Ok
  <2> QED BY <1>3, <2>1, <2>2
<1>6. CASE Disconnect \/ LoggedOut
  <2>1. wire' = <<>> /\ history' = history
    BY <1>6 DEF Disconnect, LoggedOut
  <2> HIDE DEF Ok
  <2> QED BY <1>3, <2>1
<1>7. CASE UNCHANGED <<wire, history>>
  <2> HIDE DEF Ok
  <2> QED BY <1>3, <1>7
<1>8. UNCHANGED <<wire, history>> \/ RelaySettlement \/ OnSettlement \/ Disconnect \/ LoggedOut
  BY DEF Next, Publish, Calibrate, Start, RunWrite, RunRead, CommandFails, Crash, Sigterm, Quit,
    Exit,
    submit, LoginFails, handleLogin, logout, Expire, handleTokenIssue, Connect, Reject, handleStats,
    Poll, PollFails, Polled, linkVars
<1> QED BY <1>4, <1>5, <1>6, <1>7, <1>8

-----------------------------------------------------------------------------
(* The steps: the polls.                                                   *)

(* What the relay has heard only grows.                                    *)
LEMMA HeardGrows ==
  ASSUME Typed, Next
  PROVE  /\ heard \in [Counted -> Nat] /\ heard' \in [Counted -> Nat]
         /\ \A r \in Counted : heard[r] <= heard'[r]
<1>1. heard \in [Counted -> Nat]
  BY DEF Typed, StoreTyped
<1>2. heard' \in [Counted -> Nat]
  BY StoreStep DEF StoreTyped
<1>3. CASE heard' = heard
  BY <1>1, <1>3
<1>4. CASE RelaySettlement
  <2>1. PICK f \in Settlement : f = Head(inbox)
    BY <1>4, HeadSettlement DEF RelaySettlement
  <2>2. heard' = Plus(heard, f.settled)
    BY <1>4, <2>1 DEF RelaySettlement
  <2>3. \A r \in Counted : heard'[r] = heard[r] + f.settled[r] /\ f.settled[r] \in Nat
    BY <1>1, <2>2, PlusTyped, SettlementFacts
  <2> QED BY <1>1, <1>2, <2>3
<1>5. heard' = heard \/ RelaySettlement
  BY DEF Next, Publish, Calibrate, Start, RunWrite, RunRead, CommandFails, Crash, Sigterm, Quit,
    Exit,
    submit, LoginFails, handleLogin, logout, LoggedOut, Expire, handleTokenIssue, Connect,
    Disconnect,
    OnSettlement, Reject, handleStats, Poll, PollFails, Polled, relayVars
<1> QED BY <1>2, <1>3, <1>4, <1>5

(* The polls that a step does not touch, when the commands it issues do    *)
(* not ask for them.                                                       *)
LEMMA AskedStays ==
  ASSUME Typed, QueueInv, Next, ~dropped', NEW p, NEW n, NEW x \in PollType(n),
         Asked(commands, seen, outcomes, heard, x, p)
  PROVE  /\ \A w \in Seq(Command) : Issues(w) /\ (\A j \in 1..Len(w) : ~AsksFor(w[j], p))
                => Asked(commands', seen', outcomes', heard', x, p)
         /\ \A w \in Seq(Command) : Runs(w) /\ (\A j \in 1..Len(w) : ~AsksFor(w[j], p))
                => Asked(commands', seen', outcomes', heard', x, p)
<1>1. /\ commands \in Seq(Command) /\ seen \in Nat /\ outcomes \in [Counted -> Nat]
      /\ heard \in [Counted -> Nat] /\ Rising(commands, seen)
  BY AdminConsoleAssumption DEF Typed, StoreTyped, QueueInv, QueueOK
<1>2. outcomes' \in [Counted -> Nat] /\ seen' \in Nat
  <2>1. StoreTyped'
    BY StoreStep
  <2> QED BY <2>1, AdminConsoleAssumption DEF StoreTyped
<1>3. heard' \in [Counted -> Nat] /\ \A r \in Counted : heard[r] <= heard'[r]
          /\ heard[r] <= heard[r]
  BY <1>1, HeardGrows
<1>4. ASSUME NEW w \in Seq(Command), Issues(w), \A j \in 1..Len(w) : ~AsksFor(w[j], p)
      PROVE  Asked(commands', seen', outcomes', heard', x, p)
  <2>1. commands' = commands \o w /\ seen' = seen /\ outcomes' = outcomes
    BY <1>4 DEF Issues
  <2>2. Asked(commands \o w, seen, outcomes, heard', x, p)
    BY <1>1, <1>3, <1>4, AskedOfConcat
  <2> QED BY <2>1, <2>2
<1>5. ASSUME NEW w \in Seq(Command), Runs(w), \A j \in 1..Len(w) : ~AsksFor(w[j], p)
      PROVE  Asked(commands', seen', outcomes', heard', x, p)
  <2>1. /\ commands # <<>> /\ commands' = Tail(commands) \o w /\ seen' = SeenBy(commands, seen)
        /\ AddsTo(commands, outcomes, outcomes') /\ heard' = heard
    BY <1>5 DEF Runs
  <2>2. PICK t \in Seq(Command) : t = Tail(commands)
    BY <1>1, <2>1, Positions
  <2>3. Asked(t, seen', outcomes', heard, x, p)
    BY <1>1, <1>2, <2>1, <2>2, AskedOfTail
  <2>4. Asked(t \o w, seen', outcomes', heard, x, p)
    BY <1>1, <1>2, <1>3, <1>5, <2>3, AskedOfConcat
  <2> QED BY <2>1, <2>2, <2>4
<1> QED BY <1>4, <1>5

(* A poll that is not being read, and not waiting for the relay.           *)
LEMMA AskedElse ==
  ASSUME NEW s, NEW q, NEW o, NEW h, NEW x, NEW p,
         \A k \in 1..Len(s) : ~AsksFor(s[k], p),
         \/ x.at = "idle"
         \/ x.at = "answered" /\ (x.code = "200" => CurrentAt(x, h))
  PROVE  Asked(s, q, o, h, x, p)
BY DEF Asked

(* The answer to a poll keeps what the poll was promised.                  *)
LEMMA ReadInv ==
  ASSUME Typed, QueueInv, Next, ~dropped', RunRead,
         Counts(commands, seen, outcomes, heard), PollsInv(commands, seen, outcomes, heard)
  PROVE  PollsInv(commands, seen, outcomes, heard)'
<1>1. /\ commands \in Seq(Command) /\ seen \in Nat /\ outcomes \in [Counted -> Nat]
      /\ heard \in [Counted -> Nat] /\ poll \in [Polls -> PollType(issued)]
          /\ Rising(commands, seen)
  BY AdminConsoleAssumption DEF Typed, StoreTyped, PollsTyped, QueueInv, QueueOK
<1>2. PICK p \in Polls, x \in PollType(issued) :
        /\ AsksFor(commands[1], p) /\ poll' = [poll EXCEPT ![p] = x] /\ Same(x, poll[p])
        /\ \/ /\ commands[1].op = "read staleness" /\ commands' = Tail(commands)
              /\ x.at = "answered" /\ x.code = "200"
              /\ x.body.outcomes = poll[p].body.outcomes /\ x.body.seen = seen
           \/ /\ commands[1].op = "read ledger" /\ commands' = Append(Tail(commands), Later(p))
              /\ x.at = "reading" /\ x.body.outcomes = outcomes
           \/ /\ commands' = Tail(commands)
              /\ x.at = "answered" /\ x.code = "500"
  BY RunReadFacts
<1>3. /\ commands # <<>> /\ commands[1].op \notin Writes
      /\ commands' = Tail(commands) => Runs(<<>>) /\ <<>> \in Seq(Command)
      /\ commands' = Append(Tail(commands), Later(p)) =>
           Runs(<<Later(p)>>) /\ <<Later(p)>> \in Seq(Command)
  BY ReadMoves
<1>4. PICK t \in Seq(Command) : t = Tail(commands)
  BY <1>1, <1>3, Positions
<1>5. seen' = seen /\ outcomes' = outcomes /\ heard' = heard
  BY DEF RunRead, redisVars
<1>6. Promise(commands, seen, outcomes, heard, poll[p], 1)
  BY <1>1, <1>2, <1>3, Positions DEF PollsInv, Asked
<1>7. poll'[p] = x /\ \A q \in Polls : q # p => poll'[q] = poll[q]
  BY <1>1, <1>2
<1>8. ASSUME NEW q \in Polls, q # p
      PROVE  Asked(commands', seen', outcomes', heard', poll'[q], q)
  <2>1. poll[q] \in PollType(issued) /\ Asked(commands, seen, outcomes, heard, poll[q], q)
    BY <1>1 DEF PollsInv
  <2>2. \A j \in 1..Len(<<Later(p)>>) : ~AsksFor(<<Later(p)>>[j], q)
    <3>1. ~AsksFor(Later(p), q)
      BY <1>8 DEF AsksFor, Later
    <3> QED BY <3>1
  <2>3. \A j \in 1..Len(<<>>) : ~AsksFor(<<>>[j], q)
    OBVIOUS
  <2>4. \/ commands' = Tail(commands) /\ Runs(<<>>)
        \/ Runs(<<Later(p)>>) /\ <<Later(p)>> \in Seq(Command)
    BY <1>2, <1>3
  <2>5. Asked(commands', seen', outcomes', heard', poll[q], q)
    <3>1. CASE commands' = Tail(commands) /\ Runs(<<>>)
      BY <2>1, <2>3, <3>1, AskedStays, ReadsAddNothing
    <3>2. CASE Runs(<<Later(p)>>) /\ <<Later(p)>> \in Seq(Command)
      BY <2>1, <2>2, <3>2, AskedStays
    <3> QED BY <2>4, <3>1, <3>2
  <2> QED BY <1>7, <1>8, <2>5
<1>9. \A k \in 1..Len(t) : ~AsksFor(t[k], p)
  <2>1. 1 \in 1..Len(commands) /\ DOMAIN t = 1..Len(t)
    BY <1>1, <1>3, <1>4, Positions
  <2>2. \A k \in DOMAIN Tail(commands) : ~AsksFor(Tail(commands)[k], p)
    BY <1>2, <1>3, ReadsBehindHead
  <2> QED BY <1>4, <2>1, <2>2
<1>10. seen' = seen /\ \A n : Reached(commands, seen, n, 1) => n <= seen
  BY <1>5 DEF Reached
<1>11. Asked(commands', seen', outcomes', heard', x, p)
  <2>1. CASE /\ commands[1].op = "read staleness" /\ commands' = Tail(commands)
             /\ x.at = "answered" /\ x.code = "200"
             /\ x.body.outcomes = poll[p].body.outcomes /\ x.body.seen = seen
    <3>1. x.base = poll[p].base /\ x.known = poll[p].known
      BY <1>2 DEF Same
    <3>2. \A r \in Counted : x.base[r] <= x.body.outcomes[r] /\ x.body.outcomes[r] <= heard[r]
      BY <1>6, <2>1, <3>1 DEF Promise
    <3>3. x.known <= x.body.seen
      BY <1>6, <1>10, <2>1, <3>1 DEF Promise
    <3>4. x.body.outcomes # Zero => x.body.seen # 0
      <4>1. x.body.outcomes # Zero => 1 <= seen
        BY <1>6, <1>10, <2>1 DEF Promise
      <4>2. x.body.seen = seen
        BY <2>1
      <4> QED BY <4>1, <4>2
    <3>5. CurrentAt(x, heard')
      BY <1>5, <3>2, <3>3, <3>4 DEF CurrentAt
    <3> QED BY <1>4, <1>9, <2>1, <3>5, AskedElse
  <2>2. CASE commands' = Tail(commands) /\ x.at = "answered" /\ x.code = "500"
    BY <1>4, <1>9, <2>2, AskedElse
  <2>3. CASE /\ commands[1].op = "read ledger" /\ commands' = Append(Tail(commands), Later(p))
             /\ x.at = "reading" /\ x.body.outcomes = outcomes
    <3>1. PICK s \in Seq(Command) : s = Append(t, Later(p)) /\ s = commands'
      <4>1. Append(t, Later(p)) = t \o <<Later(p)>> /\ <<Later(p)>> \in Seq(Command)
        <5>1. Later(p) \in Read
          BY DEF Later, Read
        <5>2. Later(p) \in Command /\ <<Later(p)>> \in Seq(Command)
          BY <5>1, ReadsAddNothing
        <5> QED BY <5>2, OneMore
      <4>2. t \o <<Later(p)>> \in Seq(Command)
        BY <4>1, ConcatProperties
      <4> QED BY <1>4, <2>3, <4>1, <4>2
    <3>2. /\ Len(s) = Len(t) + 1 /\ Len(t) \in Nat /\ \A i \in 1..Len(t) : s[i] = t[i]
          /\ s[Len(t) + 1] = Later(p)
      <4>1. PICK c : c = Later(p)
        OBVIOUS
      <4>2. s = Append(t, c)
        BY <3>1, <4>1
      <4> QED BY <4>1, <4>2
    <3>3. \A k \in 1..Len(s) : k \in 1..Len(t) \/ k = Len(t) + 1
      BY <3>2
    <3>4. \A k \in 1..Len(s) : AsksFor(s[k], p) => k = Len(t) + 1
      BY <1>9, <3>2, <3>3
    <3>5. x.base = poll[p].base /\ x.known = poll[p].known /\ x.known \in Nat
      <4>1. x.base = poll[p].base /\ x.known = poll[p].known
        BY <1>2 DEF Same
      <4>2. x.known \in 0..MaxEvents /\ MaxEvents \in Nat
        BY PollFields, AdminConsoleAssumption
      <4> QED BY <4>1, <4>2
    <3>6. Reached(s, seen, x.known, Len(t) + 1)
      BY <1>6, <1>10, <3>5 DEF Promise, Reached
    <3>7. \A r \in Counted : x.base[r] <= x.body.outcomes[r] /\ x.body.outcomes[r] <= heard[r]
      <4>1. ASSUME NEW r \in Counted
            PROVE  x.base[r] <= outcomes[r] /\ outcomes[r] <= heard[r]
        <5>1. poll[p].base[r] <= outcomes[r] + Due(commands, r, 1 - 1)
          BY <1>6, <2>3 DEF Promise
        <5>2. Due(commands, r, 0) = 0 /\ Due(commands, r, Len(commands)) \in Nat
          <6>1. Len(commands) \in 0..Len(commands)
            BY <1>1
          <6> QED BY <1>1, <6>1, DueFacts
        <5>3. outcomes[r] + Due(commands, r, Len(commands)) = heard[r]
          BY DEF Counts
        <5>4. outcomes[r] \in Nat
          BY <1>1
        <5> QED BY <3>5, <5>1, <5>2, <5>3, <5>4
      <4> QED BY <2>3, <4>1
    <3>8. x.body.outcomes # Zero => Reached(s, seen, 1, Len(t) + 1)
      <4>1. ASSUME outcomes # Zero
            PROVE  Reached(s, seen, 1, Len(t) + 1)
        <5>1. Reached(commands, seen, 1, Len(commands) + 1)
          BY <4>1 DEF Counts
        <5>2. Reached(t, seen, 1, Len(t) + 1)
          BY <1>1, <1>3, <1>4, <5>1, ReachedLater, ReadFacts
        <5>3. \A j \in 1..(Len(t) + 1 - 1) : SeenAt(t, j) => SeenAt(s, j) /\ s[j] = t[j]
          BY <3>2 DEF SeenAt
        <5> QED BY <5>2, <5>3 DEF Reached
      <4> QED BY <2>3, <4>1
    <3>9. Later(p).op = "read staleness"
      BY DEF Later
    <3>10. Promise(s, seen, outcomes, heard, x, Len(t) + 1)
      BY <3>2, <3>6, <3>7, <3>8, <3>9 DEF Promise
    <3>11. Asked(s, seen, outcomes, heard, x, p)
      BY <2>3, <3>4, <3>10 DEF Asked
    <3> QED BY <1>5, <3>1, <3>11
  <2> QED BY <1>2, <2>1, <2>2, <2>3
<1>12. \A q \in Polls : Asked(commands', seen', outcomes', heard', poll'[q], q)
  BY <1>7, <1>8, <1>11
<1> QED BY <1>12 DEF PollsInv

LEMMA PollsInvStep ==
  ASSUME Typed, QueueInv, PageInv, Next, ~dropped', Counts(commands, seen, outcomes, heard),
         Told(commands, seen), PollsInv(commands, seen, outcomes, heard)
  PROVE  PollsInv(commands, seen, outcomes, heard)'
<1> DEFINE Ok(p) == Asked(commands', seen', outcomes', heard', poll'[p], p)
<1>1. /\ commands \in Seq(Command) /\ seen \in Nat /\ outcomes \in [Counted -> Nat]
      /\ heard \in [Counted -> Nat] /\ poll \in [Polls -> PollType(issued)]
          /\ Rising(commands, seen)
      /\ heard' \in [Counted -> Nat] /\ \A r \in Counted : heard[r] <= heard'[r]
  BY AdminConsoleAssumption, HeardGrows DEF Typed, StoreTyped, PollsTyped, QueueInv, QueueOK
<1>2. \A p \in Polls :
        poll[p] \in PollType(issued) /\ Asked(commands, seen, outcomes, heard, poll[p], p)
  BY <1>1 DEF PollsInv
<1>3. \A p \in Polls : poll[p].at # "reading" =>
        \A k \in 1..Len(commands) : ~AsksFor(commands[k], p)
  BY <1>1 DEF Typed, ReadsKnown
<1> SUFFICES \A p \in Polls : Ok(p)
  BY DEF PollsInv
<1>4. ASSUME NEW p \in Polls, NEW w \in Seq(Command), Issues(w) \/ Runs(w),
             \A j \in 1..Len(w) : ~AsksFor(w[j], p), poll'[p] = poll[p]
      PROVE  Ok(p)
  BY <1>2, <1>4, AskedStays
<1>5. \A q : \A j \in 1..Len(<<>>) : ~AsksFor(<<>>[j], q)
  OBVIOUS
<1> HIDE DEF Ok
<1>6. CASE RelaySettlement /\ poll' = poll
  <2>1. PICK w \in Seq(Command) : Issues(w) /\ w \in Seq(Write)
    BY <1>6, RelayMoves
  <2>2. \A j \in 1..Len(w) : \A p : ~AsksFor(w[j], p)
    <3>1. \A j \in 1..Len(w) : w[j] \in Command /\ w[j] \in Write
      BY <2>1
    <3> QED BY <3>1, CommandKinds, WritesAskNothing
  <2> QED BY <1>4, <1>6, <2>1, <2>2
<1>7. CASE RunWrite
  <2>1. poll' = poll
    BY <1>7 DEF RunWrite
  <2> QED BY <1>4, <1>5, <1>7, <2>1, WriteMoves
<1>8. CASE RunRead
  <2>1. PollsInv(commands, seen, outcomes, heard)'
    BY <1>8, ReadInv
  <2> QED BY <2>1 DEF PollsInv, Ok
<1>9. ASSUME NEW p \in Polls, NEW x, poll' = [poll EXCEPT ![p] = x],
             UNCHANGED <<commands, seen, outcomes, heard>>,
             Asked(commands, seen, outcomes, heard, x, p)
      PROVE  \A q \in Polls : Ok(q)
  <2>1. Ok(p)
    <3>1. poll'[p] = x
      BY <1>1, <1>9
    <3> QED BY <1>9, <3>1 DEF Ok
  <2>2. ASSUME NEW q \in Polls, q # p
        PROVE  Ok(q)
    <3>1. poll'[q] = poll[q]
      BY <1>1, <1>9, <2>2
    <3> QED BY <1>4, <1>5, <1>9, <3>1, StillMoves
  <2> QED BY <2>1, <2>2
<1>10. CASE CommandFails
  <2>1. PICK p \in Polls, x \in PollType(issued) :
          /\ commands' = Tail(commands) /\ AsksFor(commands[1], p) /\ poll' = [poll EXCEPT ![p] = x]
          /\ x.at = "answered" /\ x.code = "500"
    BY <1>10, CommandFailsFacts
  <2>2. Runs(<<>>) /\ <<>> \in Seq(Command) /\ commands # <<>>
    BY <1>10, <2>1, ReadMoves
  <2>3. poll'[p] = x /\ \A q \in Polls : q # p => poll'[q] = poll[q]
    BY <1>1, <2>1
  <2>4. \A k \in 1..Len(commands') : ~AsksFor(commands'[k], p)
    <3>1. \A k \in DOMAIN Tail(commands) : ~AsksFor(Tail(commands)[k], p)
      BY <2>1, <2>2, ReadsBehindHead
    <3>2. DOMAIN Tail(commands) = 1..Len(Tail(commands))
      BY <1>1, <2>2
    <3> QED BY <2>1, <3>1, <3>2
  <2>5. Ok(p)
    BY <2>1, <2>3, <2>4, AskedElse DEF Ok
  <2> QED BY <1>4, <1>5, <2>2, <2>3, <2>5
<1>11. CASE Crash \/ Quit
  <2>1. Ends
    BY <1>11, ExitMoves
  <2>2. commands' = <<>> /\ heard' = heard
            /\ \A p : \A k \in 1..Len(commands') : ~AsksFor(commands'[k], p)
    BY <2>1 DEF Ends
  <2>3. ASSUME NEW p \in Polls
        PROVE  Ok(p)
    <3>1. \/ poll'[p] = poll[p] /\ poll[p].at \notin {"sent", "reading"}
          \/ poll'[p].at = "answered" /\ poll'[p].code = "failed"
      BY <1>11, ExitFacts DEF Crash, Quit
    <3>2. CASE poll'[p] = poll[p] /\ poll[p].at \notin {"sent", "reading"}
      <4>1. poll[p].at \in {"idle", "answered"}
        BY <1>2, <3>2, PollFields
      <4>2. poll[p].at = "answered" => (poll[p].code = "200" => CurrentAt(poll[p], heard))
        BY <1>2 DEF Asked
      <4> QED BY <2>2, <3>2, <4>1, <4>2, AskedElse DEF Ok
    <3>3. CASE poll'[p].at = "answered" /\ poll'[p].code = "failed"
      BY <2>2, <3>3, AskedElse DEF Ok
    <3> QED BY <3>1, <3>2, <3>3
  <2> QED BY <2>3
<1>12. CASE LoggedOut
  <2>1. UNCHANGED <<commands, seen, outcomes, heard>>
    BY <1>12 DEF LoggedOut, redisVars, relayVars
  <2>2. ASSUME NEW p \in Polls
        PROVE  Ok(p)
    <3>1. Asked(commands', seen', outcomes', heard', poll[p], p)
      BY <1>2, <1>5, <2>1, StillMoves, AskedStays
    <3>2. /\ poll'[p].at = poll[p].at /\ poll'[p].code = poll[p].code
          /\ poll'[p].body = poll[p].body /\ poll'[p].base = poll[p].base
          /\ poll'[p].known = poll[p].known
      BY <1>12, LoggedOutFacts
    <3> QED BY <3>1, <3>2 DEF Ok, Asked, Promise, CurrentAt
  <2> QED BY <2>2
<1>13. ASSUME NEW p \in Polls, Reject(p) \/ PollFails(p) \/ Polled(p)
       PROVE  \A q \in Polls : Ok(q)
  <2>1. PICK x :
          /\ poll' = [poll EXCEPT ![p] = x] /\ poll[p].at # "reading"
          /\ x.at = "idle" \/ (x.at = "answered" /\ x.code # "200")
    <3>1. CASE Polled(p)
      BY <3>1, PolledFacts
    <3>2. CASE Reject(p) \/ PollFails(p)
      BY <3>2, RefusedFacts
    <3> QED BY <1>13, <3>1, <3>2
  <2>2. UNCHANGED <<commands, seen, outcomes, heard>>
    BY <1>13 DEF Reject, PollFails, Polled, redisVars, relayVars
  <2>3. Asked(commands, seen, outcomes, heard, x, p)
    BY <1>3, <2>1, AskedElse
  <2> QED BY <1>9, <2>1, <2>2, <2>3
<1>14. ASSUME NEW p \in Polls, Poll(p)
       PROVE  \A q \in Polls : Ok(q)
  <2>1. PICK x \in PollType(issued) :
          /\ poll' = [poll EXCEPT ![p] = x] /\ poll[p].at = "idle" /\ x.at = "sent"
          /\ \A r \in Counted : x.base[r] = Total(Wins(history, r))
          /\ x.known = IF history = <<>> THEN 0 ELSE history[1].n
    BY <1>14, PollFacts
  <2>2. UNCHANGED <<commands, seen, outcomes, heard>>
    BY <1>14 DEF Poll, redisVars, relayVars
  <2>3. ASSUME NEW r \in Counted
        PROVE  x.base[r] <= heard[r]
    <3>1. Total(Wins(history, r)) + Total(Wins(wire, r)) <= heard[r]
      BY DEF PageInv
    <3>2. Total(Wins(history, r)) \in Nat /\ Total(Wins(wire, r)) \in Nat /\ heard[r] \in Nat
      BY <1>1, TotalWins DEF Typed, PageTyped
    <3> QED BY <2>1, <3>1, <3>2
  <2>4. Reached(commands, seen, x.known, Len(commands) + 1)
    <3>1. CASE history = <<>>
      <4>1. x.known = 0 /\ 0 <= seen
        BY <1>1, <2>1, <3>1
      <4> QED BY <4>1 DEF Reached
    <3>2. CASE history # <<>>
      BY <2>1, <3>2 DEF Told
    <3> QED BY <3>1, <3>2
  <2>5. Asked(commands, seen, outcomes, heard, x, p)
    BY <1>3, <2>1, <2>3, <2>4 DEF Asked
  <2> QED BY <1>9, <2>1, <2>2, <2>5
<1>15. ASSUME NEW p \in Polls, handleStats(p)
       PROVE  \A q \in Polls : Ok(q)
  <2>1. PICK x \in PollType(issued) :
          /\ poll' = [poll EXCEPT ![p] = x] /\ poll[p].at = "sent"
          /\ x.at = "reading" /\ Same(x, poll[p])
    BY <1>15, HandleStatsFacts
  <2>2. Issues(<<First(p)>>) /\ <<First(p)>> \in Seq(Command) /\ heard' = heard
    BY <1>15, StatsMoves
  <2>3. poll'[p] = x /\ \A q \in Polls : q # p => poll'[q] = poll[q]
    BY <1>1, <2>1
  <2>4. ASSUME NEW q \in Polls, q # p
        PROVE  Ok(q)
    <3>1. \A j \in 1..Len(<<First(p)>>) : ~AsksFor(<<First(p)>>[j], q)
      <4>1. ~AsksFor(First(p), q)
        BY <2>4 DEF AsksFor, First
      <4> QED BY <4>1
    <3> QED BY <1>4, <2>2, <2>3, <2>4, <3>1
  <2>5. Ok(p)
    <3>1. commands' = Append(commands, First(p)) /\ seen' = seen /\ outcomes' = outcomes
      BY <1>15, <2>2 DEF handleStats, First, Issues
    <3>2. PICK c : c = First(p)
      OBVIOUS
    <3>3. PICK s : s = Append(commands, c) /\ s = commands'
      BY <3>1, <3>2
    <3>4. PICK m \in Nat : m = Len(commands)
      BY <1>1
    <3>5. /\ Len(s) = m + 1 /\ s[m + 1] = c /\ \A i \in 1..m : s[i] = commands[i]
      <4>1. /\ Len(Append(commands, c)) = Len(commands) + 1
            /\ \A i \in 1..Len(commands) : Append(commands, c)[i] = commands[i]
            /\ Append(commands, c)[Len(commands) + 1] = c
        BY <1>1
      <4> QED BY <3>3, <3>4, <4>1
    <3>6. \A k \in 1..Len(s) : k \in 1..m \/ k = m + 1
      BY <3>4, <3>5
    <3>7. \A k \in 1..Len(s) : AsksFor(s[k], p) => k = m + 1
      BY <1>3, <2>1, <3>4, <3>5, <3>6
    <3>8. x.base = poll[p].base /\ x.known = poll[p].known
      BY <2>1 DEF Same
    <3>9. /\ \A r \in Counted : x.base[r] <= heard[r]
          /\ Reached(commands, seen, x.known, m + 1)
      BY <1>2, <2>1, <3>4, <3>8 DEF Asked
    <3>10. Reached(s, seen, x.known, m + 1)
      <4>1. \A j \in 1..(m + 1 - 1) : SeenAt(commands, j) => SeenAt(s, j) /\ s[j] = commands[j]
        BY <3>4, <3>5 DEF SeenAt
      <4> QED BY <3>9, <4>1 DEF Reached
    <3>11. ASSUME NEW r \in Counted
           PROVE  x.base[r] <= outcomes[r] + Due(s, r, m)
      <4>1. outcomes[r] + Due(commands, r, m) = heard[r]
        BY <3>4 DEF Counts
      <4>2. Due(s, r, m) = Due(commands, r, m)
        <5>1. s = commands \o <<First(p)>>
          BY <2>2, <3>3 DEF Issues
        <5>2. m \in 0..Len(commands)
          BY <3>4
        <5> QED BY <1>1, <2>2, <5>1, <5>2, DueOfConcat
      <4> QED BY <3>9, <4>1, <4>2
    <3>12. c.op = "read ledger" /\ (m + 1) - 1 = m
      <4>1. c.op = "read ledger"
        BY <3>2 DEF First
      <4>2. (m + 1) - 1 = m
        OBVIOUS
      <4> QED BY <4>1, <4>2
    <3>13. Promise(s, seen, outcomes, heard, x, m + 1)
      BY <3>5, <3>10, <3>11, <3>12 DEF Promise
    <3>14. Asked(s, seen, outcomes, heard, x, p)
      BY <2>1, <3>7, <3>13 DEF Asked
    <3> QED BY <2>2, <2>3, <3>1, <3>3, <3>14 DEF Ok
  <2> QED BY <2>4, <2>5
<1>16. CASE PollsAlone
  <2>1. poll' = poll
    BY <1>16, PollsAloneFacts
  <2>2. CASE UNCHANGED <<commands, seen, outcomes, heard>>
    BY <1>4, <1>5, <2>1, <2>2, StillMoves
  <2>3. UNCHANGED <<commands, seen, outcomes, heard>> \/ RelaySettlement \/ RunWrite
    BY <1>16 DEF PollsAlone, Publish, Calibrate, Start, Sigterm, submit, LoginFails, handleLogin,
      logout, Expire, handleTokenIssue, Connect, Disconnect, OnSettlement, redisVars, relayVars
  <2> QED BY <1>6, <1>7, <2>1, <2>2, <2>3
<1> QED BY <1>8, <1>10, <1>11, <1>12, <1>13, <1>14, <1>15, <1>16, NextCases

LEMMA PanelInvStep ==
  ASSUME Typed, Next, PollsInv(commands, seen, outcomes, heard), PanelInv
  PROVE  PanelInv'
<1>1. heard \in [Counted -> Nat] /\ heard' \in [Counted -> Nat]
          /\ \A r \in Counted : heard[r] <= heard'[r]
  BY HeardGrows
<1>2. CASE stats' = stats
  <2>1. stats.body.outcomes \in [Counted -> Nat]
    <3>1. stats.body \in Body
      BY DEF Typed, PanelTyped
    <3> QED BY <3>1, BodyOutcomes
  <2>2. stats.asked => CurrentAt(stats, heard')
    BY <1>1, <2>1, CurrentGrows DEF PanelInv
  <2> QED BY <1>2, <2>2 DEF PanelInv
<1>3. CASE stats' = NoStats
  BY <1>3, Basics DEF PanelInv
<1>4. ASSUME NEW p \in Polls, poll[p].at = "answered", poll[p].code = "200",
             Answered(p), heard' = heard
      PROVE  PanelInv'
  <2>1. CurrentAt(poll[p], heard)
    BY <1>4 DEF PollsInv, Asked
  <2>2. stats'.body = poll[p].body /\ stats'.base = poll[p].base /\ stats'.known = poll[p].known
    BY <1>4 DEF Answered
  <2> QED BY <1>4, <2>1, <2>2 DEF PanelInv, CurrentAt
<1>5. \/ stats' = stats \/ stats' = NoStats
      \/ \E p \in Polls : Polled(p)
  BY DEF Next, Publish, Calibrate, Start, RelaySettlement, RunWrite, RunRead, CommandFails, Crash,
    Sigterm, Quit, Exit, submit, LoginFails, handleLogin, logout, LoggedOut, Expire,
    handleTokenIssue,
    Connect, Disconnect, OnSettlement, Reject, handleStats, Poll, PollFails, panelVars
<1>6. ASSUME NEW p \in Polls, Polled(p)
      PROVE  \/ stats' = stats
             \/ poll[p].at = "answered" /\ poll[p].code = "200" /\ Answered(p) /\ heard' = heard
  BY <1>6 DEF Polled, panelVars, relayVars
<1> QED BY <1>2, <1>3, <1>4, <1>5, <1>6

LEMMA InitConsole == Init => ConsoleInv
<1> SUFFICES ASSUME Init PROVE ConsoleInv
  OBVIOUS
<1>1. /\ inbox = <<>> /\ commands = <<>> /\ wire = <<>> /\ history = <<>>
      /\ outcomes = Zero /\ heard = Zero /\ seen = 0 /\ published = 0 /\ ~stats.asked
  BY Basics DEF Init
<1>2. QueueInv
  BY <1>1 DEF QueueInv, QueueOK, Rising, Below, SeenAt
<1>3. \A r \in Counted : Total(Wins(<<>>, r)) = 0 /\ Due(<<>>, r, Len(<<>>)) = 0
  <2>1. \A r : Wins(<<>>, r) = <<>>
    BY DEF Wins
  <2>2. \A r \in Counted : Due(<<>>, r, 0) = 0
    BY ReadsAddNothing, DueFacts
  <2> QED BY <2>1, <2>2, TotalOfOne
<1>4. PageInv
  BY <1>1, <1>3 DEF PageInv, Zero
<1>5. Counts(commands, seen, outcomes, heard)
  BY <1>1, <1>3 DEF Counts, Zero
<1>6. Told(commands, seen)
  BY <1>1 DEF Told
<1>7. PollsInv(commands, seen, outcomes, heard)
  <2>1. \A p \in Polls : poll[p].at = "idle"
    BY Basics DEF Init
  <2>2. \A p : \A k \in 1..Len(commands) : ~AsksFor(commands[k], p)
    BY <1>1
  <2> QED BY <2>1, <2>2, AskedElse DEF PollsInv
<1> QED BY <1>1, <1>2, <1>4, <1>5, <1>6, <1>7 DEF ConsoleInv, PanelInv

LEMMA ConsoleStep ==
  ASSUME Typed, ConsoleInv, [Next]_vars
  PROVE  ConsoleInv'
<1>1. CASE Next
  <2>1. QueueInv' /\ PageInv'
    BY <1>1, QueueStep, PageInvStep DEF ConsoleInv
  <2>2. ASSUME ~dropped'
        PROVE  /\ Counts(commands, seen, outcomes, heard)' /\ Told(commands, seen)'
               /\ PollsInv(commands, seen, outcomes, heard)' /\ PanelInv'
    <3>1. /\ QueueInv /\ PageInv /\ Counts(commands, seen, outcomes, heard)
          /\ Told(commands, seen) /\ PollsInv(commands, seen, outcomes, heard) /\ PanelInv
      BY <1>1, <2>2, DroppedStays DEF ConsoleInv
    <3>2. Counts(commands', seen', outcomes', heard')
      BY <1>1, <2>2, <3>1, LedgerStep
    <3>3. Told(commands, seen)' /\ PollsInv(commands, seen, outcomes, heard)' /\ PanelInv'
      BY <1>1, <2>2, <3>1, ToldStep, PollsInvStep, PanelInvStep
    <3> QED BY <3>2, <3>3
  <2> QED BY <2>1, <2>2 DEF ConsoleInv
<1>2. CASE UNCHANGED vars
  <2>1. UNCHANGED <<inbox, commands, seen, outcomes, published, heard, dropped, wire, history, poll,
                    stats>>
    BY <1>2 DEF vars, redisVars, relayVars, linkVars, panelVars
  <2>2. QueueInv' <=> QueueInv
    BY <2>1 DEF QueueInv
  <2>3. PageInv' <=> PageInv
    BY <2>1 DEF PageInv
  <2>4. Counts(commands, seen, outcomes, heard)' <=> Counts(commands, seen, outcomes, heard)
    BY <2>1
  <2>5. Told(commands, seen)' <=> Told(commands, seen)
    BY <2>1 DEF Told
  <2>6. PollsInv(commands, seen, outcomes, heard)' <=> PollsInv(commands, seen, outcomes, heard)
    BY <2>1 DEF PollsInv
  <2>7. PanelInv' <=> PanelInv
    BY <2>1 DEF PanelInv
  <2> QED BY <2>1, <2>2, <2>3, <2>4, <2>5, <2>6, <2>7 DEF ConsoleInv
<1> QED BY <1>1, <1>2

LEMMA CurrentIs == ConsoleInv => StatsAreCurrent
BY DEF ConsoleInv, PanelInv, CurrentAt, StatsAreCurrent

(* Unless a write was lost, the statistics on the console count every      *)
(* settlement that was beside them when they were asked for, none that the *)
(* relay had not heard of, and a counted settlement's channel is not       *)
(* behind it, whatever overtakes what on the way (server.js:153-159,       *)
(* 286-310).                                                               *)
THEOREM StatisticsAreCurrent == Spec => []StatsAreCurrent
<1>1. Typed /\ ConsoleInv /\ [Next]_vars => (Typed /\ ConsoleInv)'
  BY TypedStep, ConsoleStep
<1>2. Init => Typed /\ ConsoleInv
  BY InitTyped, InitConsole
<1> QED BY <1>1, <1>2, CurrentIs, PTL DEF Spec
=============================================================================
