----------------------------- MODULE DeskProofs -----------------------------
(***************************************************************************)
(* Proof that the signal desk never shows an order twice, takes for        *)
(* settled what was never in the ledger, or for placed what no operator    *)
(* has placed, for every set of orders, number of polls and requests and   *)
(* length of its lists.                                                    *)
(*                                                                         *)
(* A list that a poll has read is true of a history that only grows: the   *)
(* orders that were filled, the entries that the ledger has had, and the   *)
(* log.  The ledger itself loses entries and may hold an order twice.      *)
(***************************************************************************)
EXTENDS SignalDesk, SequenceTheorems, FunctionTheorems, FiniteSetTheorems, WellFoundedInduction,
        TLAPS

-----------------------------------------------------------------------------
(* What is left of a list without some of its entries.  Without is         *)
(* recursive: its function is built, and what it computes shown, by        *)
(* induction over the numbers.                                             *)
LEMMA LeastNat ==
  ASSUME NEW S \in SUBSET Nat, S # {}
  PROVE  \E n \in S : \A m \in S : n <= m
<1>1. PICK n \in S : \A m \in S : <<m, n>> \notin OpToRel(<, Nat)
  BY WFMin, NatLessThanWellFounded, Zenon
<1>2. \A m \in S : ~(m < n)
  BY <1>1, Zenon DEF OpToRel
<1> QED BY <1>2

(* Induction over the numbers up to n, with a set for the property.        *)
LEMMA Upward ==
  ASSUME NEW n \in Nat, NEW T, 0 \in T, \A i \in 0..n : i # 0 /\ i - 1 \in T => i \in T
  PROVE  0..n \subseteq T
<1> DEFINE S == {i \in 0..n : i \notin T}
<1>1. SUFFICES ASSUME S # {} PROVE FALSE
  OBVIOUS
<1>2. PICK m \in S : \A k \in S : m <= k
  <2>1. S \in SUBSET Nat
    OBVIOUS
  <2> HIDE DEF S
  <2> QED BY <1>1, <2>1, LeastNat
<1>3. m # 0 /\ m - 1 \in 0..n
  BY <1>2
<1>4. m - 1 \in T
  BY <1>2, <1>3
<1>5. m \in 0..n /\ m \notin T
  BY <1>2
<1> QED BY <1>3, <1>4, <1>5

(* g is the function that Without computes, up to entry n.                 *)
Rest(g, list, out, n) ==
  g = [i \in 0..n |-> IF i = 0 THEN <<>>
                      ELSE IF list[i] \in out THEN g[i - 1] ELSE Append(g[i - 1], list[i])]

LEMMA RestExists ==
  ASSUME NEW list, NEW out, NEW n \in Nat
  PROVE  \E g : Rest(g, list, out, n)
<1> DEFINE T == {k \in Nat : \E g : Rest(g, list, out, k)}
<1>1. 0 \in T
  <2>1. Rest([i \in 0..0 |-> <<>>], list, out, 0)
    BY DEF Rest
  <2> QED BY <2>1
<1>2. ASSUME NEW k \in 0..n, k # 0, k - 1 \in T
      PROVE  k \in T
  <2>1. PICK g : Rest(g, list, out, k - 1)
    BY <1>2
  <2> DEFINE h == [i \in 0..k |-> IF i < k THEN g[i]
                     ELSE IF list[k] \in out THEN g[k - 1] ELSE Append(g[k - 1], list[k])]
  <2>2. \A i \in 0..(k - 1) :
          g[i] = IF i = 0 THEN <<>>
                 ELSE IF list[i] \in out THEN g[i - 1] ELSE Append(g[i - 1], list[i])
    BY <2>1 DEF Rest
  <2>3. \A i \in 0..k : /\ i < k => i \in 0..(k - 1) /\ h[i] = g[i]
                        /\ i # 0 => i - 1 \in 0..k /\ h[i - 1] = g[i - 1]
                        /\ i < k \/ i = k
    OBVIOUS
  <2>4. \A i \in 0..k : h[i] = IF i = 0 THEN <<>>
                               ELSE IF list[i] \in out THEN h[i - 1]
                               ELSE Append(h[i - 1], list[i])
    BY <1>2, <2>2, <2>3
  <2>5. Rest(h, list, out, k)
    BY <2>4 DEF Rest
  <2> QED BY <1>2, <2>5
<1> HIDE DEF T
<1>3. 0..n \subseteq T
  BY <1>1, <1>2, Upward
<1>4. n \in T
  BY <1>3
<1> QED BY <1>4 DEF T

LEMMA WithoutIs ==
  ASSUME NEW list, NEW out, Len(list) \in Nat
  PROVE  \E g : Rest(g, list, out, Len(list)) /\ Without(list, out) = g[Len(list)]
<1> DEFINE r == CHOOSE g : Rest(g, list, out, Len(list))
<1>1. Rest(r, list, out, Len(list))
  BY RestExists, Zenon
<1>2. Without(list, out) = r[Len(list)]
  BY DEF Without, Rest
<1> QED BY <1>1, <1>2

NoneTwice(list) == \A i, j \in 1..Len(list) : list[i] = list[j] => i = j

(* What is left is of the list and not of the set, and has none twice if   *)
(* the list has none.                                                      *)
LEMMA WithoutKeeps ==
  ASSUME NEW S, NEW list \in Seq(S), NEW out
  PROVE  /\ Without(list, out) \in Seq(S)
         /\ NoneTwice(list) => NoneTwice(Without(list, out))
         /\ \A i \in 1..Len(Without(list, out)) : Without(list, out)[i] \notin out
<1> DEFINE n == Len(list)
<1>1. n \in Nat
  OBVIOUS
<1>2. PICK g : Rest(g, list, out, n) /\ Without(list, out) = g[n]
  BY <1>1, WithoutIs
<1> DEFINE T == {k \in 0..n :
                   /\ g[k] \in Seq(S)
                   /\ NoneTwice(list) => \A i, j \in 1..Len(g[k]) : g[k][i] = g[k][j] => i = j
                   /\ \A i \in 1..Len(g[k]) : g[k][i] \notin out
                   /\ \A i \in 1..Len(g[k]) : \E j \in 1..k : g[k][i] = list[j]}
<1>3. 0 \in T
  <2>1. g[0] = <<>>
    BY <1>1, <1>2 DEF Rest
  <2>2. g[0] \in Seq(S) /\ 1..Len(g[0]) = {} /\ 0 \in 0..n
    <3> HIDE DEF n
    <3> QED BY <1>1, <2>1
  <2> HIDE DEF n
  <2> QED BY <2>2, Zenon
<1>4. ASSUME NEW k \in 0..n, k # 0, k - 1 \in T
      PROVE  k \in T
  <2> DEFINE q == g[k - 1]
  <2>1. g[k] = IF list[k] \in out THEN q ELSE Append(q, list[k])
    BY <1>2, <1>4 DEF Rest
  <2>2. /\ q \in Seq(S)
        /\ NoneTwice(list) => \A i, j \in 1..Len(q) : q[i] = q[j] => i = j
        /\ \A i \in 1..Len(q) : q[i] \notin out
        /\ \A i \in 1..Len(q) : \E j \in 1..(k - 1) : q[i] = list[j]
    BY <1>4
  <2>3. list[k] \in S /\ k \in 1..n
    BY <1>4
  <2>4. \A j \in 1..(k - 1) : j \in 1..k /\ (NoneTwice(list) => list[j] # list[k])
    BY <1>4, <2>3 DEF NoneTwice
  <2> HIDE DEF q, n
  <2>5. CASE list[k] \in out
    <3>1. g[k] = q
      BY <2>1, <2>5
    <3> QED BY <2>2, <2>3, <2>4, <3>1
  <2>6. CASE list[k] \notin out
    <3>1. g[k] = Append(q, list[k])
      BY <2>1, <2>6
    <3>2. /\ g[k] \in Seq(S) /\ Len(g[k]) = Len(q) + 1 /\ Len(q) \in Nat
          /\ \A i \in 1..Len(q) : g[k][i] = q[i]
          /\ g[k][Len(q) + 1] = list[k]
      BY <2>2, <2>3, <3>1
    <3>3. \A i \in 1..Len(g[k]) : i \in 1..Len(q) \/ i = Len(q) + 1
      BY <3>2
    <3>4. NoneTwice(list) => \A i \in 1..Len(q) : g[k][i] # list[k]
      BY <2>2, <2>4, <3>2
    <3>5. NoneTwice(list) => \A i, j \in 1..Len(g[k]) : g[k][i] = g[k][j] => i = j
      BY <2>2, <3>2, <3>3, <3>4
    <3>6. \A i \in 1..Len(g[k]) : g[k][i] \notin out
      BY <2>2, <2>6, <3>2, <3>3
    <3>7. \A i \in 1..Len(g[k]) : \E j \in 1..k : g[k][i] = list[j]
      BY <2>2, <2>3, <2>4, <3>2, <3>3
    <3> QED BY <2>3, <3>2, <3>5, <3>6, <3>7
  <2> QED BY <2>5, <2>6
<1> HIDE DEF T
<1>5. n \in T
  <2> HIDE DEF n
  <2>1. 0..n \subseteq T
    BY <1>1, <1>3, <1>4, Upward
  <2> QED BY <1>1, <2>1
<1> QED BY <1>2, <1>5 DEF T, NoneTwice

-----------------------------------------------------------------------------
(* The other operators on lists.                                           *)
LEMMA ToSetIs ==
  ASSUME NEW S, NEW s \in Seq(S)
  PROVE  /\ DOMAIN s = 1..Len(s) /\ ToSet(s) = {s[i] : i \in 1..Len(s)} /\ ToSet(s) \subseteq S
         /\ IsInjective(s) <=> NoneTwice(s)
<1>1. DOMAIN s = 1..Len(s) /\ \A i \in 1..Len(s) : s[i] \in S
  OBVIOUS
<1> QED BY <1>1, Zenon DEF ToSet, IsInjective, NoneTwice

LEMMA AppendKeeps ==
  ASSUME NEW S, NEW s \in Seq(S), NEW o \in S
  PROVE  /\ Append(s, o) \in Seq(S) /\ Len(Append(s, o)) = Len(s) + 1
         /\ ToSet(Append(s, o)) = ToSet(s) \cup {o}
         /\ NoneTwice(s) /\ o \notin ToSet(s) => NoneTwice(Append(s, o))
<1> DEFINE t == Append(s, o)
<1>1. /\ t \in Seq(S) /\ Len(t) = Len(s) + 1 /\ Len(s) \in Nat
      /\ \A i \in 1..Len(s) : t[i] = s[i]
      /\ t[Len(s) + 1] = o
  OBVIOUS
<1> HIDE DEF t
<1>2. \A i \in 1..Len(t) : i \in 1..Len(s) \/ i = Len(s) + 1
  BY <1>1
<1>3. \A i \in 1..Len(s) : i \in 1..Len(t)
  BY <1>1
<1>4. Len(s) + 1 \in 1..Len(t)
  BY <1>1
<1>5. ToSet(t) = {t[i] : i \in 1..Len(t)} /\ ToSet(s) = {s[i] : i \in 1..Len(s)}
  BY <1>1, ToSetIs, Zenon
<1>6. ToSet(t) = ToSet(s) \cup {o}
  <2>1. ASSUME NEW x PROVE x \in ToSet(t) <=> x \in ToSet(s) \cup {o}
    <3>1. x \in ToSet(t) <=> \E i \in 1..Len(t) : x = t[i]
      BY <1>5, Zenon
    <3>2. x \in ToSet(s) <=> \E i \in 1..Len(s) : x = s[i]
      BY <1>5, Zenon
    <3> QED BY <1>1, <1>2, <1>3, <1>4, <3>1, <3>2
  <2> QED BY <2>1, Zenon
<1>7. ASSUME NoneTwice(s), o \notin ToSet(s) PROVE NoneTwice(t)
  <2>1. \A i \in 1..Len(s) : s[i] # o
    BY <1>5, <1>7, Zenon
  <2> QED BY <1>1, <1>2, <1>7, <2>1 DEF NoneTwice
<1> QED BY <1>1, <1>6, <1>7 DEF t

(* Every entry of the first list is an entry of the second.                *)
LEMMA EntriesIn ==
  ASSUME NEW S, NEW s \in Seq(S), NEW T, NEW t \in Seq(T),
         \A i \in 1..Len(s) : \E j \in 1..Len(t) : s[i] = t[j]
  PROVE  ToSet(s) \subseteq ToSet(t)
<1>1. ToSet(s) = {s[i] : i \in 1..Len(s)} /\ ToSet(t) = {t[i] : i \in 1..Len(t)}
  BY ToSetIs, Zenon
<1> QED BY <1>1, Zenon

(* A part of a list.                                                       *)
LEMMA PartOf ==
  ASSUME NEW S, NEW s \in Seq(S), NEW i \in 1..(Len(s) + 1), NEW j \in 0..Len(s)
  PROVE  SubSeq(s, i, j) \in Seq(S)
<1>1. \A k \in i..j : s[k] \in S
  OBVIOUS
<1> QED BY <1>1, SubSeqProperties

LEMMA ShortenedKeeps ==
  ASSUME NEW S, NEW s \in Seq(S)
  PROVE  /\ Shortened(s) \in Seq(S) /\ Len(Shortened(s)) <= Limit
         /\ ToSet(Shortened(s)) \subseteq ToSet(s)
         /\ NoneTwice(s) => NoneTwice(Shortened(s))
<1> DEFINE n == IF Len(s) < Limit THEN Len(s) ELSE Limit
           t == SubSeq(s, 1, n)
<1>1. n \in Nat /\ n <= Len(s) /\ n <= Limit /\ Len(s) \in Nat /\ Limit \in Nat
  BY SignalDeskAssumption
<1>2. t = Shortened(s)
  BY DEF Shortened
<1> HIDE DEF n
<1>3. \A i \in 1..n : s[i] \in S /\ i \in 1..Len(s)
  BY <1>1
<1>4. t \in Seq(S) /\ Len(t) = n /\ \A i \in 1..n : t[i] = s[i]
  BY <1>1, <1>3, SubSeqProperties
<1> HIDE DEF t
<1>5. ToSet(t) \subseteq ToSet(s)
  BY <1>3, <1>4, EntriesIn
<1>6. NoneTwice(s) => NoneTwice(t)
  BY <1>3, <1>4 DEF NoneTwice
<1> QED BY <1>1, <1>2, <1>4, <1>5, <1>6

LEMMA NewestKeeps ==
  ASSUME NEW S, NEW s \in Seq(S)
  PROVE  Newest(s) \in Seq(S) /\ ToSet(Newest(s)) \subseteq ToSet(s)
<1> DEFINE r == [i \in 1..Len(s) |-> s[(Len(s) - i) + 1]]
<1>1. \A i \in 1..Len(s) : (Len(s) - i) + 1 \in 1..Len(s) /\ s[(Len(s) - i) + 1] \in S
  OBVIOUS
<1>2. r \in Seq(S) /\ Len(r) = Len(s)
  <2>1. r \in [1..Len(s) -> S] /\ Len(s) \in Nat
    BY <1>1
  <2> HIDE DEF r
  <2> QED BY <2>1, IsASeq
<1>3. ToSet(r) \subseteq ToSet(s)
  <2>1. \A i \in 1..Len(r) : \E j \in 1..Len(s) : r[i] = s[j]
    BY <1>1, <1>2
  <2> HIDE DEF r
  <2> QED BY <1>2, <2>1, EntriesIn
<1>4. Newest(s) = Shortened(r)
  BY DEF Newest, Reverse
<1> HIDE DEF r
<1> QED BY <1>2, <1>3, <1>4, ShortenedKeeps

LEMMA SequencesOf ==
  ASSUME NEW S, IsFiniteSet(S), NEW list \in SetToSeqs(S)
  PROVE  list \in Seq(S) /\ NoneTwice(list)
<1> DEFINE n == Cardinality(S)
<1>1. n \in Nat
  BY FS_CardinalityType
<1>2. list \in [1..n -> S] /\ \A i, j \in 1..n : i # j => list[i] # list[j]
  BY DEF SetToSeqs
<1> HIDE DEF n
<1>3. list \in Seq(S) /\ Len(list) = n
  BY <1>1, <1>2, IsASeq
<1> QED BY <1>2, <1>3 DEF NoneTwice

(* One list after the other, when they have no entry in common.            *)
LEMMA JoinedKeeps ==
  ASSUME NEW S, NEW s \in Seq(S), NEW t \in Seq(S), NoneTwice(s), NoneTwice(t),
         \A i \in 1..Len(t) : t[i] \notin ToSet(s)
  PROVE  s \o t \in Seq(S) /\ NoneTwice(s \o t)
<1> DEFINE u == s \o t
<1>1. /\ u \in Seq(S) /\ Len(u) = Len(s) + Len(t) /\ Len(s) \in Nat /\ Len(t) \in Nat
      /\ \A i \in 1..(Len(s) + Len(t)) : u[i] = IF i <= Len(s) THEN s[i] ELSE t[i - Len(s)]
  BY ConcatProperties
<1> HIDE DEF u
<1>2. \A i \in 1..Len(u) : \/ i \in 1..Len(s) /\ u[i] = s[i]
                           \/ i > Len(s) /\ i - Len(s) \in 1..Len(t) /\ u[i] = t[i - Len(s)]
  BY <1>1
<1>3. \A i \in 1..Len(s), j \in 1..Len(t) : s[i] # t[j]
  <2>1. ToSet(s) = {s[i] : i \in 1..Len(s)}
    BY ToSetIs, Zenon
  <2> QED BY <2>1, Zenon
<1>4. ASSUME NEW i \in 1..Len(u), NEW j \in 1..Len(u), u[i] = u[j] PROVE i = j
  <2>1. CASE i \in 1..Len(s) /\ u[i] = s[i] /\ j \in 1..Len(s) /\ u[j] = s[j]
    BY <1>4, <2>1 DEF NoneTwice
  <2>2. CASE /\ i > Len(s) /\ i - Len(s) \in 1..Len(t) /\ u[i] = t[i - Len(s)]
             /\ j > Len(s) /\ j - Len(s) \in 1..Len(t) /\ u[j] = t[j - Len(s)]
    <3>1. i - Len(s) = j - Len(s)
      BY <1>4, <2>2 DEF NoneTwice
    <3> QED BY <1>1, <3>1
  <2> QED BY <1>2, <1>3, <1>4, <2>1, <2>2
<1>5. NoneTwice(u)
  BY <1>4 DEF NoneTwice
<1> QED BY <1>1, <1>5 DEF u

LEMMA SeededKeeps ==
  ASSUME NEW S, signals \in Seq(S), NoneTwice(signals), NEW list \in Seq(S), NoneTwice(list)
  PROVE  Seeded(list) \in Seq(S) /\ NoneTwice(Seeded(list)) /\ Len(Seeded(list)) <= Limit
<1> DEFINE t == Without(list, ToSet(signals))
<1>1. /\ t \in Seq(S) /\ NoneTwice(t)
      /\ \A i \in 1..Len(t) : t[i] \notin ToSet(signals)
  BY WithoutKeeps
<1> HIDE DEF t
<1>2. signals \o t \in Seq(S) /\ NoneTwice(signals \o t)
  BY <1>1, JoinedKeeps
<1> QED BY <1>2, ShortenedKeeps DEF Seeded, t

(* OnMessage: the order comes first, and only there.                       *)
LEMMA FirstKeeps ==
  ASSUME NEW S, signals \in Seq(S), NoneTwice(signals), NEW o \in S
  PROVE  LET new == Shortened(<<o>> \o Without(signals, {o}))
         IN new \in Seq(S) /\ NoneTwice(new) /\ Len(new) <= Limit
<1> DEFINE t == Without(signals, {o})
<1>1. t \in Seq(S) /\ NoneTwice(t) /\ \A i \in 1..Len(t) : t[i] \notin {o}
  BY WithoutKeeps
<1> HIDE DEF t
<1>2. <<o>> \in Seq(S) /\ NoneTwice(<<o>>) /\ Len(<<o>>) = 1 /\ <<o>>[1] = o
  BY DEF NoneTwice
<1>3. ToSet(<<o>>) = {o}
  <2>1. ToSet(<<o>>) = {<<o>>[i] : i \in 1..1}
    BY <1>2, ToSetIs
  <2>2. 1..1 = {1}
    OBVIOUS
  <2> QED BY <1>2, <2>1, <2>2
<1>4. <<o>> \o t \in Seq(S) /\ NoneTwice(<<o>> \o t)
  BY <1>1, <1>2, <1>3, JoinedKeeps
<1> QED BY <1>4, ShortenedKeeps DEF t

-----------------------------------------------------------------------------
(* The invariant.                                                          *)

RedisInv ==
  /\ open \subseteq filled /\ filled \subseteq Orders
  /\ entered \subseteq Entry(filled) /\ ledger \in Seq(entered)
  /\ log \in Seq(filled)

(* What a grader has taken was filled, and so were the bets that a request *)
(* has read and will add again.                                            *)
GradeInv ==
  /\ grading \in [Graders -> [todo : SUBSET filled, done : SUBSET filled]]
  /\ regrading \in [Requests -> [step : {"none", "delete", "add"},
                                 voids : Seq(Legacy \cap filled)]]
  /\ \A r \in Requests : regrading[r].step # "none" => regrading[r].voids # <<>>

StreamInv ==
  /\ client \in {"waiting", "dialling", "open"}
  /\ server \in {"none", "upgraded", "subscribed", "gone"}
  /\ pipe \in Seq(filled)
  /\ connected = (client = "open")

PageInv ==
  /\ signals \in Seq(filled) /\ NoneTwice(signals) /\ Len(signals) <= Limit
  /\ settled \in Seq(entered) /\ placed \subseteq ToSet(log)
  /\ loading \in BOOLEAN

(* What a poll has read so far, and has not shown yet.  The orders that    *)
(* were filled, the entries that the ledger has had and those of the log   *)
(* are parameters: all three grow while the poll is out.                   *)
Truthful(p, all, done, marked) ==
  /\ p \in [busy : BOOLEAN, todo : SUBSET Lists,
            active : Seq(all), ledger : Seq(done), placements : SUBSET marked]
  /\ NoneTwice(p.active)

LoadInv ==
  /\ load = [l \in Loads |-> load[l]]
  /\ \A l \in Loads : Truthful(load[l], filled, entered, ToSet(log))

(* A POST is for an order that was filled, and once it is recorded the log *)
(* has it.                                                                 *)
PostInv ==
  /\ post \in [Orders -> {"none", "sent", "recorded"}]
  /\ \A o \in Orders : /\ post[o] # "none" => o \in filled
                       /\ post[o] = "recorded" => o \in ToSet(log)

BudgetInv == budget \in [Kinds -> Nat]

DeskInv == RedisInv /\ GradeInv /\ StreamInv /\ PageInv /\ LoadInv /\ PostInv /\ BudgetInv

LEMMA InvTypes ==
  ASSUME DeskInv
  PROVE  TypeOK
<1> USE DEF DeskInv
<1>1. Seq(entered) \subseteq Seq(Entry(filled)) /\ Seq(Legacy \cap filled) \subseteq Seq(Legacy)
  BY SeqMonotonic, Zenon DEF RedisInv
<1>2. /\ open \subseteq filled /\ filled \subseteq Orders
      /\ ledger \in Seq(Entry(filled)) /\ ToSet(ledger) \subseteq entered
      /\ entered \subseteq Entry(filled) /\ log \in Seq(filled) /\ ToSet(log) \subseteq filled
  BY <1>1, ToSetIs, Zenon DEF RedisInv
<1>3. /\ grading \in [Graders -> [todo : SUBSET filled, done : SUBSET filled]]
      /\ regrading \in [Requests -> [step : {"none", "delete", "add"}, voids : Seq(Legacy)]]
  BY <1>1 DEF GradeInv
<1>4. /\ client \in {"waiting", "dialling", "open"}
      /\ server \in {"none", "upgraded", "subscribed", "gone"}
      /\ pipe \in Seq(filled) /\ connected = (client = "open")
  BY Zenon DEF StreamInv
<1>5. /\ signals \in Seq(filled) /\ IsInjective(signals) /\ Len(signals) <= Limit
      /\ ToSet(settled) \subseteq entered /\ placed \subseteq ToSet(log)
      /\ loading \in BOOLEAN
  BY ToSetIs, Zenon DEF PageInv
<1>6. load \in [Loads -> [busy : BOOLEAN, todo : SUBSET Lists,
                          active : Seq(filled), ledger : Seq(Entry(filled)),
                          placements : SUBSET filled]]
  <2>1. \A l \in Loads : load[l] \in [busy : BOOLEAN, todo : SUBSET Lists,
          active : Seq(filled), ledger : Seq(entered), placements : SUBSET ToSet(log)]
    BY Zenon DEF LoadInv, Truthful
  <2>2. \A l \in Loads : load[l] \in [busy : BOOLEAN, todo : SUBSET Lists,
          active : Seq(filled), ledger : Seq(Entry(filled)), placements : SUBSET filled]
    BY <1>1, <1>2, <2>1
  <2> QED BY <2>2, Zenon DEF LoadInv
<1>7. post \in [Orders -> {"none", "sent", "recorded"}] /\ budget \in [Kinds -> Nat]
  BY Zenon DEF PostInv, BudgetInv
<1> QED BY <1>2, <1>3, <1>4, <1>5, <1>6, <1>7, Zenon DEF TypeOK

LEMMA EmptyIsTruthful ==
  ASSUME NEW all, NEW done, NEW marked
  PROVE  Truthful(Idle, all, done, marked) /\ Truthful(Asked, all, done, marked)
<1> DEFINE type == [busy : BOOLEAN, todo : SUBSET Lists, active : Seq(all), ledger : Seq(done),
                    placements : SUBSET marked]
<1>1. <<>> \in Seq(all) /\ <<>> \in Seq(done) /\ Len(<<>>) = 0 /\ 1..0 = {}
  OBVIOUS
<1>2. NoneTwice(<<>>)
  BY <1>1 DEF NoneTwice
<1>3. Idle \in type /\ Idle.active = <<>>
  BY <1>1 DEF Idle
<1>4. Asked \in type /\ Asked.active = <<>>
  <2>1. PICK lists \in SUBSET Lists, b \in BOOLEAN :
          Asked = [Idle EXCEPT !.busy = b, !.todo = lists]
    BY Zenon DEF Asked
  <2> QED BY <1>3, <2>1
<1> QED BY <1>2, <1>3, <1>4, Zenon DEF Truthful

LEMMA TruthGrows ==
  ASSUME NEW p, NEW all, NEW done, NEW marked, Truthful(p, all, done, marked),
         NEW all2, NEW done2, NEW marked2,
         all \subseteq all2, done \subseteq done2, marked \subseteq marked2
  PROVE  Truthful(p, all2, done2, marked2)
<1>1. Seq(all) \subseteq Seq(all2) /\ Seq(done) \subseteq Seq(done2)
  BY SeqMonotonic, Zenon
<1>2. p \in [busy : BOOLEAN, todo : SUBSET Lists,
             active : Seq(all), ledger : Seq(done), placements : SUBSET marked]
  BY DEF Truthful
<1>3. p \in [busy : BOOLEAN, todo : SUBSET Lists,
             active : Seq(all2), ledger : Seq(done2), placements : SUBSET marked2]
  BY <1>1, <1>2
<1> QED BY <1>3, Zenon DEF Truthful

LEMMA InitDesk ==
  ASSUME Init
  PROVE  DeskInv
<1> USE DEF Init
<1>1. <<>> \in Seq(filled) /\ <<>> \in Seq(entered) /\ Len(<<>>) = 0 /\ 1..0 = {}
  OBVIOUS
<1>2. NoneTwice(<<>>) /\ 0 <= Limit
  BY <1>1, SignalDeskAssumption DEF NoneTwice
<1>3. RedisInv
  <2>1. filled \subseteq Orders /\ IsFiniteSet(filled)
    BY SignalDeskAssumption, FS_Subset, Zenon
  <2>2. entered = {Void(o) : o \in filled} /\ entered \subseteq Entry(filled)
    BY DEF Void, Entry, Results
  <2>3. IsFiniteSet(entered)
    <3> DEFINE f == [o \in filled |-> Void(o)]
    <3>1. f \in Surjection(filled, entered)
      BY <2>2 DEF Surjection
    <3> HIDE DEF f
    <3> QED BY <2>1, <3>1, FS_Surjection, Zenon
  <2>4. ledger \in Seq(entered)
    BY <2>3, SequencesOf, Zenon
  <2> QED BY <1>1, <2>1, <2>2, <2>4 DEF RedisInv
<1>4. GradeInv
  <2>1. <<>> \in Seq(Legacy \cap filled)
    OBVIOUS
  <2> QED BY <2>1 DEF GradeInv, AtRest, NoRequest
<1>5. StreamInv
  BY <1>1 DEF StreamInv
<1>6. PageInv
  BY <1>1, <1>2 DEF PageInv
<1>7. LoadInv
  BY EmptyIsTruthful DEF LoadInv
<1>8. PostInv
  BY DEF PostInv
<1>9. BudgetInv
  BY SignalDeskAssumption DEF BudgetInv
<1> QED BY <1>3, <1>4, <1>5, <1>6, <1>7, <1>8, <1>9 DEF DeskInv

-----------------------------------------------------------------------------
(* What a step leaves alone stays true, even if the history grows.         *)
Grown == /\ filled \subseteq filled' /\ entered \subseteq entered'
         /\ ToSet(log) \subseteq ToSet(log)'

LEMMA GradesStay ==
  ASSUME GradeInv, Grown, UNCHANGED <<grading, regrading>>
  PROVE  GradeInv'
<1>1. /\ Seq(Legacy \cap filled) \subseteq Seq(Legacy \cap filled')
      /\ SUBSET filled \subseteq SUBSET filled'
  BY SeqMonotonic, Zenon DEF Grown
<1> QED BY <1>1 DEF GradeInv

LEMMA StreamStays ==
  ASSUME StreamInv, Grown, UNCHANGED <<streamVars, connected>>
  PROVE  StreamInv'
<1>1. Seq(filled) \subseteq Seq(filled')
  BY SeqMonotonic, Zenon DEF Grown
<1>2. UNCHANGED <<client, server, pipe, connected>>
  BY DEF streamVars
<1> QED BY <1>1, <1>2, Zenon DEF StreamInv

LEMMA PageStays ==
  ASSUME PageInv, Grown, UNCHANGED <<signals, listVars, loading>>
  PROVE  PageInv'
<1>1. Seq(filled) \subseteq Seq(filled') /\ Seq(entered) \subseteq Seq(entered')
  BY SeqMonotonic, Zenon DEF Grown
<1>2. UNCHANGED <<signals, settled, placed, loading>>
  BY DEF listVars
<1>3. NoneTwice(signals)' = NoneTwice(signals)
  BY <1>2
<1>4. /\ signals' \in Seq(filled') /\ Len(signals') <= Limit /\ loading' \in BOOLEAN
      /\ settled' \in Seq(entered') /\ placed' \subseteq ToSet(log)'
  BY <1>1, <1>2 DEF PageInv, Grown
<1> QED BY <1>3, <1>4 DEF PageInv

LEMMA LoadStays ==
  ASSUME LoadInv, Grown, UNCHANGED load
  PROVE  LoadInv'
<1>1. load' = [l \in Loads |-> load'[l]]
  BY Zenon DEF LoadInv
<1>2. ASSUME NEW l \in Loads
      PROVE  Truthful(load'[l], filled', entered', ToSet(log)')
  BY <1>2, TruthGrows, Zenon DEF LoadInv, Grown
<1> QED BY <1>1, <1>2 DEF LoadInv

LEMMA PostStays ==
  ASSUME PostInv, Grown, UNCHANGED post
  PROVE  PostInv'
BY Zenon DEF PostInv, Grown

(* A step that leaves the stream, the page and the operator alone.         *)
LEMMA DeskStays ==
  ASSUME DeskInv, Grown, UNCHANGED <<streamVars, pageVars, load, post>>
  PROVE  StreamInv' /\ PageInv' /\ LoadInv' /\ PostInv'
BY StreamStays, PageStays, LoadStays, PostStays DEF DeskInv, pageVars

LEMMA RedisStays ==
  ASSUME RedisInv, GradeInv, UNCHANGED redisVars
  PROVE  RedisInv' /\ GradeInv' /\ Grown
<1>1. UNCHANGED <<filled, open, ledger, entered, log, grading, regrading>>
  BY DEF redisVars
<1>2. ToSet(log)' = ToSet(log)
  BY <1>1
<1>3. Grown
  BY <1>1, <1>2 DEF Grown
<1> QED BY <1>1, <1>3, GradesStay DEF RedisInv

(* XADD.                                                                   *)
LEMMA EntryIsAdded ==
  ASSUME RedisInv, NEW e \in Entry(filled), AddEntry(e), UNCHANGED <<filled, open, log>>
  PROVE  RedisInv' /\ Grown
<1>1. ledger' = Append(ledger, e) /\ entered' = entered \cup {e}
  BY DEF AddEntry
<1>2. ledger \in Seq(entered') /\ e \in entered'
  BY <1>1, SeqMonotonic, Zenon DEF RedisInv
<1>3. ledger' \in Seq(entered')
  BY <1>1, <1>2, AppendKeeps, Zenon
<1>4. entered' \subseteq Entry(filled')
  BY <1>1 DEF RedisInv
<1>5. ToSet(log)' = ToSet(log)
  OBVIOUS
<1> QED BY <1>1, <1>3, <1>4, <1>5 DEF RedisInv, Grown

(* XDEL.                                                                   *)
LEMMA EntriesAreDeleted ==
  ASSUME RedisInv, ledger' \in Seq(entered), UNCHANGED <<filled, open, entered, log>>
  PROVE  RedisInv' /\ Grown
<1>1. ToSet(log)' = ToSet(log)
  OBVIOUS
<1> QED BY <1>1 DEF RedisInv, Grown

(* One poll changes, the others stay.                                      *)
LEMMA OnePoll ==
  ASSUME LoadInv, UNCHANGED redisVars, NEW l \in Loads, NEW p,
         Truthful(p, filled, entered, ToSet(log)), load' = [load EXCEPT ![l] = p]
  PROVE  LoadInv'
<1>1. UNCHANGED <<filled, entered, log>>
  BY DEF redisVars
<1>2. load' = [k \in Loads |-> load'[k]]
  BY Zenon DEF LoadInv
<1>3. ASSUME NEW k \in Loads
      PROVE  Truthful(load'[k], filled, entered, ToSet(log))
  <2>1. k \in DOMAIN load
    BY Zenon DEF LoadInv
  <2>2. load'[k] = IF k = l THEN p ELSE load[k]
    BY <2>1, Zenon
  <2> QED BY <2>2, Zenon DEF LoadInv
<1>4. ToSet(log)' = ToSet(log) /\ filled' = filled /\ entered' = entered
  BY <1>1
<1> QED BY <1>2, <1>3, <1>4, Zenon DEF LoadInv

LEMMA SpendCounts ==
  ASSUME BudgetInv, NEW kind \in Kinds, Spend(kind)
  PROVE  BudgetInv'
<1>1. budget[kind] - 1 \in Nat
  BY DEF BudgetInv, Spend
<1>2. budget' = [budget EXCEPT ![kind] = budget[kind] - 1]
  BY DEF Spend
<1> QED BY <1>1, <1>2, Zenon DEF BudgetInv

LEMMA SpentOrNot ==
  ASSUME BudgetInv, Spend("orders") \/ Spend("batches") \/ Spend("requests") \/ Spend("posts")
                      \/ Spend("faults") \/ UNCHANGED budget
  PROVE  BudgetInv'
<1>1. {"orders", "batches", "requests", "posts", "faults"} \subseteq Kinds
  BY DEF Kinds
<1>2. UNCHANGED budget => BudgetInv'
  BY DEF BudgetInv
<1> QED BY <1>1, <1>2, SpendCounts, Zenon

(* The connection is lost.                                                 *)
LEMMA LostKeeps ==
  ASSUME StreamInv, Lost, UNCHANGED <<filled, client, connected>>
  PROVE  StreamInv'
<1>1. PICK k \in 0..Len(pipe) : pipe' = SubSeq(pipe, 1, k)
  BY Zenon DEF Lost
<1>2. pipe' \in Seq(filled')
  <2>1. pipe \in Seq(filled) /\ 1 \in 1..(Len(pipe) + 1)
    BY DEF StreamInv
  <2> QED BY <1>1, <2>1, PartOf
<1>3. server' = "gone"
  BY DEF Lost
<1> QED BY <1>2, <1>3 DEF StreamInv

(* The graders and the operator's requests.                                *)
LEMMA StepOfExecutor ==
  ASSUME DeskInv,
         \/ adminPruneUnresolved \/ adminResetAnalytics
         \/ \E r \in Requests : adminRegradeDraws(r)
         \/ \E g \in Graders : TakeOrders(g) \/ ClearOrders(g)
         \/ \E g \in Graders, o \in Orders : recordSettlements(g, o)
  PROVE  DeskInv'
<1> USE DEF DeskInv
<1> DEFINE Marks == [todo : SUBSET filled, done : SUBSET filled]
           Reads == [step : {"none", "delete", "add"}, voids : Seq(Legacy \cap filled)]
<1>1. SUFFICES RedisInv' /\ GradeInv' /\ BudgetInv' /\ Grown
                 /\ UNCHANGED <<streamVars, pageVars, load, post>>
  BY DeskStays, Zenon
<1>2. ASSUME NEW g \in Graders, NEW s \in Marks, grading' = [grading EXCEPT ![g] = s],
             UNCHANGED <<filled, regrading>>
      PROVE  GradeInv'
  BY <1>2 DEF GradeInv
<1>3. ASSUME NEW r \in Requests, NEW s \in Reads, s.step # "none" => s.voids # <<>>,
             regrading' = [regrading EXCEPT ![r] = s], UNCHANGED <<filled, grading>>
      PROVE  GradeInv'
  <2>1. \A k \in Requests : regrading'[k] = IF k = r THEN s ELSE regrading[k]
    BY <1>3, Zenon DEF GradeInv
  <2>2. regrading' \in [Requests -> Reads]
    BY <1>3, Zenon DEF GradeInv
  <2> QED BY <1>3, <2>1, <2>2, Zenon DEF GradeInv
<1>4. \A g \in Graders : grading[g] \in Marks
  BY DEF GradeInv
<1>5. ASSUME NEW g \in Graders, TakeOrders(g)
      PROVE  RedisInv' /\ GradeInv' /\ BudgetInv' /\ Grown
               /\ UNCHANGED <<streamVars, pageVars, load, post>>
  <2>1. PICK taken \in (SUBSET open) \ {{}} : grading' = [grading EXCEPT ![g].todo = taken]
    BY <1>5, Zenon DEF TakeOrders
  <2>2. /\ UNCHANGED <<filled, open, ledger, entered, log, regrading, streamVars, pageVars, load,
                       post>>
        /\ Spend("batches")
    BY <1>5, Zenon DEF TakeOrders
  <2>3. taken \in SUBSET filled
    BY <2>1 DEF RedisInv
  <2>4. PICK s \in Marks : s = [grading[g] EXCEPT !.todo = taken]
    BY <1>4, <2>3
  <2>5. grading' = [grading EXCEPT ![g] = s]
    BY <2>1, <2>4 DEF GradeInv
  <2>6. GradeInv'
    BY <1>2, <2>2, <2>5, Zenon
  <2>7. RedisInv' /\ Grown
    BY <2>2, EntriesAreDeleted DEF RedisInv
  <2> QED BY <2>2, <2>6, <2>7, SpentOrNot, Zenon
<1>6. ASSUME NEW g \in Graders, NEW o \in Orders, recordSettlements(g, o)
      PROVE  RedisInv' /\ GradeInv' /\ BudgetInv' /\ Grown
               /\ UNCHANGED <<streamVars, pageVars, load, post>>
  <2>1. /\ o \in grading[g].todo
        /\ grading' = [grading EXCEPT ![g].todo = @ \ {o}, ![g].done = @ \cup {o}]
        /\ UNCHANGED <<filled, open, log, regrading, streamVars, pageVars, load, post>>
    BY <1>6, Zenon DEF recordSettlements
  <2>2. o \in filled
    BY <1>4, <2>1
  <2>3. PICK s \in Marks : s = [grading[g] EXCEPT !.todo = grading[g].todo \ {o},
                                                  !.done = grading[g].done \cup {o}]
    BY <1>4, <2>2
  <2>4. grading' = [grading EXCEPT ![g] = s]
    BY <2>1, <2>3 DEF GradeInv
  <2>5. GradeInv'
    BY <1>2, <2>1, <2>4, Zenon
  <2>6. CASE Spend("faults") /\ UNCHANGED <<ledger, entered>>
    <3>1. RedisInv' /\ Grown
      BY <2>1, <2>6, EntriesAreDeleted DEF RedisInv
    <3> QED BY <2>1, <2>5, <2>6, <3>1, SpentOrNot, Zenon
  <2>7. CASE \E result \in Outcomes(g, o) :
               AddEntry([order |-> o, result |-> result]) /\ UNCHANGED budget
    <3>1. PICK result \in Outcomes(g, o) :
            AddEntry([order |-> o, result |-> result]) /\ UNCHANGED budget
      BY <2>7
    <3>2. Grades[o] \subseteq Results
      BY SignalDeskAssumption
    <3>3. result \in Results
      BY <3>1, <3>2 DEF Results, Outcomes
    <3>4. [order |-> o, result |-> result] \in Entry(filled)
      BY <2>2, <3>3 DEF Entry
    <3>5. RedisInv' /\ Grown
      BY <2>1, <3>1, <3>4, EntryIsAdded, Zenon
    <3> QED BY <2>1, <2>5, <3>1, <3>5, SpentOrNot, Zenon
  <2>8. \/ \E result \in Outcomes(g, o) :
             AddEntry([order |-> o, result |-> result]) /\ UNCHANGED budget
        \/ Spend("faults") /\ UNCHANGED <<ledger, entered>>
    BY <1>6, Zenon DEF recordSettlements
  <2> QED BY <2>6, <2>7, <2>8
<1>7. ASSUME NEW g \in Graders, ClearOrders(g)
      PROVE  RedisInv' /\ GradeInv' /\ BudgetInv' /\ Grown
               /\ UNCHANGED <<streamVars, pageVars, load, post>>
  <2>1. /\ grading' = [grading EXCEPT ![g].done = {}]
        /\ UNCHANGED <<filled, ledger, entered, log, regrading, streamVars, pageVars, load, post>>
        /\ \/ open' = open \ grading[g].done /\ UNCHANGED budget
           \/ Spend("faults") /\ UNCHANGED open
    BY <1>7, Zenon DEF ClearOrders
  <2>2. PICK none : none = {}
    OBVIOUS
  <2>3. PICK s \in Marks : s = [grading[g] EXCEPT !.done = none]
    BY <1>4, <2>2
  <2>4. grading' = [grading EXCEPT ![g] = s]
    BY <2>1, <2>2, <2>3 DEF GradeInv
  <2>5. GradeInv'
    BY <1>2, <2>1, <2>4, Zenon
  <2>6. ToSet(log)' = ToSet(log) /\ open' \subseteq open
    BY <2>1
  <2>7. RedisInv' /\ Grown
    BY <2>1, <2>6 DEF RedisInv, Grown
  <2> QED BY <2>1, <2>5, <2>7, SpentOrNot, Zenon
<1>8. ASSUME adminPruneUnresolved
      PROVE  RedisInv' /\ GradeInv' /\ BudgetInv' /\ Grown
               /\ UNCHANGED <<streamVars, pageVars, load, post>>
  <2> DEFINE gone == {e \in entered : e.result = "unresolved"}
  <2>1. PICK k \in 1..Len(ledger) :
          ledger' = Without(SubSeq(ledger, 1, k), gone) \o SubSeq(ledger, k + 1, Len(ledger))
    BY <1>8, Zenon DEF adminPruneUnresolved
  <2>2. /\ UNCHANGED <<filled, open, entered, log, grading, regrading, streamVars, pageVars, load,
                       post>>
        /\ Spend("requests")
    BY <1>8, Zenon DEF adminPruneUnresolved
  <2> HIDE DEF gone
  <2>3. ledger \in Seq(entered)
    BY DEF RedisInv
  <2>4. 1 \in 1..(Len(ledger) + 1) /\ k + 1 \in 1..(Len(ledger) + 1)
          /\ k \in 0..Len(ledger) /\ Len(ledger) \in 0..Len(ledger)
    BY <2>3
  <2>5. SubSeq(ledger, 1, k) \in Seq(entered) /\ SubSeq(ledger, k + 1, Len(ledger)) \in Seq(entered)
    BY <2>3, <2>4, PartOf
  <2>6. Without(SubSeq(ledger, 1, k), gone) \in Seq(entered)
    BY <2>5, WithoutKeeps, Zenon
  <2>7. ledger' \in Seq(entered)
    BY <2>1, <2>5, <2>6, ConcatProperties, Zenon
  <2>8. RedisInv' /\ Grown
    BY <2>2, <2>7, EntriesAreDeleted, Zenon
  <2> QED BY <2>2, <2>8, GradesStay, SpentOrNot, Zenon
<1>9. ASSUME adminResetAnalytics
      PROVE  RedisInv' /\ GradeInv' /\ BudgetInv' /\ Grown
               /\ UNCHANGED <<streamVars, pageVars, load, post>>
  <2>1. /\ ledger' = <<>> /\ Spend("requests")
        /\ UNCHANGED <<filled, open, entered, log, grading, regrading, streamVars, pageVars, load,
                       post>>
    BY <1>9, Zenon DEF adminResetAnalytics
  <2>2. <<>> \in Seq(entered)
    OBVIOUS
  <2>3. RedisInv' /\ Grown
    BY <2>1, <2>2, EntriesAreDeleted, Zenon
  <2> QED BY <2>1, <2>3, GradesStay, SpentOrNot, Zenon
<1>10. NoRequest \in Reads /\ NoRequest.step = "none"
  <2>1. <<>> \in Seq(Legacy \cap filled)
    OBVIOUS
  <2> QED BY <2>1 DEF NoRequest
<1>11. \A r \in Requests : regrading[r] \in Reads
  BY DEF GradeInv
<1>12. ASSUME NEW r \in Requests, RegradeRead(r)
       PROVE  RedisInv' /\ GradeInv' /\ BudgetInv' /\ Grown
                /\ UNCHANGED <<streamVars, pageVars, load, post>>
  <2> DEFINE draws == Without(ledger, entered \ {Void(o) : o \in Legacy})
             orders == [i \in DOMAIN draws |-> draws[i].order]
  <2>1. /\ draws # <<>> /\ Spend("requests")
        /\ regrading' = [regrading EXCEPT ![r] = [step |-> "delete", voids |-> orders]]
        /\ UNCHANGED <<filled, open, ledger, entered, log, grading, streamVars, pageVars, load,
                       post>>
    BY <1>12, Zenon DEF RegradeRead
  <2>2. /\ draws \in Seq(entered)
        /\ \A i \in 1..Len(draws) : draws[i] \notin entered \ {Void(o) : o \in Legacy}
    BY WithoutKeeps, Zenon DEF RedisInv
  <2> HIDE DEF draws
  <2>3. DOMAIN draws = 1..Len(draws) /\ Len(draws) \in Nat /\ Len(draws) # 0
    BY <2>1, <2>2
  <2>4. \A i \in 1..Len(draws) : draws[i].order \in Legacy \cap filled
    <3>1. \A i \in 1..Len(draws) : draws[i] \in entered /\ draws[i] \in Entry(filled)
      BY <2>2 DEF RedisInv
    <3>2. \A i \in 1..Len(draws) : \E o \in Legacy : draws[i] = Void(o)
      BY <2>2, <3>1, Zenon
    <3>3. \A o : Void(o).order = o
      BY DEF Void
    <3>4. \A e \in Entry(filled) : e.order \in filled
      BY DEF Entry
    <3> QED BY <3>1, <3>2, <3>3, <3>4, Zenon
  <2>5. orders \in Seq(Legacy \cap filled) /\ Len(orders) = Len(draws)
    <3>1. orders \in [1..Len(draws) -> Legacy \cap filled]
      BY <2>3, <2>4
    <3> HIDE DEF orders
    <3> QED BY <2>3, <3>1, IsASeq
  <2> HIDE DEF orders
  <2>6. PICK s : s = [step |-> "delete", voids |-> orders]
    OBVIOUS
  <2>7. s \in Reads /\ s.voids # <<>>
    BY <2>3, <2>5, <2>6
  <2>8. GradeInv'
    BY <1>3, <2>1, <2>6, <2>7, Zenon
  <2>9. RedisInv' /\ Grown
    BY <2>1, EntriesAreDeleted DEF RedisInv
  <2> QED BY <2>1, <2>8, <2>9, SpentOrNot, Zenon
<1>13. ASSUME NEW r \in Requests, RegradeDelete(r)
       PROVE  RedisInv' /\ GradeInv' /\ BudgetInv' /\ Grown
                /\ UNCHANGED <<streamVars, pageVars, load, post>>
  <2>1. /\ regrading[r].step = "delete"
        /\ ledger' = Without(ledger, {Void(o) : o \in ToSet(regrading[r].voids)})
        /\ regrading' = [regrading EXCEPT ![r].step = "add"]
        /\ UNCHANGED <<filled, open, entered, log, grading, streamVars, pageVars, load, post,
                       budget>>
    BY <1>13, Zenon DEF RegradeDelete
  <2>2. regrading[r].voids # <<>>
    BY <2>1 DEF GradeInv
  <2>3. PICK add : add = "add"
    OBVIOUS
  <2>4. PICK s : s = [regrading[r] EXCEPT !.step = add]
    OBVIOUS
  <2>5. s \in Reads /\ s.voids # <<>>
    BY <1>11, <2>2, <2>3, <2>4
  <2>6. regrading' = [regrading EXCEPT ![r] = s]
    BY <2>1, <2>3, <2>4 DEF GradeInv
  <2>7. GradeInv'
    BY <1>3, <2>1, <2>5, <2>6, Zenon
  <2>8. ledger' \in Seq(entered)
    BY <2>1, WithoutKeeps, Zenon DEF RedisInv
  <2>9. RedisInv' /\ Grown
    BY <2>1, <2>8, EntriesAreDeleted, Zenon
  <2> QED BY <2>1, <2>7, <2>9, SpentOrNot, Zenon
<1>14. ASSUME NEW r \in Requests, RegradeAdd(r)
       PROVE  RedisInv' /\ GradeInv' /\ BudgetInv' /\ Grown
                /\ UNCHANGED <<streamVars, pageVars, load, post>>
  <2> DEFINE list == regrading[r].voids
             new == IF Tail(list) = <<>> THEN NoRequest ELSE [step |-> "add", voids |-> Tail(list)]
  <2>1. /\ regrading[r].step = "add" /\ AddEntry(Loss(Head(list)))
        /\ regrading' = [regrading EXCEPT ![r] = new]
        /\ UNCHANGED <<filled, open, log, grading, streamVars, pageVars, load, post, budget>>
    BY <1>14, Zenon DEF RegradeAdd
  <2>2. list \in Seq(Legacy \cap filled) /\ list # <<>>
    BY <1>11, <2>1 DEF GradeInv
  <2>3. Head(list) \in filled /\ Tail(list) \in Seq(Legacy \cap filled)
    <3> HIDE DEF list
    <3> QED BY <2>2, HeadTailProperties
  <2>4. new \in Reads /\ (new.step # "none" => new.voids # <<>>)
    <3> HIDE DEF list
    <3>1. CASE Tail(list) = <<>>
      BY <1>10, <3>1
    <3>2. CASE Tail(list) # <<>>
      <4>1. new = [step |-> "add", voids |-> Tail(list)]
        BY <3>2
      <4> HIDE DEF new
      <4> QED BY <2>3, <3>2, <4>1
    <3> QED BY <3>1, <3>2
  <2>5. GradeInv'
    <3> HIDE DEF new
    <3> QED BY <1>3, <2>1, <2>4, Zenon
  <2>6. Loss(Head(list)) \in Entry(filled)
    <3> HIDE DEF list
    <3> QED BY <2>3 DEF Loss, Entry, Results
  <2>7. RedisInv' /\ Grown
    BY <2>1, <2>6, EntryIsAdded, Zenon
  <2> QED BY <2>1, <2>5, <2>7, SpentOrNot, Zenon
<1>15. ASSUME NEW r \in Requests, RegradeFails(r)
       PROVE  RedisInv' /\ GradeInv' /\ BudgetInv' /\ Grown
                /\ UNCHANGED <<streamVars, pageVars, load, post>>
  <2>1. /\ regrading' = [regrading EXCEPT ![r] = NoRequest] /\ Spend("faults")
        /\ UNCHANGED <<filled, open, ledger, entered, log, grading, streamVars, pageVars, load,
                       post>>
    BY <1>15, Zenon DEF RegradeFails
  <2>2. GradeInv'
    BY <1>3, <1>10, <2>1, Zenon
  <2>3. RedisInv' /\ Grown
    BY <2>1, EntriesAreDeleted DEF RedisInv
  <2> QED BY <2>1, <2>2, <2>3, SpentOrNot, Zenon
<1> QED BY <1>5, <1>6, <1>7, <1>8, <1>9, <1>12, <1>13, <1>14, <1>15, Zenon DEF adminRegradeDraws

LEMMA StepDesk ==
  ASSUME DeskInv, [Next]_vars
  PROVE  DeskInv'
<1> USE DEF DeskInv
<1>1. ASSUME NEW o \in Orders, ExecuteEnvelope(o) PROVE DeskInv'
  <2> USE DEF ExecuteEnvelope, pageVars, listVars
  <2>1. /\ filled' = filled \cup {o}
        /\ UNCHANGED <<ledger, entered, log, grading, regrading, client, server>>
        /\ open' \in {open, open \cup {o}}
    BY <1>1
  <2>2. ToSet(log)' = ToSet(log)
    BY <2>1
  <2>3. Grown
    BY <2>1, <2>2 DEF Grown
  <2>4. Seq(filled) \subseteq Seq(filled') /\ Entry(filled) \subseteq Entry(filled')
    BY <2>1, SeqMonotonic DEF Entry
  <2>5. RedisInv'
    <3>1. open' \subseteq filled' /\ filled' \subseteq Orders
      BY <2>1 DEF RedisInv
    <3> QED BY <2>1, <2>4, <3>1 DEF RedisInv
  <2>6. StreamInv'
    <3>1. pipe \in Seq(filled') /\ o \in filled'
      BY <2>1, <2>4 DEF StreamInv
    <3>2. Append(pipe, o) \in Seq(filled')
      BY <3>1, AppendKeeps, Zenon
    <3>3. pipe' = Append(pipe, o) \/ pipe' = pipe
      BY <1>1
    <3>4. UNCHANGED connected
      BY <1>1
    <3> QED BY <2>1, <3>1, <3>2, <3>3, <3>4, Zenon DEF StreamInv
  <2>7. GradeInv' /\ PageInv' /\ LoadInv' /\ PostInv'
    BY <1>1, <2>1, <2>3, GradesStay, PageStays, LoadStays, PostStays
  <2>8. BudgetInv'
    BY <1>1, SpentOrNot
  <2> QED BY <2>5, <2>6, <2>7, <2>8, Zenon
<1>2. CASE \/ adminPruneUnresolved \/ adminResetAnalytics
           \/ \E r \in Requests : adminRegradeDraws(r)
           \/ \E g \in Graders : TakeOrders(g) \/ ClearOrders(g)
           \/ \E g \in Graders, o \in Orders : recordSettlements(g, o)
  BY <1>2, StepOfExecutor, Zenon
<1>3. ASSUME UNCHANGED redisVars
      PROVE  RedisInv' /\ GradeInv' /\ Grown
  BY <1>3, RedisStays
<1>4. CASE Upgrade \/ StreamSubscribe \/ Dial
  <2>1. /\ UNCHANGED <<redisVars, pipe, pageVars, load, post, budget>>
        /\ client' \in {client, "dialling"} /\ (client' = client \/ client = "waiting")
        /\ server' \in {server, "upgraded", "subscribed"}
    BY <1>4, Zenon DEF Upgrade, StreamSubscribe, Dial
  <2>2. RedisInv' /\ GradeInv' /\ Grown
    BY <1>3, <2>1
  <2>3. StreamInv'
    <3>1. UNCHANGED <<filled, pipe, connected>>
      BY <2>1 DEF redisVars, pageVars
    <3> QED BY <2>1, <3>1 DEF StreamInv
  <2>4. PageInv' /\ LoadInv' /\ PostInv' /\ BudgetInv'
    BY <2>1, <2>2, PageStays, LoadStays, PostStays, SpentOrNot DEF pageVars
  <2> QED BY <2>2, <2>3, <2>4, Zenon
<1>5. CASE Disconnect
  <2>1. /\ UNCHANGED <<redisVars, client, pageVars, load, post>> /\ Spend("faults") /\ Lost
    BY <1>5, Zenon DEF Disconnect
  <2>2. RedisInv' /\ GradeInv' /\ Grown
    BY <1>3, <2>1
  <2>3. StreamInv'
    BY <2>1, LostKeeps DEF redisVars, pageVars
  <2>4. PageInv' /\ LoadInv' /\ PostInv' /\ BudgetInv'
    BY <2>1, <2>2, PageStays, LoadStays, PostStays, SpentOrNot DEF pageVars
  <2> QED BY <2>2, <2>3, <2>4, Zenon
<1>20. CASE Restart
  <2>1. /\ Spend("faults")
        /\ grading' = [g \in Graders |-> AtRest]
        /\ regrading' = [r \in Requests |-> NoRequest]
        /\ Lost \/ UNCHANGED <<server, pipe>>
        /\ UNCHANGED <<filled, open, ledger, entered, log, client, pageVars, load, post>>
    BY <1>20, Zenon DEF Restart
  <2>2. RedisInv' /\ Grown
    BY <2>1, EntriesAreDeleted DEF RedisInv
  <2>3. GradeInv'
    <3>1. <<>> \in Seq(Legacy \cap filled')
      OBVIOUS
    <3> QED BY <2>1, <3>1 DEF GradeInv, AtRest, NoRequest
  <2>4. StreamInv'
    <3>1. UNCHANGED <<filled, client, connected>>
      BY <2>1 DEF pageVars
    <3>2. Lost => StreamInv'
      BY <3>1, LostKeeps
    <3>3. UNCHANGED <<server, pipe>> => StreamInv'
      BY <2>2, <3>1, StreamStays DEF streamVars
    <3> QED BY <2>1, <3>2, <3>3
  <2>5. PageInv' /\ LoadInv' /\ PostInv' /\ BudgetInv'
    BY <2>1, <2>2, PageStays, LoadStays, PostStays, SpentOrNot DEF pageVars
  <2> QED BY <2>2, <2>3, <2>4, <2>5, Zenon
<1>6. ASSUME NEW now, Reconnected(now), UNCHANGED redisVars PROVE LoadInv' /\ connected' = now
  <2>1. load' = [l \in Loads |-> IF l = CHOOSE k \in Loads : TRUE THEN Asked ELSE Idle]
        /\ connected' = now
    BY <1>6, Zenon DEF Reconnected
  <2>2. \A l \in Loads : load'[l] = Asked \/ load'[l] = Idle
    BY <2>1
  <2>3. \A l \in Loads : Truthful(load'[l], filled', entered', ToSet(log)')
    BY <2>2, EmptyIsTruthful, Zenon
  <2>4. load' = [l \in Loads |-> load'[l]]
    BY <2>1
  <2> QED BY <2>1, <2>3, <2>4 DEF LoadInv
<1>7. CASE OnOpen
  <2>1. /\ client' = "open" /\ Reconnected(TRUE)
        /\ UNCHANGED <<redisVars, server, pipe, signals, listVars, loading, post, budget>>
    BY <1>7, Zenon DEF OnOpen
  <2>2. RedisInv' /\ GradeInv' /\ Grown /\ LoadInv' /\ connected' = TRUE
    BY <1>3, <1>6, <2>1
  <2>3. StreamInv'
    <3>1. UNCHANGED filled
      BY <2>1 DEF redisVars
    <3> QED BY <2>1, <2>2, <3>1 DEF StreamInv
  <2>4. PageInv' /\ PostInv' /\ BudgetInv'
    BY <2>1, <2>2, PageStays, PostStays, SpentOrNot
  <2> QED BY <2>2, <2>3, <2>4, Zenon
<1>8. CASE OnClose
  <2>1. /\ client' = "waiting" /\ server' = "none" /\ Reconnected(FALSE)
        /\ UNCHANGED <<redisVars, pipe, signals, listVars, loading, post, budget>>
    BY <1>8, Zenon DEF OnClose
  <2>2. RedisInv' /\ GradeInv' /\ Grown /\ LoadInv' /\ connected' = FALSE
    BY <1>3, <1>6, <2>1
  <2>3. StreamInv'
    <3>1. UNCHANGED filled
      BY <2>1 DEF redisVars
    <3> QED BY <2>1, <2>2, <3>1 DEF StreamInv
  <2>4. PageInv' /\ PostInv' /\ BudgetInv'
    BY <2>1, <2>2, PageStays, PostStays, SpentOrNot
  <2> QED BY <2>2, <2>3, <2>4, Zenon
<1>9. CASE OnRefused
  <2>1. /\ client = "dialling" /\ client' = "waiting" /\ server' = "none" /\ pipe' = <<>>
        /\ UNCHANGED <<redisVars, pageVars, load, post, budget>>
    BY <1>9, Zenon DEF OnRefused
  <2>2. RedisInv' /\ GradeInv' /\ Grown
    BY <1>3, <2>1
  <2>3. StreamInv'
    <3>1. UNCHANGED <<filled, connected>>
      BY <2>1 DEF redisVars, pageVars
    <3> QED BY <2>1, <3>1 DEF StreamInv
  <2>4. PageInv' /\ LoadInv' /\ PostInv' /\ BudgetInv'
    BY <2>1, <2>2, PageStays, LoadStays, PostStays, SpentOrNot DEF pageVars
  <2> QED BY <2>2, <2>3, <2>4, Zenon
<1>10. CASE OnMessage
  <2> DEFINE new == Shortened(<<Head(pipe)>> \o Without(signals, {Head(pipe)}))
  <2>1. /\ pipe # <<>> /\ signals' = new /\ pipe' = Tail(pipe)
        /\ UNCHANGED <<redisVars, client, server, connected, listVars, loading, load, post, budget>>
    BY <1>10, Zenon DEF OnMessage
  <2>2. Head(pipe) \in filled /\ Tail(pipe) \in Seq(filled)
    BY <2>1, HeadTailProperties DEF StreamInv
  <2>3. new \in Seq(filled) /\ NoneTwice(new) /\ Len(new) <= Limit
    BY <2>2, FirstKeeps, Zenon DEF PageInv
  <2> HIDE DEF new
  <2>4. RedisInv' /\ GradeInv' /\ Grown
    BY <1>3, <2>1
  <2>5. UNCHANGED <<filled, entered, log, settled, placed>>
    BY <2>1 DEF redisVars, listVars
  <2>6. StreamInv'
    BY <2>1, <2>2, <2>5, Zenon DEF StreamInv
  <2>7. PageInv'
    <3>1. NoneTwice(signals)' = NoneTwice(new) /\ ToSet(log)' = ToSet(log)
      BY <2>1, <2>5
    <3>2. /\ signals' \in Seq(filled') /\ Len(signals') <= Limit
          /\ loading' \in BOOLEAN /\ placed' = placed /\ settled' \in Seq(entered')
      BY <2>1, <2>3, <2>5, Zenon DEF PageInv
    <3> QED BY <2>3, <3>1, <3>2, Zenon DEF PageInv
  <2>8. LoadInv' /\ PostInv' /\ BudgetInv'
    BY <2>1, <2>4, LoadStays, PostStays, SpentOrNot
  <2> QED BY <2>4, <2>6, <2>7, <2>8, Zenon
<1>11. ASSUME NEW l \in Loads, UNCHANGED <<redisVars, streamVars, pageVars, post, budget>>,
              NEW p, Truthful(p, filled, entered, ToSet(log)),
              load' = [load EXCEPT ![l] = p]
       PROVE  DeskInv'
  <2>1. RedisInv' /\ GradeInv' /\ Grown /\ LoadInv'
    BY <1>3, <1>11, OnePoll
  <2>2. StreamInv' /\ PageInv' /\ PostInv' /\ BudgetInv'
    BY <1>11, <2>1, StreamStays, PageStays, PostStays, SpentOrNot DEF pageVars
  <2> QED BY <2>1, <2>2, Zenon
<1>12. ASSUME NEW l \in Loads, Poll(l) PROVE DeskInv'
  <2>1. /\ UNCHANGED <<redisVars, streamVars, pageVars, post, budget>>
        /\ load' = [load EXCEPT ![l] = Asked]
    BY <1>12, Zenon DEF Poll
  <2> QED BY <1>11, <2>1, EmptyIsTruthful, Zenon
<1>13. ASSUME NEW l \in Loads, Serve(l) PROVE DeskInv'
  <2> DEFINE p == load[l]
  <2>1. Truthful(p, filled, entered, ToSet(log))
    BY Zenon DEF LoadInv
  <2>2. ASSUME NEW list, NEW value, Answer(l, list, value),
               \/ list = "active" /\ value \in Seq(filled) /\ NoneTwice(value)
               \/ list = "ledger" /\ value \in Seq(entered)
               \/ list = "placements" /\ value \subseteq ToSet(log)
        PROVE  DeskInv'
    <3> DEFINE q == [p EXCEPT !.todo = p.todo \ {list}, ![list] = value]
    <3>1. load' = [load EXCEPT ![l] = q]
      <4>1. load' = [load EXCEPT ![l].todo = @ \ {list}, ![l][list] = value]
        BY <2>2, Zenon DEF Answer
      <4>2. l \in DOMAIN load
        BY Zenon DEF LoadInv
      <4> QED BY <4>1, <4>2
    <3>2. p \in [busy : BOOLEAN, todo : SUBSET Lists,
                 active : Seq(filled), ledger : Seq(entered), placements : SUBSET ToSet(log)]
      BY <2>1, Zenon DEF Truthful
    <3>3. NoneTwice(p.active)
      BY <2>1, Zenon DEF Truthful
    <3> HIDE DEF p
    <3>4. p.todo \ {list} \in SUBSET Lists
      BY <3>2
    <3>5. PICK rest \in SUBSET Lists : q = [p EXCEPT !.todo = rest, ![list] = value]
      BY <3>4, Zenon
    <3> HIDE DEF q
    <3>6. Truthful(q, filled, entered, ToSet(log))
      <4>1. CASE list = "active" /\ value \in Seq(filled) /\ NoneTwice(value)
        <5>1. q = [p EXCEPT !.todo = rest, !.active = value]
          BY <3>5, <4>1, Zenon
        <5>2. /\ q \in [busy : BOOLEAN, todo : SUBSET Lists, active : Seq(filled),
                        ledger : Seq(entered), placements : SUBSET ToSet(log)]
              /\ q.active = value
          BY <3>2, <4>1, <5>1
        <5> QED BY <3>3, <4>1, <5>2, Zenon DEF Truthful
      <4>2. CASE list = "ledger" /\ value \in Seq(entered)
        <5>1. q = [p EXCEPT !.todo = rest, !.ledger = value]
          BY <3>5, <4>2, Zenon
        <5>2. /\ q \in [busy : BOOLEAN, todo : SUBSET Lists, active : Seq(filled),
                        ledger : Seq(entered), placements : SUBSET ToSet(log)]
              /\ q.active = p.active
          BY <3>2, <4>2, <5>1
        <5> QED BY <3>3, <4>2, <5>2, Zenon DEF Truthful
      <4>3. CASE list = "placements" /\ value \subseteq ToSet(log)
        <5>1. q = [p EXCEPT !.todo = rest, !.placements = value]
          BY <3>5, <4>3, Zenon
        <5>2. /\ q \in [busy : BOOLEAN, todo : SUBSET Lists, active : Seq(filled),
                        ledger : Seq(entered), placements : SUBSET ToSet(log)]
              /\ q.active = p.active
          BY <3>2, <4>3, <5>1
        <5> QED BY <3>3, <4>3, <5>2, Zenon DEF Truthful
      <4> QED BY <2>2, <4>1, <4>2, <4>3, Zenon
    <3>7. UNCHANGED <<redisVars, streamVars, pageVars, post, budget>>
      BY <2>2, Zenon DEF Answer
    <3> QED BY <1>11, <3>1, <3>6, <3>7, Zenon
  <2>3. CASE activeSignals(l)
    <3>1. PICK list \in SetToSeqs(open) : Answer(l, "active", list)
      BY <2>3, Zenon DEF activeSignals
    <3>2. IsFiniteSet(open) /\ open \subseteq filled
      BY SignalDeskAssumption, FS_Subset, Zenon DEF RedisInv
    <3>3. list \in Seq(filled) /\ NoneTwice(list)
      BY <3>1, <3>2, SequencesOf, SeqMonotonic, Zenon
    <3> QED BY <2>2, <3>1, <3>3, Zenon
  <2>4. CASE analyticsLedger(l)
    <3>1. Newest(ledger) \in Seq(entered)
      BY NewestKeeps, Zenon DEF RedisInv
    <3>2. Answer(l, "ledger", Newest(ledger))
      BY <2>4, Zenon DEF analyticsLedger
    <3> QED BY <2>2, <3>1, <3>2, Zenon
  <2>5. CASE operatorPlacements(l)
    <3>1. ToSet(Newest(log)) \subseteq ToSet(log)
      BY NewestKeeps, Zenon DEF RedisInv
    <3>2. Answer(l, "placements", ToSet(Newest(log)))
      BY <2>5, Zenon DEF operatorPlacements
    <3> QED BY <2>2, <3>1, <3>2, Zenon
  <2> QED BY <1>13, <2>3, <2>4, <2>5, Zenon DEF Serve
<1>14. ASSUME NEW l \in Loads, Loaded(l) PROVE DeskInv'
  <2> DEFINE p == load[l]
  <2>1. /\ settled' = p.ledger /\ placed' = p.placements
        /\ signals' = IF connected \/ p.active = <<>> THEN signals ELSE Seeded(p.active)
        /\ load' = [load EXCEPT ![l] = Idle] /\ loading' = FALSE
        /\ UNCHANGED <<redisVars, streamVars, connected, post, budget>>
    BY <1>14, Zenon DEF Loaded
  <2>2. Truthful(p, filled, entered, ToSet(log))
    BY Zenon DEF LoadInv
  <2>3. /\ p.active \in Seq(filled) /\ NoneTwice(p.active)
        /\ p.ledger \in Seq(entered) /\ p.placements \subseteq ToSet(log)
    BY <2>2 DEF Truthful
  <2> HIDE DEF p
  <2>4. RedisInv' /\ GradeInv' /\ Grown
    BY <1>3, <2>1
  <2>5. LoadInv'
    BY <2>1, OnePoll, EmptyIsTruthful, Zenon
  <2>6. UNCHANGED <<filled, entered, log>>
    BY <2>1 DEF redisVars
  <2>7. signals' \in Seq(filled) /\ NoneTwice(signals') /\ Len(signals') <= Limit
    <3>1. signals \in Seq(filled) /\ NoneTwice(signals) /\ Len(signals) <= Limit
      BY DEF PageInv
    <3>2. /\ Seeded(p.active) \in Seq(filled) /\ NoneTwice(Seeded(p.active))
          /\ Len(Seeded(p.active)) <= Limit
      BY <2>3, <3>1, SeededKeeps, Zenon
    <3>3. signals' = signals \/ signals' = Seeded(p.active)
      BY <2>1, Zenon
    <3> QED BY <3>1, <3>2, <3>3, Zenon
  <2>8. PageInv'
    <3>1. ToSet(log)' = ToSet(log) /\ NoneTwice(signals)' = NoneTwice(signals')
      BY <2>6
    <3>2. /\ loading' \in BOOLEAN /\ placed' = p.placements /\ filled' = filled
          /\ settled' \in Seq(entered')
      BY <2>1, <2>3, <2>6
    <3> QED BY <2>3, <2>7, <3>1, <3>2, Zenon DEF PageInv
  <2>9. StreamInv' /\ PostInv' /\ BudgetInv'
    BY <2>1, <2>4, StreamStays, PostStays, SpentOrNot
  <2> QED BY <2>4, <2>5, <2>8, <2>9, Zenon
<1>15. ASSUME NEW l \in Loads, LoadFails(l) PROVE DeskInv'
  <2>1. /\ Spend("faults") /\ load' = [load EXCEPT ![l] = Idle] /\ loading' = FALSE
        /\ UNCHANGED <<redisVars, streamVars, connected, signals, listVars, post>>
    BY <1>15, Zenon DEF LoadFails
  <2>2. RedisInv' /\ GradeInv' /\ Grown
    BY <1>3, <2>1
  <2>3. LoadInv'
    BY <2>1, OnePoll, EmptyIsTruthful, Zenon
  <2>4. PageInv'
    <3>1. UNCHANGED <<filled, entered, log, signals, settled, placed>>
      BY <2>1 DEF redisVars, listVars
    <3>2. ToSet(log)' = ToSet(log) /\ NoneTwice(signals)' = NoneTwice(signals)
      BY <3>1
    <3>3. loading' \in BOOLEAN
      BY <2>1
    <3> QED BY <3>1, <3>2, <3>3, Zenon DEF PageInv
  <2>5. StreamInv' /\ PostInv' /\ BudgetInv'
    BY <2>1, <2>2, StreamStays, PostStays, SpentOrNot
  <2> QED BY <2>2, <2>3, <2>4, <2>5, Zenon
<1>16. ASSUME NEW o \in Orders, handlePlace(o) PROVE DeskInv'
  <2>1. /\ o \in ToSet(signals) /\ post' = [post EXCEPT ![o] = "sent"]
        /\ UNCHANGED <<redisVars, streamVars, pageVars, load>> /\ Spend("posts")
    BY <1>16, Zenon DEF handlePlace
  <2>2. RedisInv' /\ GradeInv' /\ Grown
    BY <1>3, <2>1
  <2>3. o \in filled
    BY <2>1, ToSetIs, Zenon DEF PageInv
  <2>4. PostInv'
    <3>1. UNCHANGED <<filled, log>> /\ ToSet(log)' = ToSet(log)
      BY <2>1 DEF redisVars
    <3>2. /\ post' \in [Orders -> {"none", "sent", "recorded"}]
          /\ \A x \in Orders : post'[x] = IF x = o THEN "sent" ELSE post[x]
      BY <2>1 DEF PostInv
    <3> QED BY <2>3, <3>1, <3>2 DEF PostInv
  <2>5. StreamInv' /\ PageInv' /\ LoadInv' /\ BudgetInv'
    BY <2>1, <2>2, StreamStays, PageStays, LoadStays, SpentOrNot DEF pageVars
  <2> QED BY <2>2, <2>4, <2>5, Zenon
<1>17. ASSUME NEW o \in Orders, operatorPlace(o) PROVE DeskInv'
  <2>1. PICK ok \in BOOLEAN :
          /\ RecordPlacement(o, ok)
          /\ post' = [post EXCEPT ![o] = IF ok THEN "recorded" ELSE "none"]
          /\ IF ok THEN UNCHANGED budget ELSE Spend("faults")
    BY <1>17, Zenon DEF operatorPlace
  <2>2. /\ post[o] = "sent"
        /\ UNCHANGED <<filled, open, ledger, entered, grading, regrading, streamVars, connected,
                       signals, listVars, loading, load>>
    BY <1>17, Zenon DEF operatorPlace
  <2>3. o \in filled /\ log \in Seq(filled)
    BY <2>2 DEF PostInv, RedisInv
  <2>4. Append(log, o) \in Seq(filled) /\ ToSet(Append(log, o)) = ToSet(log) \cup {o}
    BY <2>3, AppendKeeps
  <2>5. log' = Append(log, o) \/ (~ok /\ log' = log)
    BY <2>1, Zenon DEF RecordPlacement
  <2>6. log' \in Seq(filled) /\ ToSet(log) \subseteq ToSet(log') /\ (ok => o \in ToSet(log'))
    <3>1. CASE log' = Append(log, o)
      BY <2>4, <3>1, Zenon
    <3>2. CASE ~ok /\ log' = log
      BY <2>3, <3>2, Zenon
    <3> QED BY <2>5, <3>1, <3>2
  <2>7. ToSet(log)' = ToSet(log')
    OBVIOUS
  <2>8. Grown
    BY <2>2, <2>6, <2>7 DEF Grown
  <2>9. RedisInv' /\ GradeInv'
    BY <2>2, <2>6, <2>8, GradesStay, Zenon DEF RedisInv
  <2>10. PostInv'
    <3>1. /\ post' \in [Orders -> {"none", "sent", "recorded"}]
          /\ \A x \in Orders : x # o => post'[x] = post[x]
          /\ post'[o] = "recorded" => ok
      BY <2>1 DEF PostInv
    <3>2. ASSUME NEW x \in Orders
          PROVE  /\ post'[x] # "none" => x \in filled'
                 /\ post'[x] = "recorded" => x \in ToSet(log')
      BY <2>2, <2>3, <2>6, <3>1, Zenon DEF PostInv
    <3> QED BY <2>7, <3>1, <3>2, Zenon DEF PostInv
  <2>11. BudgetInv'
    BY <2>1, SpentOrNot
  <2>12. StreamInv' /\ PageInv' /\ LoadInv'
    BY <2>2, <2>8, StreamStays, PageStays, LoadStays
  <2> QED BY <2>9, <2>10, <2>11, <2>12, Zenon
<1>18. ASSUME NEW o \in Orders, Answered(o) PROVE DeskInv'
  <2>1. /\ post[o] = "recorded" /\ post' = [post EXCEPT ![o] = "none"]
        /\ \/ placed' = placed \cup {o} /\ UNCHANGED budget
           \/ Spend("faults") /\ UNCHANGED placed
        /\ UNCHANGED <<redisVars, streamVars, connected, signals, settled, loading, load>>
    BY <1>18, Zenon DEF Answered
  <2>2. RedisInv' /\ GradeInv' /\ Grown
    BY <1>3, <2>1
  <2>3. UNCHANGED <<filled, entered, log>> /\ ToSet(log)' = ToSet(log)
    BY <2>1 DEF redisVars
  <2>4. PostInv'
    <3>1. /\ post' \in [Orders -> {"none", "sent", "recorded"}]
          /\ \A x \in Orders : post'[x] = IF x = o THEN "none" ELSE post[x]
      BY <2>1 DEF PostInv
    <3> QED BY <2>3, <3>1 DEF PostInv
  <2>5. PageInv'
    <3>1. placed' \subseteq ToSet(log)
      BY <2>1, Zenon DEF PageInv, PostInv
    <3>2. NoneTwice(signals)' = NoneTwice(signals)
      BY <2>1
    <3> QED BY <2>1, <2>3, <3>1, <3>2, Zenon DEF PageInv
  <2>6. StreamInv' /\ LoadInv'
    BY <2>1, <2>2, StreamStays, LoadStays
  <2>7. BudgetInv'
    BY <2>1, SpentOrNot
  <2> QED BY <2>2, <2>4, <2>5, <2>6, <2>7, Zenon
<1>19. CASE UNCHANGED vars
  <2>1. UNCHANGED <<redisVars, streamVars, pageVars, load, post, budget>>
    BY <1>19, Zenon DEF vars
  <2> QED BY <1>3, <2>1, StreamStays, PageStays, LoadStays, PostStays, SpentOrNot DEF pageVars
<1> QED BY <1>1, <1>2, <1>4, <1>5, <1>7, <1>8, <1>9, <1>10, <1>12, <1>13, <1>14, <1>15,
           <1>16, <1>17, <1>18, <1>19, <1>20, Zenon DEF Next

(* The desk never shows an order twice, and what its tables say the        *)
(* executor once said: a settled entry was once in the ledger, although    *)
(* graders may enter an order twice and an operator deletes entries, and a *)
(* placed order is in the log (page.jsx:23-82, useSignalStream.js:16-55,   *)
(* interfaces.go:176-185, broker/operator.go:60-90).                       *)
THEOREM DeskTypes == Spec => []TypeOK
<1>1. Init => DeskInv
  BY InitDesk
<1>2. DeskInv /\ [Next]_vars => DeskInv'
  BY StepDesk
<1>3. DeskInv => TypeOK
  BY InvTypes
<1> QED BY <1>1, <1>2, <1>3, PTL DEF Spec
=============================================================================
