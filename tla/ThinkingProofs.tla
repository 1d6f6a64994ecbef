--------------------------- MODULE ThinkingProofs ---------------------------
(***************************************************************************)
(* Proofs about Thinking, for any seats, domains and limits: whoever was   *)
(* summoned is in one list once, however often the stream hands off and    *)
(* wherever it breaks off; nobody is asked twice; no call is left behind;  *)
(* and what was heard is shown.                                            *)
(***************************************************************************)
EXTENDS Thinking, FiniteSetTheorems, SequenceTheorems, WellFoundedInduction, TLAPS

-----------------------------------------------------------------------------
(* Induction over the natural numbers, as a fact about sets.               *)

\* A set of numbers that is not empty has a least one.
LEMMA LeastOf ==
    ASSUME NEW T \in SUBSET Nat, T # {}
    PROVE  \E n \in T : \A m \in T : n <= m
<1> DEFINE R == OpToRel(<, Nat)
<1>1. IsWellFoundedOn(R, Nat)
  BY NatLessThanWellFounded
<1> HIDE DEF R
<1>2. PICK x \in T : \A y \in T : ~ (<<y, x>> \in R)
  BY <1>1, WFMin
<1>3. \A y \in Nat : y < x => <<y, x>> \in R
  BY DEF R, OpToRel
<1>4. \A y \in T : ~ (y < x)
  BY <1>2, <1>3
<1> QED BY <1>4

\* A set with 0 and with the successor of each of its numbers is Nat.
LEMMA Induct ==
    ASSUME NEW T \in SUBSET Nat, 0 \in T, \A n \in Nat : n \in T => n + 1 \in T
    PROVE  T = Nat
<1> DEFINE U == Nat \ T
<1> SUFFICES ASSUME U # {} PROVE FALSE
  OBVIOUS
<1>1. PICK n \in U : \A m \in U : n <= m
  BY LeastOf
<1>2. n # 0 /\ n \in Nat
  BY <1>1
<1>3. n - 1 \in Nat /\ n - 1 \notin U /\ n = (n - 1) + 1
  BY <1>1, <1>2
<1>4. n - 1 \in T
  BY <1>3
<1>5. n \in T
  BY <1>3, <1>4
<1> QED BY <1>1, <1>5

-----------------------------------------------------------------------------
(* Sequences of seats.                                                     *)

\* What a concatenation holds.
LEMMA RangeOfConcat ==
    ASSUME NEW S, NEW p \in Seq(S), NEW q \in Seq(S)
    PROVE  p \o q \in Seq(S) /\ ToSet(p \o q) = ToSet(p) \cup ToSet(q)
<1> DEFINE r == p \o q
<1>1. /\ r \in Seq(S) /\ Len(r) = Len(p) + Len(q) /\ Len(p) \in Nat /\ Len(q) \in Nat
      /\ DOMAIN p = 1..Len(p) /\ DOMAIN q = 1..Len(q) /\ DOMAIN r = 1..Len(p) + Len(q)
  BY ConcatProperties, LenProperties
<1>2. /\ \A i \in 1..Len(p) : r[i] = p[i]
      /\ \A i \in 1..Len(q) : r[Len(p) + i] = q[i]
  BY <1>1, ConcatProperties
<1> HIDE DEF r
<1>3. ToSet(r) \subseteq ToSet(p) \cup ToSet(q)
  <2> SUFFICES ASSUME NEW i \in 1..Len(p) + Len(q)
               PROVE  r[i] \in ToSet(p) \cup ToSet(q)
    BY <1>1 DEF ToSet
  <2>1. CASE i \in 1..Len(p) BY <1>1, <1>2, <2>1 DEF ToSet
  <2>2. CASE i \notin 1..Len(p)
    <3>1. i - Len(p) \in 1..Len(q) /\ Len(p) + (i - Len(p)) = i BY <1>1, <2>2
    <3> QED BY <1>1, <1>2, <3>1 DEF ToSet
  <2> QED BY <2>1, <2>2
<1>4. ToSet(p) \subseteq ToSet(r)
  <2>1. \A i \in 1..Len(p) : i \in 1..Len(p) + Len(q) BY <1>1
  <2> QED BY <1>1, <1>2, <2>1 DEF ToSet
<1>5. ToSet(q) \subseteq ToSet(r)
  <2>1. \A i \in 1..Len(q) : Len(p) + i \in 1..Len(p) + Len(q) BY <1>1
  <2> QED BY <1>1, <1>2, <2>1 DEF ToSet
<1> QED BY <1>1, <1>3, <1>4, <1>5 DEF r

\* One of injective sequences that have nothing in common is injective.
LEMMA InjectiveConcat ==
    ASSUME NEW S, NEW p \in Seq(S), NEW q \in Seq(S), IsInjective(p), IsInjective(q),
           ToSet(p) \cap ToSet(q) = {}
    PROVE  IsInjective(p \o q)
<1> DEFINE r == p \o q
<1>1. /\ Len(p) \in Nat /\ Len(q) \in Nat /\ DOMAIN p = 1..Len(p) /\ DOMAIN q = 1..Len(q)
      /\ DOMAIN r = 1..Len(p) + Len(q)
      /\ \A i \in 1..Len(p) : r[i] = p[i]
      /\ \A i \in 1..Len(q) : r[Len(p) + i] = q[i]
  BY ConcatProperties, LenProperties
<1> HIDE DEF r
<1>2. \A i \in DOMAIN r : \/ i \in 1..Len(p) /\ r[i] = p[i]
                          \/ i - Len(p) \in 1..Len(q) /\ r[i] = q[i - Len(p)]
  <2> SUFFICES ASSUME NEW i \in 1..Len(p) + Len(q), i \notin 1..Len(p)
               PROVE  i - Len(p) \in 1..Len(q) /\ r[i] = q[i - Len(p)]
    BY <1>1
  <2>1. i - Len(p) \in 1..Len(q) /\ Len(p) + (i - Len(p)) = i BY <1>1
  <2> QED BY <1>1, <2>1
<1>3. ASSUME NEW i \in DOMAIN r, NEW j \in DOMAIN r, r[i] = r[j] PROVE i = j
  <2>1. CASE i \in 1..Len(p) /\ j \in 1..Len(p)
    BY <1>1, <1>3, <2>1 DEF IsInjective
  <2>2. CASE i \notin 1..Len(p) /\ j \notin 1..Len(p)
    <3>1. i - Len(p) = j - Len(p) BY <1>1, <1>2, <1>3, <2>2 DEF IsInjective
    <3>2. i \in Nat /\ j \in Nat BY <1>1
    <3> QED BY <1>1, <3>1, <3>2
  <2>3. CASE i \in 1..Len(p) /\ j \notin 1..Len(p)
    <3>1. p[i] \in ToSet(p) /\ q[j - Len(p)] \in ToSet(q) /\ p[i] = q[j - Len(p)]
      BY <1>1, <1>2, <1>3, <2>3 DEF ToSet
    <3> QED BY <3>1
  <2>4. CASE i \notin 1..Len(p) /\ j \in 1..Len(p)
    <3>1. p[j] \in ToSet(p) /\ q[i - Len(p)] \in ToSet(q) /\ p[j] = q[i - Len(p)]
      BY <1>1, <1>2, <1>3, <2>4 DEF ToSet
    <3> QED BY <3>1
  <2> QED BY <2>1, <2>2, <2>3, <2>4
<1>4. IsInjective(r) BY <1>3 DEF IsInjective
<1> QED BY <1>4 DEF r

\* One more element.
LEMMA AppendIs ==
    ASSUME NEW S, NEW q \in Seq(S), NEW x \in S
    PROVE  /\ Append(q, x) \in Seq(S) /\ ToSet(Append(q, x)) = ToSet(q) \cup {x}
           /\ IsInjective(q) /\ x \notin ToSet(q) => IsInjective(Append(q, x))
<1> DEFINE r == Append(q, x)
<1>1. /\ r \in Seq(S) /\ Len(q) \in Nat /\ DOMAIN q = 1..Len(q) /\ DOMAIN r = 1..(Len(q) + 1)
      /\ r[Len(q) + 1] = x /\ \A i \in 1..Len(q) : r[i] = q[i]
  OBVIOUS
<1> HIDE DEF r
<1>2. \A i \in DOMAIN r : i \in DOMAIN q \/ i = Len(q) + 1
  BY <1>1
<1>3. Len(q) + 1 \in DOMAIN r /\ \A i \in DOMAIN q : i \in DOMAIN r
  BY <1>1
<1>4. ToSet(r) = ToSet(q) \cup {x}
  BY <1>1, <1>2, <1>3 DEF ToSet
<1>5. ASSUME IsInjective(q), x \notin ToSet(q), NEW i \in DOMAIN r, NEW j \in DOMAIN r, r[i] = r[j]
      PROVE  i = j
  <2>1. CASE i \in DOMAIN q /\ j \in DOMAIN q
    BY <1>1, <1>5, <2>1 DEF IsInjective
  <2>2. CASE i \in DOMAIN q /\ j = Len(q) + 1
    BY <1>1, <1>5, <2>2 DEF ToSet
  <2>3. CASE i = Len(q) + 1 /\ j \in DOMAIN q
    BY <1>1, <1>5, <2>3 DEF ToSet
  <2> QED BY <1>2, <2>1, <2>2, <2>3
<1> QED BY <1>1, <1>4, <1>5 DEF r, IsInjective

\* A sequence cut at n.
LEMMA CutIs ==
    ASSUME NEW S, NEW q \in Seq(S), IsInjective(q), NEW n \in Nat
    PROVE  /\ Take(q, n) \in Seq(S) /\ Drop(q, n) \in Seq(S) /\ IsInjective(Drop(q, n))
           /\ ToSet(Take(q, n)) \cup ToSet(Drop(q, n)) = ToSet(q)
           /\ ToSet(Take(q, n)) \cap ToSet(Drop(q, n)) = {}
<1> DEFINE l == Len(q)
           k == IF l < n THEN l ELSE n
           a == SubSeq(q, 1, k)
           b == SubSeq(q, n + 1, l)
<1>1. l \in Nat /\ DOMAIN q = 1..l /\ k \in Nat /\ k <= l /\ (k = n \/ (k = l /\ l < n))
  OBVIOUS
<1>0. l = Len(q)
  OBVIOUS
<1> HIDE DEF k, l
<1>2. a \in Seq(S) /\ DOMAIN a = 1..k /\ \A i \in 1..k : a[i] = q[i]
  <2>1. \A i \in 1..k : i \in 1..l /\ q[i] \in S
    BY <1>0, <1>1
  <2>2. a = [i \in 1..k |-> q[i]]
    BY <1>0, <1>1
  <2> HIDE DEF a
  <2> QED BY <1>1, <2>1, <2>2
<1>3. b \in Seq(S) /\ DOMAIN b = 1..(l - k) /\ \A i \in 1..(l - k) : b[i] = q[i + k]
  <2>1. CASE k = n
    <3>1. \A i \in 1..(l - k) : i + k \in 1..l /\ q[i + k] \in S
      BY <1>0, <1>1
    <3>2. b = [i \in 1..(l - k) |-> q[i + k]]
      BY <1>0, <1>1, <2>1
    <3>3. l - k \in Nat
      BY <1>1
    <3> HIDE DEF b
    <3> QED BY <3>1, <3>2, <3>3
  <2>2. CASE k = l /\ l < n
    <3>1. b = <<>>
      BY <1>0, <1>1, <2>2
    <3>2. l - k = 0
      BY <1>1, <2>2
    <3>3. \A i \in 1..(l - k) : FALSE
      BY <3>2
    <3>4. b \in Seq(S) /\ DOMAIN b = 1..(l - k)
      <4>1. <<>> \in Seq(S) /\ DOMAIN <<>> = 1..0
        OBVIOUS
      <4> HIDE DEF b
      <4> QED BY <3>1, <3>2, <4>1
    <3> QED BY <3>3, <3>4
  <2> QED BY <1>1, <2>1, <2>2
<1>4. a = Take(q, n) /\ b = Drop(q, n)
  BY DEF Take, Drop, k, l
<1> HIDE DEF a, b
<1>5. \A i \in 1..(l - k) : i + k \in DOMAIN q /\ i + k \notin 1..k /\ i \in Int
  BY <1>1
<1>6. \A i \in DOMAIN q : i \in 1..k \/ (i - k \in 1..(l - k) /\ (i - k) + k = i)
  BY <1>1
<1>7. \A i \in 1..k : i \in DOMAIN q
  BY <1>1
<1>8. IsInjective(b)
  <2> SUFFICES ASSUME NEW i \in 1..(l - k), NEW j \in 1..(l - k), b[i] = b[j] PROVE i = j
    BY <1>3 DEF IsInjective
  <2>1. i + k = j + k
    BY <1>3, <1>5 DEF IsInjective
  <2> QED BY <1>1, <1>5, <2>1
<1>9. ToSet(a) \cup ToSet(b) = ToSet(q)
  <2>1. ToSet(a) \subseteq ToSet(q)
    BY <1>2, <1>7 DEF ToSet
  <2>2. ToSet(b) \subseteq ToSet(q)
    BY <1>3, <1>5 DEF ToSet
  <2>3. ToSet(q) \subseteq ToSet(a) \cup ToSet(b)
    <3> SUFFICES ASSUME NEW i \in DOMAIN q PROVE q[i] \in ToSet(a) \cup ToSet(b)
      BY DEF ToSet
    <3>1. CASE i \in 1..k
      BY <1>2, <3>1 DEF ToSet
    <3>2. CASE i - k \in 1..(l - k) /\ (i - k) + k = i
      <4>1. b[i - k] = q[i]
        BY <1>3, <3>2
      <4> QED BY <1>3, <3>2, <4>1 DEF ToSet
    <3> QED BY <1>6, <3>1, <3>2
  <2> QED BY <2>1, <2>2, <2>3
<1>10. ToSet(a) \cap ToSet(b) = {}
  <2> SUFFICES ASSUME NEW i \in 1..k, NEW j \in 1..(l - k), a[i] = b[j] PROVE FALSE
    BY <1>2, <1>3 DEF ToSet
  <2>1. q[i] = q[j + k] /\ i \in DOMAIN q /\ j + k \in DOMAIN q
    BY <1>2, <1>3, <1>5, <1>7
  <2>2. i = j + k
    BY <2>1 DEF IsInjective
  <2> QED BY <1>5, <2>2
<1> QED BY <1>2, <1>3, <1>4, <1>8, <1>9, <1>10

\* f is the function that Those(q, S) is made of, up to n.
IsKept(f, q, S, n) ==
    f = [i \in 0..n |-> IF i = 0 THEN <<>>
                        ELSE IF q[i] \in S THEN Append(f[i - 1], q[i]) ELSE f[i - 1]]

\* There is such a function for every n.
LEMMA KeptExists ==
    ASSUME NEW q, NEW S
    PROVE  \A n \in Nat : \E f : IsKept(f, q, S, n)
<1> DEFINE T == {n \in Nat : \E f : IsKept(f, q, S, n)}
<1>1. 0 \in T
  <2> DEFINE f == [i \in 0..0 |-> <<>>]
  <2>1. IsKept(f, q, S, 0)
    BY DEF IsKept
  <2> QED BY <2>1
<1>2. ASSUME NEW n \in Nat, n \in T PROVE n + 1 \in T
  <2>1. PICK f : IsKept(f, q, S, n)
    BY <1>2
  <2> DEFINE g == [i \in 0..(n + 1) |->
                     IF i <= n THEN f[i]
                     ELSE IF q[i] \in S THEN Append(f[i - 1], q[i]) ELSE f[i - 1]]
  <2>2. \A i \in 0..n : g[i] = f[i]
    OBVIOUS
  <2>3. \A i \in 0..n : f[i] = IF i = 0 THEN <<>>
                        ELSE IF q[i] \in S THEN Append(f[i - 1], q[i]) ELSE f[i - 1]
    BY <2>1 DEF IsKept
  <2>4. \A i \in 0..(n + 1) : g[i] = IF i = 0 THEN <<>>
                        ELSE IF q[i] \in S THEN Append(g[i - 1], q[i]) ELSE g[i - 1]
    <3> TAKE i \in 0..(n + 1)
    <3>1. CASE i = 0
      BY <3>1, <2>2, <2>3
    <3>2. CASE i # 0 /\ i <= n
      <4>1. i - 1 \in 0..n /\ i \in 0..n
        BY <3>2
      <4> QED BY <3>2, <4>1, <2>2, <2>3
    <3>3. CASE i = n + 1
      <4>1. i - 1 \in 0..n /\ ~(i <= n) /\ i # 0
        BY <3>3
      <4>2. g[i] = IF q[i] \in S THEN Append(f[i - 1], q[i]) ELSE f[i - 1]
        BY <4>1
      <4> HIDE DEF g
      <4> QED BY <4>1, <4>2, <2>2
    <3> QED BY <3>1, <3>2, <3>3
  <2>5. IsKept(g, q, S, n + 1)
    <3> HIDE DEF g
    <3>1. g = [i \in 0..(n + 1) |-> g[i]]
      BY DEF g
    <3> QED BY <2>4, <3>1 DEF IsKept
  <2> QED BY <2>5
<1>3. T = Nat
  <2> HIDE DEF T
  <2>1. T \in SUBSET Nat
    BY DEF T
  <2> QED BY <1>1, <1>2, <2>1, Induct
<1> QED BY <1>3

\* Those of q in S, each once.
LEMMA ThoseIs ==
    ASSUME NEW U, NEW q \in Seq(U), IsInjective(q), NEW S
    PROVE  /\ Those(q, S) \in Seq(U) /\ IsInjective(Those(q, S))
           /\ ToSet(Those(q, S)) = ToSet(q) \cap S
<1>1. Len(q) \in Nat /\ DOMAIN q = 1..Len(q) /\ \A i \in 1..Len(q) : q[i] \in U
  OBVIOUS
<1> DEFINE f == CHOOSE f : IsKept(f, q, S, Len(q))
<1>2. IsKept(f, q, S, Len(q))
  BY <1>1, KeptExists
<1>a. Those(q, S) = f[Len(q)]
  BY DEF Those, IsKept
<1> HIDE DEF f
<1>3. \A i \in 0..Len(q) : f[i] = IF i = 0 THEN <<>>
                     ELSE IF q[i] \in S THEN Append(f[i - 1], q[i]) ELSE f[i - 1]
  BY <1>2 DEF IsKept
<1> DEFINE Of(n) == {q[i] : i \in 1..n}
           Good(n) == f[n] \in Seq(U) /\ IsInjective(f[n]) /\ ToSet(f[n]) = Of(n) \cap S
           T == {n \in Nat : n <= Len(q) => Good(n)}
<1>4. 0 \in T
  <2>1. f[0] = <<>>
    BY <1>1, <1>3
  <2>2. <<>> \in Seq(U) /\ IsInjective(<<>>) /\ ToSet(<<>>) = {} /\ Of(0) = {}
    BY DEF IsInjective, ToSet
  <2> QED BY <2>1, <2>2
<1>5. ASSUME NEW n \in Nat, n \in T PROVE n + 1 \in T
  <2> SUFFICES ASSUME n + 1 <= Len(q) PROVE Good(n + 1)
    OBVIOUS
  <2>1. n + 1 \in 0..Len(q) /\ n + 1 # 0 /\ (n + 1) - 1 = n /\ n <= Len(q) /\ n + 1 \in 1..Len(q)
    BY <1>1
  <2>2. Good(n) /\ q[n + 1] \in U
    BY <1>1, <1>5, <2>1
  <2>3. f[n + 1] = IF q[n + 1] \in S THEN Append(f[n], q[n + 1]) ELSE f[n]
    BY <1>3, <2>1
  <2>4. Of(n + 1) = Of(n) \cup {q[n + 1]}
    <3>1. \A i \in 1..(n + 1) : i \in 1..n \/ i = n + 1
      OBVIOUS
    <3>2. n + 1 \in 1..(n + 1) /\ \A i \in 1..n : i \in 1..(n + 1)
      OBVIOUS
    <3> QED BY <3>1, <3>2
  <2>5. q[n + 1] \notin Of(n)
    <3> SUFFICES ASSUME NEW i \in 1..n, q[i] = q[n + 1] PROVE FALSE
      OBVIOUS
    <3>1. i \in DOMAIN q /\ n + 1 \in DOMAIN q /\ i # n + 1
      BY <1>1, <2>1
    <3> QED BY <3>1 DEF IsInjective
  <2> HIDE DEF Of
  <2>6. CASE q[n + 1] \in S
    <3>1. f[n + 1] = Append(f[n], q[n + 1])
      BY <2>3, <2>6
    <3>2. q[n + 1] \notin ToSet(f[n])
      BY <2>2, <2>5
    <3>3. /\ f[n + 1] \in Seq(U) /\ IsInjective(f[n + 1])
          /\ ToSet(f[n + 1]) = ToSet(f[n]) \cup {q[n + 1]}
      BY <2>2, <3>1, <3>2, AppendIs
    <3> QED BY <2>2, <2>4, <2>6, <3>3
  <2>7. CASE q[n + 1] \notin S
    BY <2>2, <2>3, <2>4, <2>7
  <2> QED BY <2>6, <2>7
<1>6. T = Nat
  <2> HIDE DEF T
  <2>1. T \in SUBSET Nat
    BY DEF T
  <2> QED BY <1>4, <1>5, <2>1, Induct
<1>7. Good(Len(q))
  <2>1. Len(q) \in T /\ Len(q) <= Len(q)
    <3> HIDE DEF T
    <3> QED BY <1>1, <1>6
  <2> HIDE DEF Good
  <2> QED BY <2>1
<1>8. Of(Len(q)) = ToSet(q)
  BY <1>1 DEF ToSet
<1> QED BY <1>a, <1>7, <1>8

\* A ranking has seats of S, each once.
LEMMA RankingIs ==
    ASSUME NEW S \in SUBSET Seats, NEW q \in Rankings(S)
    PROVE  q \in Seq(Seats) /\ IsInjective(q) /\ ToSet(q) \subseteq S
<1>1. PICK s \in SUBSET S : q \in SetToSeqs(s)
  BY DEF Rankings, SetToAllKPermutations
<1> DEFINE n == Cardinality(s)
<1>2. n \in Nat
  BY ThinkingAssumption, FS_Subset, FS_CardinalityType
<1>3. q \in [1..n -> s] /\ \A i, j \in 1..n : i # j => q[i] # q[j]
  BY <1>1 DEF SetToSeqs
<1> HIDE DEF n
<1>4. q \in [1..n -> Seats] /\ DOMAIN q = 1..n
  BY <1>3
<1>5. q \in Seq(Seats)
  BY <1>2, <1>4
<1> QED BY <1>3, <1>4, <1>5 DEF IsInjective, ToSet

-----------------------------------------------------------------------------
(* The inductive invariant.                                                *)

Tasks == {"none", "queued", "calling", "read", "over", "cancelled"}
Verdicts == {"answered", "passed", "errored"}
UnderWay == {"queued", "calling"}

TypeOK ==
    /\ pc \in {"summon", "screen", "judge", "next", "result", "error", "none", "left"}
    /\ hop \in Nat /\ roster \in Seq(Seats) /\ seen \in SUBSET Seats
    /\ lists \in [Names -> Seq(Seats)] /\ shown \in [Names -> Seq(Seats)]
    /\ task \in [Seats -> Tasks] /\ verdict \in [Seats -> Verdicts \cup {"none"}]
    /\ refer \in [Seats -> SUBSET Phrases] /\ calls \in [Seats -> Nat]

\* The lists hold every seat once at most, and only summoned ones.
ListsOK ==
    \A n \in Names :
        /\ IsInjective(lists[n]) /\ In(n) \subseteq seen
        /\ \A m \in Names : m # n => In(n) \cap In(m) = {}

Told == UNION {In(n) : n \in Names}
Heard == In("answered") \cup In("passed") \cup In("errored")
Unasked == In("screened_out") \cup In("capped")

\* A seat by itself: where its call is, how often it was made, its list.
SeatOK(s) ==
    /\ s \notin seen => calls[s] = 0
    /\ s \in Unasked => calls[s] = 0
    /\ s \in Heard => calls[s] = 1
    /\ task[s] # "none" => s \in seen /\ s \notin Unasked
    /\ task[s] = "queued" => calls[s] = 0 /\ s \notin Heard
    /\ task[s] \in {"calling", "read"} => calls[s] = 1 /\ s \notin Heard
    /\ task[s] = "read" => verdict[s] \in Verdicts
    /\ task[s] = "over" => s \in Heard
    /\ task[s] = "cancelled" => calls[s] \in {0, 1} /\ s \notin Heard
    /\ task[s] = "none" => calls[s] = IF s \in Heard THEN 1 ELSE 0

\* Who has been summoned and is in no list.
Pending == {s \in Seats : task[s] \in UnderWay \cup {"read"}}

\* Where the stream is, and who is still to be listed.
PlaceOK ==
    /\ pc \in {"summon", "screen", "next"} => Pending = {}
    /\ pc = "summon" => seen = {} /\ Told = {} /\ task = NoTask
    /\ pc = "screen" =>
          /\ IsInjective(roster) /\ ToSet(roster) \cap Told = {}
          /\ seen = Told \cup ToSet(roster) /\ task = NoTask
    /\ pc = "judge" => seen = Told \cup Pending
    /\ pc = "next" => seen = Told
    /\ Over => \A s \in Seats : task[s] \notin UnderWay
    /\ ~Over => (\A s \in Seats : task[s] # "cancelled") /\ shown = NoLists

CallsOK == IsFiniteSet(Calling) /\ Cardinality(Calling) <= Concurrency

ThinkInv == TypeOK /\ ListsOK /\ (\A s \in Seats : SeatOK(s)) /\ PlaceOK /\ CallsOK

-----------------------------------------------------------------------------
(* The steps.                                                              *)

\* The lists grow by the seats X[n], none of them listed before.
LEMMA ListsGrow ==
    ASSUME TypeOK, ListsOK, seen' \in SUBSET Seats, seen \subseteq seen',
           NEW X \in [Names -> SUBSET Seats],
           \A n \in Names : /\ IsInjective(lists'[n]) /\ In(n)' = In(n) \cup X[n]
                            /\ X[n] \cap Told = {} /\ X[n] \subseteq seen'
                            /\ \A m \in Names : m # n => X[n] \cap X[m] = {}
    PROVE  ListsOK' /\ Told' = Told \cup UNION {X[n] : n \in Names}
<1>1. \A n \in Names : In(n) \subseteq Told
  BY DEF Told
<1>2. Told' = UNION {In(n)' : n \in Names}
  BY DEF Told
<1>3. Told' = Told \cup UNION {X[n] : n \in Names}
  <2> HIDE DEF Names
  <2> QED BY <1>2 DEF Told
<1>4. ASSUME NEW n \in Names
      PROVE  /\ IsInjective(lists'[n]) /\ In(n)' \subseteq seen'
             /\ \A m \in Names : m # n => In(n)' \cap In(m)' = {}
  <2>1. In(n) \subseteq seen /\ \A m \in Names : m # n => In(n) \cap In(m) = {}
    BY DEF ListsOK
  <2> HIDE DEF Names, In
  <2> QED BY <1>1, <2>1
<1>5. ListsOK'
  <2> HIDE DEF Names
  <2> QED BY <1>4 DEF ListsOK
<1> QED BY <1>3, <1>5

\* Nothing is under way elsewhere than in a judged hop.
LEMMA CallersJudge ==
    ASSUME TypeOK, PlaceOK, NEW s \in Seats, task[s] \in UnderWay
    PROVE  pc = "judge" /\ ~Over
<1>1. s \in Pending
  BY DEF Pending
<1>2. pc \notin {"summon", "screen", "next"} /\ ~Over
  BY <1>1 DEF PlaceOK
<1> QED BY <1>2 DEF TypeOK, Over

\* Fewer calls hold a place.
LEMMA FewerCalls ==
    ASSUME CallsOK, Calling' \subseteq Calling
    PROVE  CallsOK'
<1>1. IsFiniteSet(Calling') /\ Cardinality(Calling') <= Cardinality(Calling)
      /\ Cardinality(Calling) \in Nat /\ Cardinality(Calling') \in Nat /\ Concurrency \in Nat
  BY ThinkingAssumption, FS_Subset, FS_CardinalityType DEF CallsOK
<1> QED BY <1>1 DEF CallsOK

LEMMA InitInv == Init => ThinkInv
<1> SUFFICES ASSUME Init PROVE ThinkInv
  OBVIOUS
<1>1. /\ pc = "summon" /\ hop = 0 /\ roster = <<>> /\ seen = {}
      /\ lists = NoLists /\ shown = NoLists /\ task = NoTask /\ verdict = NoTask
      /\ \A s \in Seats : refer[s] = {} /\ calls[s] = 0 /\ task[s] = "none"
      /\ \A n \in Names : lists[n] = <<>>
  BY DEF Init, NoTask, NoLists
<1>2. \A n \in Names : In(n) = {}
  BY <1>1 DEF In, ToSet
<1>3. TypeOK
  <2>1. NoLists \in [Names -> Seq(Seats)]
    BY DEF NoLists
  <2> QED BY <1>1, <2>1 DEF Init, TypeOK, NoTask, Tasks
<1>4. ListsOK
  BY <1>1, <1>2 DEF ListsOK, IsInjective
<1>5. Told = {} /\ Heard = {} /\ Unasked = {}
  BY <1>2 DEF Told, Heard, Unasked, Names
<1>6. \A s \in Seats : SeatOK(s)
  BY <1>1, <1>5 DEF SeatOK
<1>7. Pending = {} /\ Calling = {}
  BY <1>1 DEF Pending, Calling, UnderWay
<1>8. PlaceOK
  BY <1>1, <1>5, <1>7 DEF PlaceOK, Over
<1>9. CallsOK
  BY <1>7, ThinkingAssumption, FS_EmptySet DEF CallsOK
<1> QED BY <1>3, <1>4, <1>6, <1>8, <1>9 DEF ThinkInv

\* Nobody is left over from the hop before, and the new ones are new.
LEMMA HopStep ==
    ASSUME ThinkInv, pc \in {"summon", "next"}, NEW S \in SUBSET Fresh, NEW q \in Rankings(S),
           NEW n \in Nat, StartHop(q, n)
    PROVE  ThinkInv'
<1>1. TypeOK /\ ListsOK /\ (\A s \in Seats : SeatOK(s)) /\ PlaceOK /\ CallsOK
  BY DEF ThinkInv
<1>2. /\ pc' = "screen" /\ hop' = n /\ roster' = q /\ seen' = seen \cup ToSet(q) /\ task' = NoTask
      /\ lists' = lists /\ verdict' = verdict /\ refer' = refer /\ calls' = calls /\ shown' = shown
  BY DEF StartHop
<1>3. q \in Seq(Seats) /\ IsInjective(q) /\ ToSet(q) \subseteq Fresh /\ ToSet(q) \subseteq Seats
  BY RankingIs DEF Fresh
<1>4. Pending = {} /\ seen = Told /\ shown = NoLists /\ \A s \in Seats : task[s] # "cancelled"
  BY <1>1 DEF PlaceOK, Over
<1>5. \A s \in Seats : task'[s] = "none"
  BY <1>2 DEF NoTask
<1>6. TypeOK'
  BY <1>1, <1>2, <1>3 DEF TypeOK, NoTask, Tasks
<1>7. /\ \A m \in Names : In(m)' = In(m)
      /\ Told' = Told /\ Heard' = Heard /\ Unasked' = Unasked
  BY <1>2 DEF In, Told, Heard, Unasked
<1>8. ListsOK'
  BY <1>1, <1>2, <1>7 DEF ListsOK
<1>9. ASSUME NEW s \in Seats PROVE SeatOK(s)'
  <2>1. SeatOK(s) /\ task[s] \in {"none", "over"}
    BY <1>1, <1>4 DEF Pending, UnderWay, TypeOK, Tasks
  <2>2. calls[s] = IF s \in Heard THEN 1 ELSE 0
    BY <2>1 DEF SeatOK
  <2> QED BY <1>2, <1>5, <1>7, <2>1, <2>2 DEF SeatOK
<1>10. Pending' = {} /\ Calling' = {}
  BY <1>5 DEF Pending, Calling, UnderWay
<1>11. ToSet(q) \cap Told = {}
  BY <1>3, <1>4 DEF Fresh
<1>12. PlaceOK'
  BY <1>2, <1>3, <1>4, <1>5, <1>7, <1>10, <1>11 DEF PlaceOK, Over
<1>13. CallsOK'
  BY <1>1, <1>10, FewerCalls
<1> QED BY <1>6, <1>8, <1>9, <1>12, <1>13 DEF ThinkInv

LEMMA SummonStep == ThinkInv /\ Summon => ThinkInv'
<1> SUFFICES ASSUME ThinkInv, Summon PROVE ThinkInv'
  OBVIOUS
<1>1. PICK q \in Rankings(Seats) : StartHop(q, 0)
  BY DEF Summon
<1>2. pc = "summon" /\ Seats \subseteq Fresh
  BY DEF Summon, Fresh, ThinkInv, PlaceOK
<1> QED BY <1>1, <1>2, HopStep

LEMMA HandoffStep == ThinkInv /\ Handoff => ThinkInv'
<1> SUFFICES ASSUME ThinkInv, Handoff PROVE ThinkInv'
  OBVIOUS
<1> DEFINE S == {s \in Fresh : DomainOf[s] \notin SeenDomains}
<1>1. PICK q \in Founds : StartHop(q, hop + 1)
  BY DEF Handoff
<1>2. q \in Rankings(S) /\ S \in SUBSET Fresh
  BY <1>1 DEF Founds
<1>3. pc = "next" /\ hop + 1 \in Nat
  BY DEF Handoff, ThinkInv, TypeOK
<1> HIDE DEF S
<1> QED BY <1>1, <1>2, <1>3, HopStep

LEMMA ScreenStep == ThinkInv /\ Screen => ThinkInv'
<1> SUFFICES ASSUME ThinkInv, Screen PROVE ThinkInv'
  OBVIOUS
<1>1. TypeOK /\ ListsOK /\ (\A s \in Seats : SeatOK(s)) /\ PlaceOK /\ CallsOK
  BY DEF ThinkInv
<1>2. PICK out \in SUBSET ToSet(roster) :
        LET dropped == Those(roster, out)
            live == Those(roster, Seats \ out)
        IN
        /\ lists' = [lists EXCEPT !["screened_out"] = @ \o dropped, !["capped"] = @ \o BeyondLimit(live)]
        /\ task' = [s \in Seats |-> IF s \in ToSet(Take(live, MaxAnswers)) THEN "queued" ELSE "none"]
        /\ pc' = IF live = <<>> THEN "next" ELSE "judge"
  BY DEF Screen
<1>3. /\ pc = "screen"
      /\ hop' = hop /\ roster' = roster /\ seen' = seen /\ verdict' = verdict /\ refer' = refer
      /\ calls' = calls /\ shown' = shown
  BY DEF Screen
<1> DEFINE dropped == Those(roster, out)
           live == Those(roster, Seats \ out)
           cut == Drop(live, MaxAnswers)
           asked == ToSet(Take(live, MaxAnswers))
           beyond == ToSet(cut)
<1>4. /\ lists' = [lists EXCEPT !["screened_out"] = @ \o dropped, !["capped"] = @ \o cut]
      /\ task' = [s \in Seats |-> IF s \in asked THEN "queued" ELSE "none"]
      /\ pc' = IF live = <<>> THEN "next" ELSE "judge"
  BY <1>2 DEF BeyondLimit
<1>5. /\ roster \in Seq(Seats) /\ IsInjective(roster) /\ ToSet(roster) \cap Told = {}
      /\ seen = Told \cup ToSet(roster) /\ shown = NoLists /\ \A s \in Seats : task[s] = "none"
  BY <1>1, <1>3 DEF TypeOK, PlaceOK, Over, NoTask
<1>6. dropped \in Seq(Seats) /\ IsInjective(dropped) /\ ToSet(dropped) = out
  <2>1. dropped \in Seq(Seats) /\ IsInjective(dropped) /\ ToSet(dropped) = ToSet(roster) \cap out
    BY <1>5, ThoseIs
  <2>2. ToSet(roster) \cap out = out
    OBVIOUS
  <2> HIDE DEF dropped
  <2> QED BY <2>1, <2>2
<1>7. live \in Seq(Seats) /\ IsInjective(live) /\ ToSet(live) = ToSet(roster) \ out
  <2>1. ToSet(roster) \subseteq Seats
    BY <1>5 DEF ToSet
  <2> QED BY <1>5, <2>1, ThoseIs
<1> HIDE DEF dropped, live
<1>8. /\ cut \in Seq(Seats) /\ IsInjective(cut)
      /\ asked \cup beyond = ToSet(roster) \ out /\ asked \cap beyond = {}
      /\ ToSet(roster) \subseteq Seats
  <2>1. MaxAnswers \in Nat
    BY ThinkingAssumption
  <2>2. ToSet(roster) \subseteq Seats
    BY <1>5 DEF ToSet
  <2> QED BY <1>7, <2>1, <2>2, CutIs
<1>9. live = <<>> => asked = {} /\ beyond = {}
  <2>1. live = <<>> => ToSet(live) = {}
    BY DEF ToSet
  <2> QED BY <1>7, <1>8, <2>1
<1> HIDE DEF asked, cut, beyond
<1> DEFINE X == [n \in Names |-> IF n = "screened_out" THEN out ELSE IF n = "capped" THEN beyond ELSE {}]
<1>10. lists \in [Names -> Seq(Seats)]
       /\ \A n \in Names : IsInjective(lists[n]) /\ In(n) \subseteq Told
  BY <1>1 DEF TypeOK, ListsOK, Told
<1>11. /\ X \in [Names -> SUBSET Seats]
       /\ \A n \in Names : X[n] = IF n = "screened_out" THEN out ELSE IF n = "capped" THEN beyond ELSE {}
  BY <1>8
<1>12. /\ out \cap Told = {} /\ beyond \cap Told = {} /\ asked \cap Told = {}
       /\ out \cap beyond = {} /\ asked \cap out = {} /\ asked \cap beyond = {}
       /\ out \subseteq seen /\ beyond \subseteq seen /\ asked \subseteq seen
  BY <1>5, <1>8
<1> HIDE DEF X
<1>13. /\ lists' \in [Names -> Seq(Seats)]
       /\ \A n \in Names : IsInjective(lists'[n]) /\ In(n)' = In(n) \cup X[n]
  <2>1. "screened_out" \in Names /\ "capped" \in Names
    BY DEF Names
  <2> DEFINE a == lists["screened_out"]
             b == lists["capped"]
  <2>2. /\ a \in Seq(Seats) /\ IsInjective(a) /\ ToSet(a) \subseteq Told
        /\ b \in Seq(Seats) /\ IsInjective(b) /\ ToSet(b) \subseteq Told
    BY <1>10, <2>1 DEF In
  <2> HIDE DEF a, b
  <2>3. a \o dropped \in Seq(Seats) /\ ToSet(a \o dropped) = ToSet(a) \cup out /\ IsInjective(a \o dropped)
    <3>1. ToSet(a) \cap ToSet(dropped) = {}
      BY <1>6, <1>12, <2>2
    <3> QED BY <1>6, <2>2, <3>1, RangeOfConcat, InjectiveConcat
  <2>4. b \o cut \in Seq(Seats) /\ ToSet(b \o cut) = ToSet(b) \cup beyond /\ IsInjective(b \o cut)
    <3>1. ToSet(b) \cap ToSet(cut) = {}
      BY <1>12, <2>2 DEF beyond
    <3>2. ToSet(b \o cut) = ToSet(b) \cup ToSet(cut)
      BY <1>8, <2>2, RangeOfConcat
    <3> QED BY <1>8, <2>2, <3>1, <3>2, RangeOfConcat, InjectiveConcat DEF beyond
  <2> DEFINE u == a \o dropped
             v == b \o cut
  <2>5. /\ u \in Seq(Seats) /\ ToSet(u) = ToSet(a) \cup out /\ IsInjective(u)
        /\ v \in Seq(Seats) /\ ToSet(v) = ToSet(b) \cup beyond /\ IsInjective(v)
    BY <2>3, <2>4
  <2>6. lists' = [lists EXCEPT !["screened_out"] = u, !["capped"] = v]
    BY <1>4 DEF a, b
  <2> HIDE DEF u, v
  <2>7. /\ lists' \in [Names -> Seq(Seats)]
        /\ lists'["screened_out"] = u /\ lists'["capped"] = v
        /\ \A n \in Names \ {"screened_out", "capped"} : lists'[n] = lists[n]
    BY <1>10, <2>1, <2>5, <2>6
  <2>8. ASSUME NEW n \in Names PROVE IsInjective(lists'[n]) /\ In(n)' = In(n) \cup X[n]
    <3>1. CASE n = "screened_out"
      BY <1>11, <2>5, <2>7, <3>1 DEF In, a
    <3>2. CASE n = "capped"
      BY <1>11, <2>5, <2>7, <3>2 DEF In, b
    <3>3. CASE n \notin {"screened_out", "capped"}
      BY <1>10, <1>11, <2>7, <3>3 DEF In
    <3> QED BY <3>1, <3>2, <3>3
  <2> QED BY <2>7, <2>8
<1>14. ASSUME NEW n \in Names
       PROVE  X[n] \cap Told = {} /\ X[n] \subseteq seen /\ \A m \in Names : m # n => X[n] \cap X[m] = {}
  BY <1>11, <1>12
<1>15. ListsOK' /\ Told' = Told \cup UNION {X[n] : n \in Names}
  BY <1>1, <1>3, <1>11, <1>13, <1>14, ListsGrow DEF TypeOK
<1>16. Told' = Told \cup out \cup beyond
  <2>1. "screened_out" \in Names /\ "capped" \in Names
    BY DEF Names
  <2>2. UNION {X[n] : n \in Names} = out \cup beyond
    BY <1>11, <2>1
  <2> QED BY <1>15, <2>2
<1>17. Heard' = Heard /\ Unasked' = Unasked \cup out \cup beyond
  BY <1>11, <1>13 DEF Heard, Unasked, Names
<1>18. Heard \subseteq Told /\ Unasked \subseteq Told
  BY DEF Heard, Unasked, Told, Names
<1>19. TypeOK'
  BY <1>1, <1>3, <1>4, <1>13 DEF TypeOK, Tasks
<1>20. ASSUME NEW s \in Seats PROVE SeatOK(s)' /\ (task'[s] = IF s \in asked THEN "queued" ELSE "none")
  <2>1. SeatOK(s) /\ task[s] = "none" /\ (task'[s] = IF s \in asked THEN "queued" ELSE "none")
    BY <1>1, <1>4, <1>5
  <2>2. (s \in seen <=> s \in seen') /\ calls'[s] = calls[s] /\ (s \in Heard' <=> s \in Heard)
        /\ (s \in Unasked' <=> s \in Unasked \/ s \in out \/ s \in beyond)
    BY <1>3, <1>17
  <2>3. /\ s \in out \/ s \in beyond \/ s \in asked => s \notin Heard /\ s \in seen
        /\ s \in asked => s \notin Unasked /\ s \notin out /\ s \notin beyond
    BY <1>12, <1>18
  <2>4. calls[s] = IF s \in Heard THEN 1 ELSE 0
    BY <2>1 DEF SeatOK
  <2>5. CASE s \in asked
    <3>1. task'[s] = "queued" /\ calls'[s] = 0 /\ s \notin Heard' /\ s \notin Unasked' /\ s \in seen'
      BY <2>1, <2>2, <2>3, <2>4, <2>5
    <3> QED BY <2>1, <2>5, <3>1 DEF SeatOK
  <2>6. CASE s \notin asked
    <3>1. /\ task'[s] = "none" /\ calls'[s] = IF s \in Heard' THEN 1 ELSE 0
          /\ s \in Unasked' => s \notin Heard'
          /\ s \notin seen' => calls'[s] = 0
      <4>1. s \in Unasked => s \notin Heard
        BY <2>1 DEF SeatOK
      <4>2. s \notin seen => calls[s] = 0
        BY <2>1 DEF SeatOK
      <4> QED BY <2>1, <2>2, <2>3, <2>4, <2>6, <4>1, <4>2
    <3> QED BY <2>1, <2>6, <3>1 DEF SeatOK
  <2> QED BY <2>1, <2>5, <2>6
<1>21. Pending' = asked /\ Calling' = {}
  <2>1. asked \subseteq Seats
    BY <1>1, <1>12 DEF TypeOK
  <2> QED BY <1>20, <2>1 DEF Pending, Calling, UnderWay
<1>22. PlaceOK'
  <2>1. seen' = Told' \cup asked /\ (pc' = "next" => asked = {})
    BY <1>3, <1>4, <1>5, <1>8, <1>9, <1>16
  <2>2. pc' \in {"next", "judge"} /\ shown' = NoLists /\ \A s \in Seats : task'[s] # "cancelled"
    BY <1>3, <1>4, <1>5, <1>20
  <2> QED BY <1>21, <2>1, <2>2 DEF PlaceOK, Over
<1>23. CallsOK'
  BY <1>1, <1>21, FewerCalls
<1> QED BY <1>15, <1>19, <1>20, <1>22, <1>23 DEF ThinkInv

\* A step that leaves the lists and the calls of all seats but s.
LEMMA CallStep == ASSUME ThinkInv, NEW s \in Seats, Call(s) PROVE ThinkInv'
<1>1. TypeOK /\ ListsOK /\ (\A r \in Seats : SeatOK(r)) /\ PlaceOK /\ CallsOK
  BY DEF ThinkInv
<1>2. /\ task[s] = "queued" /\ Cardinality(Calling) < Concurrency
      /\ task' = [task EXCEPT ![s] = "calling"] /\ calls' = [calls EXCEPT ![s] = @ + 1]
      /\ pc' = pc /\ hop' = hop /\ roster' = roster /\ seen' = seen /\ lists' = lists
      /\ verdict' = verdict /\ refer' = refer /\ shown' = shown
  BY DEF Call
<1>3. pc = "judge" /\ ~Over
  BY <1>1, <1>2, CallersJudge DEF UnderWay
<1>4. TypeOK'
  BY <1>1, <1>2 DEF TypeOK, Tasks
<1>5. /\ \A n \in Names : In(n)' = In(n)
      /\ Told' = Told /\ Heard' = Heard /\ Unasked' = Unasked
  BY <1>2 DEF In, Told, Heard, Unasked
<1>6. ListsOK'
  BY <1>1, <1>2, <1>5 DEF ListsOK
<1>7. /\ task'[s] = "calling" /\ calls'[s] = calls[s] + 1
      /\ \A r \in Seats : r # s => task'[r] = task[r] /\ calls'[r] = calls[r]
  BY <1>1, <1>2 DEF TypeOK
<1>8. ASSUME NEW r \in Seats PROVE SeatOK(r)'
  <2>1. SeatOK(r)
    BY <1>1
  <2> QED BY <1>2, <1>5, <1>7, <2>1 DEF SeatOK
<1>9. Pending' = Pending
  BY <1>2, <1>7 DEF Pending, UnderWay
<1>10. PlaceOK'
  BY <1>1, <1>2, <1>3, <1>5, <1>7, <1>9 DEF PlaceOK, Over
<1>11. CallsOK'
  <2>1. Calling' = Calling \cup {s}
    BY <1>2, <1>7 DEF Calling
  <2>2. /\ IsFiniteSet(Calling') /\ Cardinality(Calling') <= Cardinality(Calling) + 1
        /\ Cardinality(Calling) \in Nat /\ Cardinality(Calling') \in Nat /\ Concurrency \in Nat
    <3>1. IsFiniteSet(Calling) /\ Concurrency \in Nat
      BY <1>1, ThinkingAssumption DEF CallsOK
    <3> DEFINE c == Calling
               d == Calling'
    <3>2. IsFiniteSet(c) /\ d = c \cup {s}
      BY <2>1, <3>1
    <3> HIDE DEF c, d
    <3>3. /\ IsFiniteSet(d) /\ Cardinality(c) \in Nat
          /\ Cardinality(d) = Cardinality(c) \/ Cardinality(d) = Cardinality(c) + 1
      BY <3>2, FS_AddElement, FS_CardinalityType
    <3> QED BY <3>1, <3>3 DEF c, d
  <2> QED BY <1>2, <2>2 DEF CallsOK
<1> QED BY <1>4, <1>6, <1>8, <1>10, <1>11 DEF ThinkInv

LEMMA AnswerStep == ASSUME ThinkInv, NEW s \in Seats, Answer(s) PROVE ThinkInv'
<1>1. TypeOK /\ ListsOK /\ (\A r \in Seats : SeatOK(r)) /\ PlaceOK /\ CallsOK
  BY DEF ThinkInv
<1>2. PICK v \in Verdicts, f \in SUBSET Phrases :
        /\ task[s] = "calling" /\ task' = [task EXCEPT ![s] = "read"]
        /\ verdict' = [verdict EXCEPT ![s] = v] /\ refer' = [refer EXCEPT ![s] = f]
        /\ calls' = calls
        /\ pc' = pc /\ hop' = hop /\ roster' = roster /\ seen' = seen /\ lists' = lists
        /\ shown' = shown
  BY DEF Answer, Verdicts
<1>3. pc = "judge" /\ ~Over
  BY <1>1, <1>2, CallersJudge DEF UnderWay
<1>4. TypeOK'
  BY <1>1, <1>2 DEF TypeOK, Tasks
<1>5. /\ \A n \in Names : In(n)' = In(n)
      /\ Told' = Told /\ Heard' = Heard /\ Unasked' = Unasked
  BY <1>2 DEF In, Told, Heard, Unasked
<1>6. ListsOK'
  BY <1>1, <1>2, <1>5 DEF ListsOK
<1>7. /\ task'[s] = "read" /\ verdict'[s] = v
      /\ \A r \in Seats : r # s => task'[r] = task[r] /\ verdict'[r] = verdict[r]
  BY <1>1, <1>2 DEF TypeOK
<1>8. ASSUME NEW r \in Seats PROVE SeatOK(r)'
  <2>1. SeatOK(r)
    BY <1>1
  <2> QED BY <1>2, <1>5, <1>7, <2>1 DEF SeatOK
<1>9. Pending' = Pending /\ Calling' \subseteq Calling
  BY <1>2, <1>7 DEF Pending, Calling, UnderWay
<1>10. PlaceOK'
  BY <1>1, <1>2, <1>3, <1>5, <1>7, <1>9 DEF PlaceOK, Over
<1>11. CallsOK'
  BY <1>1, <1>9, FewerCalls
<1> QED BY <1>4, <1>6, <1>8, <1>10, <1>11 DEF ThinkInv

LEMMA ReadStep == ASSUME ThinkInv, NEW s \in Seats, Read(s) PROVE ThinkInv'
<1>1. TypeOK /\ ListsOK /\ (\A r \in Seats : SeatOK(r)) /\ PlaceOK /\ CallsOK
  BY DEF ThinkInv
<1> DEFINE v == verdict[s]
<1>2. /\ pc = "judge" /\ task[s] = "read" /\ task' = [task EXCEPT ![s] = "over"]
      /\ lists' = [lists EXCEPT ![v] = Append(@, s)]
      /\ pc' = pc /\ hop' = hop /\ roster' = roster /\ seen' = seen /\ verdict' = verdict
      /\ refer' = refer /\ calls' = calls /\ shown' = shown
  BY DEF Read
<1>3. v \in Verdicts /\ s \in seen /\ s \notin Unasked /\ s \notin Heard /\ calls[s] = 1
  BY <1>1, <1>2 DEF SeatOK
<1> HIDE DEF v
<1>4. s \notin Told /\ v \in Names
  BY <1>3 DEF Told, Names, Heard, Unasked, Verdicts
<1> DEFINE X == [n \in Names |-> IF n = v THEN {s} ELSE {}]
<1>5. X \in [Names -> SUBSET Seats] /\ \A n \in Names : X[n] = IF n = v THEN {s} ELSE {}
  OBVIOUS
<1> HIDE DEF X
<1>6. /\ lists' \in [Names -> Seq(Seats)]
      /\ \A n \in Names : IsInjective(lists'[n]) /\ In(n)' = In(n) \cup X[n]
  <2>1. lists \in [Names -> Seq(Seats)] /\ \A n \in Names : IsInjective(lists[n]) /\ In(n) \subseteq Told
    BY <1>1 DEF TypeOK, ListsOK, Told
  <2> DEFINE q == lists[v]
             u == Append(q, s)
  <2>2. q \in Seq(Seats) /\ IsInjective(q) /\ s \notin ToSet(q)
    BY <1>4, <2>1 DEF In
  <2> HIDE DEF q
  <2>3. u \in Seq(Seats) /\ ToSet(u) = ToSet(q) \cup {s} /\ IsInjective(u)
    BY <2>2, AppendIs
  <2>4. lists' = [lists EXCEPT ![v] = u]
    BY <1>2 DEF q
  <2> HIDE DEF u
  <2>5. lists' \in [Names -> Seq(Seats)] /\ lists'[v] = u /\ \A n \in Names : n # v => lists'[n] = lists[n]
    BY <1>4, <2>1, <2>3, <2>4
  <2>6. ASSUME NEW n \in Names PROVE IsInjective(lists'[n]) /\ In(n)' = In(n) \cup X[n]
    <3>1. CASE n = v
      BY <1>5, <2>3, <2>5, <3>1 DEF In, q
    <3>2. CASE n # v
      BY <1>5, <2>1, <2>5, <3>2 DEF In
    <3> QED BY <3>1, <3>2
  <2> QED BY <2>5, <2>6
<1>7. \A n \in Names : X[n] \cap Told = {} /\ X[n] \subseteq seen /\ \A m \in Names : m # n => X[n] \cap X[m] = {}
  BY <1>3, <1>4, <1>5
<1>8. ListsOK' /\ Told' = Told \cup UNION {X[n] : n \in Names}
  BY <1>1, <1>2, <1>5, <1>6, <1>7, ListsGrow DEF TypeOK
<1>9. Told' = Told \cup {s}
  <2>1. UNION {X[n] : n \in Names} = {s}
    BY <1>4, <1>5
  <2> QED BY <1>8, <2>1
<1>10. Heard' = Heard \cup {s} /\ Unasked' = Unasked
  BY <1>3, <1>5, <1>6 DEF Heard, Unasked, Names, Verdicts
<1>11. TypeOK'
  BY <1>1, <1>2, <1>6 DEF TypeOK, Tasks
<1>12. task'[s] = "over" /\ \A r \in Seats : r # s => task'[r] = task[r]
  BY <1>1, <1>2 DEF TypeOK
<1>13. ASSUME NEW r \in Seats PROVE SeatOK(r)'
  <2>1. SeatOK(r)
    BY <1>1
  <2> QED BY <1>2, <1>3, <1>10, <1>12, <2>1 DEF SeatOK
<1>14. Pending' = Pending \ {s} /\ s \in Pending /\ Calling' \subseteq Calling
  BY <1>2, <1>12 DEF Pending, Calling, UnderWay
<1>15. PlaceOK'
  <2>1. seen = Told \cup Pending /\ shown = NoLists /\ \A r \in Seats : task[r] # "cancelled"
    BY <1>1, <1>2 DEF PlaceOK, Over
  <2>2. seen' = Told' \cup Pending'
    BY <1>2, <1>9, <1>14, <2>1
  <2>3. shown' = NoLists /\ \A r \in Seats : task'[r] # "cancelled"
    BY <1>2, <1>12, <2>1
  <2> QED BY <1>2, <2>2, <2>3 DEF PlaceOK, Over
<1>16. CallsOK'
  BY <1>1, <1>14, FewerCalls
<1> QED BY <1>8, <1>11, <1>13, <1>15, <1>16 DEF ThinkInv

\* A step of the stream that leaves seats and lists; nobody is under way after
\* it or nothing is over.
LEMMA StreamStep ==
    ASSUME ThinkInv, ~Over,
           pc' \in {"next", "result", "error", "none", "left"},
           pc' = "next" => pc = "judge" /\ Pending = {},
           (task' = task /\ Pending = {}) \/ task' = CancelsCalls,
           pc' = "next" => task' = task /\ shown' = shown,
           hop' = hop, roster' = roster, seen' = seen, lists' = lists, verdict' = verdict,
           refer' = refer, calls' = calls, shown' \in {shown, lists}
    PROVE  ThinkInv'
<1>1. TypeOK /\ ListsOK /\ (\A r \in Seats : SeatOK(r)) /\ PlaceOK /\ CallsOK
  BY DEF ThinkInv
<1>2. TypeOK'
  BY <1>1 DEF TypeOK, Tasks, CancelsCalls
<1>3. /\ \A n \in Names : In(n)' = In(n)
      /\ Told' = Told /\ Heard' = Heard /\ Unasked' = Unasked
  BY DEF In, Told, Heard, Unasked
<1>4. ListsOK'
  BY <1>1, <1>3 DEF ListsOK
<1>5. \A s \in Seats : task'[s] = task[s] \/ (task[s] \in UnderWay /\ task'[s] = "cancelled")
  BY DEF CancelsCalls, UnderWay
<1>6. \A s \in Seats : task'[s] \notin UnderWay
  BY DEF CancelsCalls, UnderWay, Pending
<1>7. ASSUME NEW s \in Seats PROVE SeatOK(s)'
  <2>1. SeatOK(s)
    BY <1>1
  <2>2. CASE task'[s] = task[s]
    BY <1>3, <2>1, <2>2 DEF SeatOK
  <2>3. CASE task[s] \in UnderWay /\ task'[s] = "cancelled"
    <3>1. calls[s] \in {0, 1} /\ s \notin Heard /\ s \in seen /\ s \notin Unasked
      BY <2>1, <2>3 DEF SeatOK, UnderWay
    <3> QED BY <1>3, <2>1, <2>3, <3>1 DEF SeatOK
  <2> QED BY <1>5, <2>2, <2>3
<1>8. Calling' = {}
  BY <1>6 DEF Calling, UnderWay
<1>9. PlaceOK'
  <2>1. CASE pc' = "next"
    <3>1. seen = Told /\ shown = NoLists /\ \A s \in Seats : task[s] # "cancelled"
      BY <1>1, <2>1 DEF PlaceOK, Over
    <3>2. Pending' = {}
      BY <2>1 DEF Pending
    <3> QED BY <1>3, <2>1, <3>1, <3>2 DEF PlaceOK, Over
  <2>2. CASE pc' # "next"
    BY <1>6, <2>2 DEF PlaceOK, Over
  <2> QED BY <2>1, <2>2
<1>10. CallsOK'
  BY <1>1, <1>8, FewerCalls
<1> QED BY <1>2, <1>4, <1>7, <1>9, <1>10 DEF ThinkInv

LEMMA StreamSteps ==
    ASSUME ThinkInv, NobodyFound \/ AllRead \/ Result \/ Break \/ Leave
    PROVE  ThinkInv'
<1>0. PlaceOK /\ TypeOK
  BY DEF ThinkInv
<1>1. CASE NobodyFound
  <2>1. Pending = {} /\ ~Over
    BY <1>0, <1>1 DEF PlaceOK, NobodyFound, Over
  <2> QED BY <1>1, <2>1, StreamStep DEF NobodyFound
<1>2. CASE AllRead
  <2>1. Pending = {} /\ ~Over
    BY <1>2 DEF AllRead, Over, Pending, UnderWay
  <2> QED BY <1>2, <2>1, StreamStep DEF AllRead
<1>3. CASE Result
  <2>1. Pending = {} /\ ~Over
    BY <1>0, <1>3 DEF PlaceOK, Result, Over
  <2> QED BY <1>3, <2>1, StreamStep DEF Result
<1>4. CASE Break
  <2>1. ~Over /\ pc' \in {"result", "error"} /\ shown' \in {shown, lists}
    BY <1>4 DEF Break, Over
  <2> QED BY <1>4, <2>1, StreamStep DEF Break
<1>5. CASE Leave
  <2>1. ~Over
    BY <1>5 DEF Leave, Over
  <2> QED BY <1>5, <2>1, StreamStep DEF Leave
<1> QED BY <1>1, <1>2, <1>3, <1>4, <1>5

-----------------------------------------------------------------------------
(* The invariant.                                                          *)

LEMMA NextInv == ThinkInv /\ [Next]_vars => ThinkInv'
<1> SUFFICES ASSUME ThinkInv, [Next]_vars PROVE ThinkInv'
  OBVIOUS
<1>1. CASE Summon BY <1>1, SummonStep
<1>2. CASE Screen BY <1>2, ScreenStep
<1>3. CASE Handoff BY <1>3, HandoffStep
<1>4. CASE NobodyFound \/ AllRead \/ Result \/ Break \/ Leave BY <1>4, StreamSteps
<1>5. ASSUME NEW s \in Seats, Read(s) PROVE ThinkInv' BY <1>5, ReadStep
<1>6. ASSUME NEW s \in Seats, Call(s) PROVE ThinkInv' BY <1>6, CallStep
<1>7. ASSUME NEW s \in Seats, Answer(s) PROVE ThinkInv' BY <1>7, AnswerStep
<1>8. CASE UNCHANGED vars
  BY <1>8 DEF vars, ThinkInv, TypeOK, ListsOK, In, Told, Heard, Unasked, SeatOK, Pending, PlaceOK,
              Over, CallsOK, Calling
<1> QED BY <1>1, <1>2, <1>3, <1>4, <1>5, <1>6, <1>7, <1>8 DEF Next, Stream

LEMMA SpecInv == Spec => []ThinkInv
BY InitInv, NextInv, PTL DEF Spec

\* All lists as one.
LEMMA AllIs ==
    ASSUME TypeOK, ListsOK
    PROVE  LET all == lists["answered"] \o lists["passed"] \o lists["errored"]
                        \o lists["screened_out"] \o lists["capped"]
           IN  IsInjective(all) /\ ToSet(all) = Told
<1> DEFINE a == lists["answered"]
           b == lists["passed"]
           c == lists["errored"]
           d == lists["screened_out"]
           e == lists["capped"]
<1>1. /\ {a, b, c, d, e} \subseteq Seq(Seats)
      /\ IsInjective(a) /\ IsInjective(b) /\ IsInjective(c) /\ IsInjective(d) /\ IsInjective(e)
  BY DEF TypeOK, ListsOK, Names
<1>2. /\ ToSet(a) \cap ToSet(b) = {} /\ ToSet(a) \cap ToSet(c) = {} /\ ToSet(a) \cap ToSet(d) = {}
      /\ ToSet(a) \cap ToSet(e) = {} /\ ToSet(b) \cap ToSet(c) = {} /\ ToSet(b) \cap ToSet(d) = {}
      /\ ToSet(b) \cap ToSet(e) = {} /\ ToSet(c) \cap ToSet(d) = {} /\ ToSet(c) \cap ToSet(e) = {}
      /\ ToSet(d) \cap ToSet(e) = {}
  BY DEF ListsOK, Names, In
<1>3. Told = ToSet(a) \cup ToSet(b) \cup ToSet(c) \cup ToSet(d) \cup ToSet(e)
  BY DEF Told, Names, In
<1> HIDE DEF a, b, c, d, e
<1>4. a \in Seq(Seats) /\ b \in Seq(Seats) /\ c \in Seq(Seats) /\ d \in Seq(Seats) /\ e \in Seq(Seats)
  BY <1>1
<1> DEFINE f == a \o b
           g == f \o c
           h == g \o d
           i == h \o e
<1>5. f \in Seq(Seats) /\ ToSet(f) = ToSet(a) \cup ToSet(b) /\ IsInjective(f)
  BY <1>1, <1>2, <1>4, RangeOfConcat, InjectiveConcat
<1> HIDE DEF f
<1>6. g \in Seq(Seats) /\ ToSet(g) = ToSet(f) \cup ToSet(c) /\ IsInjective(g)
  <2>1. ToSet(f) \cap ToSet(c) = {}
    BY <1>2, <1>5
  <2> QED BY <1>1, <1>4, <1>5, <2>1, RangeOfConcat, InjectiveConcat
<1> HIDE DEF g
<1>7. h \in Seq(Seats) /\ ToSet(h) = ToSet(g) \cup ToSet(d) /\ IsInjective(h)
  <2>1. ToSet(g) \cap ToSet(d) = {}
    BY <1>2, <1>5, <1>6
  <2> QED BY <1>1, <1>4, <1>6, <2>1, RangeOfConcat, InjectiveConcat
<1> HIDE DEF h
<1>8. ToSet(i) = ToSet(h) \cup ToSet(e) /\ IsInjective(i)
  <2>1. ToSet(h) \cap ToSet(e) = {}
    BY <1>2, <1>5, <1>6, <1>7
  <2> QED BY <1>1, <1>4, <1>7, <2>1, RangeOfConcat, InjectiveConcat
<1>9. ToSet(i) = Told
  BY <1>3, <1>5, <1>6, <1>7, <1>8
<1>10. i = lists["answered"] \o lists["passed"] \o lists["errored"] \o lists["screened_out"] \o lists["capped"]
  BY DEF f, g, h, a, b, c, d, e
<1> HIDE DEF i
<1> QED BY <1>8, <1>9, <1>10

LEMMA InvWhole == ThinkInv => ConsultationIsWhole
<1> SUFFICES ASSUME ThinkInv PROVE ConsultationIsWhole
  OBVIOUS
<1>1. TypeOK /\ ListsOK /\ (\A s \in Seats : SeatOK(s)) /\ PlaceOK /\ CallsOK
  BY DEF ThinkInv
<1> DEFINE all == lists["answered"] \o lists["passed"] \o lists["errored"]
                    \o lists["screened_out"] \o lists["capped"]
<1>2. IsInjective(all) /\ ToSet(all) = Told
  BY <1>1, AllIs
<1> HIDE DEF all
<1>3. Told = Heard \cup Unasked /\ Told \subseteq Seats
  <2>1. Told = Heard \cup Unasked
    BY DEF Told, Heard, Unasked, Names
  <2>2. \A n \in Names : In(n) \subseteq seen /\ seen \subseteq Seats
    BY <1>1 DEF ListsOK, TypeOK
  <2>3. Told \subseteq Seats
    BY <2>2 DEF Told
  <2> QED BY <2>1, <2>3
<1>4. Heard = {s \in Seats : calls[s] = 1 /\ s \in ToSet(all)}
  BY <1>1, <1>2, <1>3 DEF SeatOK
<1>5. pc = "next" => Told = seen
  BY <1>1 DEF PlaceOK
<1>6. EverySeatAccounted
  BY <1>2, <1>4, <1>5 DEF EverySeatAccounted, Heard, all
<1>7. ASSUME NEW s \in Seats PROVE calls[s] <= 1
  <2>1. calls[s] \in {0, 1}
    BY <1>1 DEF SeatOK, TypeOK, Tasks
  <2> QED BY <2>1
<1>8. AskedOnce
  BY <1>1, <1>7 DEF AskedOnce, CallsOK
<1>9. NoCallLeft
  BY <1>1 DEF NoCallLeft, PlaceOK, UnderWay
<1> QED BY <1>6, <1>8, <1>9 DEF ConsultationIsWhole

LEMMA NextShows ==
    ASSUME ThinkInv, [Next]_vars
    PROVE  [pc' \in {"result", "error"} => ToSet(shown'["answered"]) = ToSet(lists["answered"])]_vars
<1> SUFFICES ASSUME Next, ~UNCHANGED vars, pc' \in {"result", "error"}
             PROVE  ToSet(shown'["answered"]) = ToSet(lists["answered"])
  OBVIOUS
<1>1. TypeOK /\ PlaceOK
  BY DEF ThinkInv
<1>2. CASE Result
  BY <1>2 DEF Result
<1>3. CASE Break
  <2>1. CASE PartialResult
    BY <1>3, <2>1 DEF Break
  <2>2. CASE ~PartialResult
    <3>1. shown' = NoLists /\ lists["answered"] = <<>>
      BY <1>1, <1>3, <2>2 DEF Break, PlaceOK, Over, PartialResult
    <3>2. NoLists["answered"] = <<>>
      BY DEF NoLists, Names
    <3> QED BY <3>1, <3>2
  <2> QED BY <2>1, <2>2
<1>4. ASSUME NEW s \in Seats, Call(s) \/ Answer(s) PROVE FALSE
  <2>1. task[s] \in UnderWay /\ pc' = pc
    BY <1>4 DEF Call, Answer, UnderWay
  <2> QED BY <1>1, <2>1, CallersJudge
<1> QED BY <1>2, <1>3, <1>4 DEF Next, Stream, Summon, NobodyFound, Screen, AllRead, Handoff, StartHop, Read, Leave

-----------------------------------------------------------------------------
(* The theorems.                                                           *)

\* Whoever the hub names and however the hops go (run_thinking): every seat
\* that was summoned is in one list once, nobody is asked twice or beyond the
\* limit of calls at once, and no call goes on when the stream is over.
THEOREM EveryoneIsAccounted == Spec => []ConsultationIsWhole
BY SpecInv, InvWhole, PTL

\* An answer that was heard is shown, also when an error ends the stream.
THEOREM AnswersAreShown == Spec => HeardIsShown
<1>1. ThinkInv /\ [Next]_vars =>
        [pc' \in {"result", "error"} => ToSet(shown'["answered"]) = ToSet(lists["answered"])]_vars
  BY NextShows
<1> QED BY <1>1, SpecInv, PTL DEF Spec, HeardIsShown
=============================================================================
