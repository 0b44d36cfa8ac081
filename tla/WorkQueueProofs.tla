-------------------------- MODULE WorkQueueProofs --------------------------
(***************************************************************************)
(* What the operations on deques do to their entries, for deques over any  *)
(* set W.  Kept is a recursive function; its defining equation is derived  *)
(* here from the least argument at which it could fail, because the        *)
(* library's induction theorems cannot be instantiated.                    *)
(***************************************************************************)
EXTENDS WorkQueue, SequenceTheorems, FiniteSetTheorems, WellFoundedInduction, TLAPS

\* Every nonempty set of naturals has a least element.
LEMMA LeastNatural ==
    ASSUME NEW T \in SUBSET Nat, T # {}
    PROVE  \E x \in T : \A y \in T : x <= y
<1> DEFINE R == OpToRel(<, Nat)
<1>1. IsWellFoundedOn(R, Nat)
  BY NatLessThanWellFounded
<1>2. \A x, y \in Nat : y < x => <<y, x>> \in R
  BY DEF OpToRel
<1> HIDE DEF R
<1>3. PICK x \in T : \A y \in T : ~(<<y, x>> \in R)
  BY <1>1, WFMin
<1>4. ASSUME NEW y \in T PROVE x <= y
  <2>1. x \in Nat /\ y \in Nat
    OBVIOUS
  <2>2. ~(y < x)
    BY <1>2, <1>3, <2>1
  <2> QED BY <2>1, <2>2
<1> QED BY <1>4

\* What the definition of Kept asks of a function, up to m.
IsKept(f, q, S, m) ==
    f = [n \in 0..m |-> IF n = 0 THEN <<>>
                        ELSE IF q[n] \in S THEN f[n - 1] ELSE Append(f[n - 1], q[n])]

\* Such a function exists, up to any m.
LEMMA KeptExists ==
    ASSUME NEW W, NEW S, NEW q \in Seq(W)
    PROVE  \A m \in 0..Len(q) : \E f : IsKept(f, q, S, m)
<1> DEFINE Bad == {m \in 0..Len(q) : ~ \E f : IsKept(f, q, S, m)}
<1>1. SUFFICES ASSUME Bad # {} PROVE FALSE
  OBVIOUS
<1>2. PICK m \in Bad : \A k \in Bad : m <= k
  <2>1. Bad \in SUBSET Nat
    OBVIOUS
  <2> QED BY <1>1, <2>1, LeastNatural
<1>3. CASE m = 0
  <2>1. IsKept([n \in 0..0 |-> <<>>], q, S, 0)
    BY DEF IsKept
  <2> QED BY <1>2, <1>3, <2>1
<1>4. CASE m # 0
  <2>1. m \in 1..Len(q) /\ m - 1 \in 0..Len(q) /\ m - 1 \notin Bad
    BY <1>2, <1>4
  <2>2. PICK f : IsKept(f, q, S, m - 1)
    BY <2>1
  <2> DEFINE last == IF q[m] \in S THEN f[m - 1] ELSE Append(f[m - 1], q[m])
             g == [n \in 0..m |-> IF n = m THEN last ELSE f[n]]
  <2>3. IsKept(g, q, S, m)
    <3>1. ASSUME NEW n \in 0..m
          PROVE  g[n] = IF n = 0 THEN <<>>
                        ELSE IF q[n] \in S THEN g[n - 1] ELSE Append(g[n - 1], q[n])
      <4>1. CASE n = m
        BY <4>1, <2>1
      <4>2. CASE n # m
        <5>1. n \in 0..m-1
          BY <4>2, <2>1
        <5>2. f[n] = IF n = 0 THEN <<>>
                     ELSE IF q[n] \in S THEN f[n - 1] ELSE Append(f[n - 1], q[n])
          BY <2>2, <5>1 DEF IsKept
        <5> QED BY <5>1, <5>2, <2>1
      <4> QED BY <4>1, <4>2
    <3>2. g = [n \in 0..m |-> g[n]]
      OBVIOUS
    <3> HIDE DEF g
    <3> QED BY <3>1, <3>2 DEF IsKept
  <2> QED BY <2>3, <1>2
<1> QED BY <1>3, <1>4

\* Kept satisfies its own equation.
LEMMA KeptRec ==
    ASSUME NEW W, NEW S, NEW q \in Seq(W)
    PROVE  /\ Kept(q, S)[0] = <<>>
           /\ \A n \in 1..Len(q) :
                 Kept(q, S)[n] = IF q[n] \in S THEN Kept(q, S)[n - 1]
                                 ELSE Append(Kept(q, S)[n - 1], q[n])
<1>1. Len(q) \in Nat
  OBVIOUS
<1>2. PICK f : IsKept(f, q, S, Len(q))
  <2>1. \A m \in 0..Len(q) : \E f : IsKept(f, q, S, m)
    BY KeptExists
  <2>2. Len(q) \in 0..Len(q)
    BY <1>1
  <2> HIDE DEF IsKept
  <2> QED BY <2>1, <2>2
<1>3. IsKept(Kept(q, S), q, S, Len(q))
  BY <1>2 DEF IsKept, Kept
<1> DEFINE k == Kept(q, S)
<1> HIDE DEF k
<1>4. \A n \in 0..Len(q) :
         k[n] = IF n = 0 THEN <<>>
                ELSE IF q[n] \in S THEN k[n - 1] ELSE Append(k[n - 1], q[n])
  BY <1>3 DEF IsKept, k
<1> QED BY <1>1, <1>4 DEF k

\* An entry appended to a deque is one more entry.
LEMMA AppendElems ==
    ASSUME NEW W, NEW q \in Seq(W), NEW w \in W
    PROVE  /\ Append(q, w) \in Seq(W)
           /\ Elems(Append(q, w)) = Elems(q) \cup {w}
  BY DEF Elems

\* The entries of two deques, one after the other.
LEMMA ConcatElems ==
    ASSUME NEW W, NEW p \in Seq(W), NEW q \in Seq(W)
    PROVE  /\ p \o q \in Seq(W)
           /\ Elems(p \o q) = Elems(p) \cup Elems(q)
<1>1. Len(p) \in Nat /\ Len(q) \in Nat /\ Len(p \o q) = Len(p) + Len(q)
  OBVIOUS
<1>2. \A i \in 1..Len(q) : Len(p) + i \in 1..Len(p \o q) /\ (p \o q)[Len(p) + i] = q[i]
  BY <1>1
<1>3. \A i \in 1..Len(p) : i \in 1..Len(p \o q) /\ (p \o q)[i] = p[i]
  BY <1>1
<1>4. Elems(p) \cup Elems(q) \subseteq Elems(p \o q)
  BY <1>2, <1>3 DEF Elems
<1>5. ASSUME NEW i \in 1..Len(p \o q)
      PROVE  (p \o q)[i] \in Elems(p) \cup Elems(q)
  <2>1. CASE i \in 1..Len(p)
    BY <1>3, <2>1 DEF Elems
  <2>2. CASE i \notin 1..Len(p)
    <3>1. i - Len(p) \in 1..Len(q) /\ i = Len(p) + (i - Len(p))
      BY <1>1, <2>2
    <3> QED BY <1>2, <3>1 DEF Elems
  <2> QED BY <2>1, <2>2
<1>6. Elems(p \o q) \subseteq Elems(p) \cup Elems(q)
  BY <1>5 DEF Elems
<1> QED BY <1>4, <1>6

\* The entries of a deque are members of what the deque is over.
LEMMA ElemsIn ==
    ASSUME NEW W, NEW q \in Seq(W)
    PROVE  Elems(q) \subseteq W
  BY DEF Elems

\* A prefix has entries of the whole only.
LEMMA PrefixElems ==
    ASSUME NEW W, NEW q \in Seq(W), NEW n \in 1..Len(q)
    PROVE  /\ SubSeq(q, 1, n) \in Seq(W)
           /\ Elems(SubSeq(q, 1, n)) \subseteq Elems(q)
  BY DEF Elems

\* The first n entries of a deque.
FirstElems(q, n) == {q[i] : i \in 1..n}

\* The partial results of Kept hold what their prefix holds, without S.
LEMMA KeptElems ==
    ASSUME NEW W, NEW S, NEW q \in Seq(W)
    PROVE  \A n \in 0..Len(q) : /\ Kept(q, S)[n] \in Seq(W)
                                /\ Elems(Kept(q, S)[n]) = FirstElems(q, n) \ S
<1> DEFINE k == Kept(q, S)
           Good(n) == k[n] \in Seq(W) /\ Elems(k[n]) = FirstElems(q, n) \ S
           Bad == {n \in 0..Len(q) : ~Good(n)}
<1>1. /\ k[0] = <<>>
      /\ \A n \in 1..Len(q) :
            k[n] = IF q[n] \in S THEN k[n - 1] ELSE Append(k[n - 1], q[n])
  BY KeptRec
<1>2. Len(q) \in Nat
  OBVIOUS
<1> HIDE DEF k
<1>3. Good(0)
  BY <1>1 DEF Elems, FirstElems
<1>4. ASSUME NEW m \in 1..Len(q), Good(m - 1) PROVE Good(m)
  <2>1. q[m] \in W /\ m \in Nat /\ m >= 1
    BY <1>2
  <2>2. 1..m = (1..m-1) \cup {m}
    BY <2>1
  <2>3. FirstElems(q, m) = FirstElems(q, m - 1) \cup {q[m]}
    BY <2>2 DEF FirstElems
  <2>4. CASE q[m] \in S
    BY <1>1, <1>4, <2>3, <2>4
  <2>5. CASE q[m] \notin S
    <3>1. k[m] = Append(k[m - 1], q[m])
      BY <1>1, <2>5
    <3>2. /\ k[m] \in Seq(W)
          /\ Elems(k[m]) = Elems(k[m - 1]) \cup {q[m]}
      BY <1>4, <2>1, <3>1, AppendElems
    <3> QED BY <1>4, <2>3, <2>5, <3>2
  <2> QED BY <2>4, <2>5
<1> HIDE DEF Good
<1>5. Bad = {}
  <2>1. SUFFICES ASSUME Bad # {} PROVE FALSE
    OBVIOUS
  <2>2. PICK m \in Bad : \A j \in Bad : m <= j
    <3>1. Bad \in SUBSET Nat
      BY <1>2
    <3> HIDE DEF Bad
    <3> QED BY <2>1, <3>1, LeastNatural
  <2>3. m \in 0..Len(q) /\ ~Good(m)
    OBVIOUS
  <2>4. m # 0
    BY <1>3, <2>3
  <2>5. m \in 1..Len(q) /\ m - 1 \in 0..Len(q) /\ ~(m <= m - 1)
    BY <1>2, <2>3, <2>4
  <2>6. Good(m - 1)
    BY <2>2, <2>5
  <2> QED BY <1>4, <2>3, <2>5, <2>6
<1>6. \A n \in 0..Len(q) : Good(n)
  BY <1>5
<1> QED BY <1>6 DEF Good, k

\* Removing entries removes them and nothing else.
LEMMA WithoutElems ==
    ASSUME NEW W, NEW S, NEW q \in Seq(W)
    PROVE  /\ Without(q, S) \in Seq(W)
           /\ Elems(Without(q, S)) = Elems(q) \ S
<1>1. Len(q) \in 0..Len(q)
  OBVIOUS
<1>2. /\ Kept(q, S)[Len(q)] \in Seq(W)
      /\ Elems(Kept(q, S)[Len(q)]) = FirstElems(q, Len(q)) \ S
  <2>1. \A n \in 0..Len(q) : /\ Kept(q, S)[n] \in Seq(W)
                            /\ Elems(Kept(q, S)[n]) = FirstElems(q, n) \ S
    BY KeptElems
  <2> QED BY <1>1, <2>1
<1> QED BY <1>2 DEF Without, Elems, FirstElems

\* Keeping entries keeps them and nothing else.
LEMMA OnlyElems ==
    ASSUME NEW W, NEW S, NEW q \in Seq(W)
    PROVE  /\ Only(q, S) \in Seq(W)
           /\ Elems(Only(q, S)) = Elems(q) \cap S
<1>1. /\ Only(q, S) \in Seq(W)
      /\ Elems(Only(q, S)) = Elems(q) \ (Elems(q) \ S)
  BY WithoutElems DEF Only
<1> QED BY <1>1

\* An order of a set is a deque of its members, all of them.
LEMMA OrdersElems ==
    ASSUME NEW T, IsFiniteSet(T), NEW q \in Orders(T), Cardinality(T) \in Nat
    PROVE  q \in Seq(T) /\ Elems(q) = T
  BY DEF Orders, Elems
-----------------------------------------------------------------------------
(* Duplicates and order.                                                   *)

\* h shows where the entries of k are in q: at rising positions.
Embeds(h, k, q, n) ==
    /\ h \in [1..Len(k) -> 1..n]
    /\ \A i \in 1..Len(k) : k[i] = q[h[i]]
    /\ \A i, j \in 1..Len(k) : i < j => h[i] < h[j]

\* Each partial result of Kept lists entries of its prefix, in their order.
LEMMA KeptEmbeds ==
    ASSUME NEW W, NEW S, NEW q \in Seq(W)
    PROVE  \A n \in 0..Len(q) : \E h : Embeds(h, Kept(q, S)[n], q, n)
<1> DEFINE k == Kept(q, S)
           Good(n) == \E h : Embeds(h, k[n], q, n)
           Bad == {n \in 0..Len(q) : ~Good(n)}
<1>1. /\ k[0] = <<>>
      /\ \A n \in 1..Len(q) :
            k[n] = IF q[n] \in S THEN k[n - 1] ELSE Append(k[n - 1], q[n])
  BY KeptRec
<1>2. Len(q) \in Nat /\ \A n \in 0..Len(q) : k[n] \in Seq(W)
  BY KeptElems
<1> HIDE DEF k
<1>3. Good(0)
  <2>1. Embeds([i \in {} |-> 0], k[0], q, 0)
    BY <1>1 DEF Embeds
  <2> QED BY <2>1
<1>4. ASSUME NEW m \in 1..Len(q), Good(m - 1) PROVE Good(m)
  <2>1. PICK h : Embeds(h, k[m - 1], q, m - 1)
    BY <1>4
  <2>2. /\ m \in Nat /\ m >= 1 /\ m - 1 \in 0..Len(q) /\ q[m] \in W
        /\ k[m - 1] \in Seq(W) /\ Len(k[m - 1]) \in Nat
    BY <1>2
  <2>3. CASE q[m] \in S
    <3>1. Embeds(h, k[m], q, m)
      BY <1>1, <2>1, <2>2, <2>3 DEF Embeds
    <3> QED BY <3>1
  <2>4. CASE q[m] \notin S
    <3> DEFINE l == Len(k[m - 1])
               g == [i \in 1..(l + 1) |-> IF i = l + 1 THEN m ELSE h[i]]
    <3>1. k[m] = Append(k[m - 1], q[m])
      BY <1>1, <2>4
    <3>2. /\ Len(k[m]) = l + 1
          /\ k[m][l + 1] = q[m]
          /\ \A i \in 1..l : k[m][i] = k[m - 1][i]
      BY <2>2, <3>1
    <3>3. \A i \in 1..(l + 1) : i = l + 1 \/ i \in 1..l
      BY <2>2
    <3>4. \A i \in 1..l : h[i] \in 1..(m - 1)
      BY <2>1 DEF Embeds
    <3>5. g \in [1..(l + 1) -> 1..m]
      BY <2>2, <3>3, <3>4
    <3>6. \A i \in 1..(l + 1) : k[m][i] = q[g[i]]
      BY <2>1, <2>2, <3>2, <3>3 DEF Embeds
    <3>7. \A i, j \in 1..(l + 1) : i < j => g[i] < g[j]
      <4> SUFFICES ASSUME NEW i \in 1..(l + 1), NEW j \in 1..(l + 1), i < j
                   PROVE  g[i] < g[j]
        OBVIOUS
      <4>1. i \in 1..l /\ g[i] = h[i] /\ h[i] \in 1..(m - 1)
        BY <2>2, <3>3, <3>4
      <4>2. CASE j = l + 1
        BY <2>2, <4>1, <4>2
      <4>3. CASE j \in 1..l
        BY <2>1, <2>2, <4>1, <4>3 DEF Embeds
      <4> QED BY <3>3, <4>2, <4>3
    <3> HIDE DEF g
    <3>8. Embeds(g, k[m], q, m)
      BY <3>2, <3>5, <3>6, <3>7 DEF Embeds
    <3> QED BY <3>8
  <2> QED BY <2>3, <2>4
<1> HIDE DEF Good
<1>5. Bad = {}
  <2>1. SUFFICES ASSUME Bad # {} PROVE FALSE
    OBVIOUS
  <2>2. PICK m \in Bad : \A j \in Bad : m <= j
    <3>1. Bad \in SUBSET Nat
      BY <1>2
    <3> HIDE DEF Bad
    <3> QED BY <2>1, <3>1, LeastNatural
  <2>3. m \in 0..Len(q) /\ ~Good(m)
    OBVIOUS
  <2>4. m # 0
    BY <1>3, <2>3
  <2>5. m \in 1..Len(q) /\ m - 1 \in 0..Len(q) /\ ~(m <= m - 1)
    BY <1>2, <2>3, <2>4
  <2>6. Good(m - 1)
    BY <2>2, <2>5
  <2> QED BY <1>4, <2>3, <2>5, <2>6
<1>6. \A n \in 0..Len(q) : Good(n)
  BY <1>5
<1> QED BY <1>6 DEF Good, k

\* What is left of a deque keeps its order.
LEMMA WithoutEmbeds ==
    ASSUME NEW W, NEW S, NEW q \in Seq(W)
    PROVE  \E h : Embeds(h, Without(q, S), q, Len(q))
<1>1. Len(q) \in 0..Len(q)
  OBVIOUS
<1> QED BY <1>1, KeptEmbeds DEF Without

\* ... and lists nothing twice that was listed once.
LEMMA WithoutDistinct ==
    ASSUME NEW W, NEW S, NEW q \in Seq(W), Distinct(q)
    PROVE  Distinct(Without(q, S))
<1>1. PICK h : Embeds(h, Without(q, S), q, Len(q))
  BY WithoutEmbeds
<1>2. Without(q, S) \in Seq(W) /\ Len(Without(q, S)) \in Nat /\ Len(q) \in Nat
  BY WithoutElems
<1> DEFINE k == Without(q, S)
<1> SUFFICES ASSUME NEW i \in 1..Len(k), NEW j \in 1..Len(k), k[i] = k[j]
             PROVE  i = j
  BY DEF Distinct
<1>3. Embeds(h, k, q, Len(q)) /\ Len(k) \in Nat
  BY <1>1, <1>2
<1> HIDE DEF k
<1>4. /\ h[i] \in 1..Len(q) /\ h[j] \in 1..Len(q)
      /\ q[h[i]] = k[i] /\ q[h[j]] = k[j]
      /\ (i < j => h[i] < h[j]) /\ (j < i => h[j] < h[i])
  BY <1>3 DEF Embeds
<1>5. h[i] = h[j]
  BY <1>4 DEF Distinct
<1> QED BY <1>2, <1>3, <1>4, <1>5

\* What is selected from a list without duplicates has none either.
LEMMA OnlyDistinct ==
    ASSUME NEW W, NEW S, NEW q \in Seq(W), Distinct(q)
    PROVE  Distinct(Only(q, S))
  BY WithoutDistinct DEF Only

\* A new entry at the end is listed once.
LEMMA AppendDistinct ==
    ASSUME NEW W, NEW q \in Seq(W), NEW w \in W, Distinct(q), w \notin Elems(q)
    PROVE  Distinct(Append(q, w))
  BY DEF Distinct, Elems

\* The entries of a concatenation, by position.
LEMMA ConcatAt ==
    ASSUME NEW W, NEW p \in Seq(W), NEW q \in Seq(W)
    PROVE  /\ Len(p) \in Nat /\ Len(q) \in Nat /\ Len(p \o q) = Len(p) + Len(q)
           /\ \A i \in 1..Len(p) : i \in 1..Len(p \o q) /\ (p \o q)[i] = p[i]
           /\ \A i \in 1..Len(q) :
                 Len(p) + i \in 1..Len(p \o q) /\ (p \o q)[Len(p) + i] = q[i]
           /\ \A i \in 1..Len(p \o q) :
                 \/ i \in 1..Len(p) /\ (p \o q)[i] = p[i]
                 \/ /\ i - Len(p) \in 1..Len(q) /\ i = Len(p) + (i - Len(p))
                    /\ (p \o q)[i] = q[i - Len(p)]
<1>1. Len(p) \in Nat /\ Len(q) \in Nat /\ Len(p \o q) = Len(p) + Len(q)
  OBVIOUS
<1>2. \A i \in 1..Len(q) : Len(p) + i \in 1..Len(p \o q) /\ (p \o q)[Len(p) + i] = q[i]
  BY <1>1
<1>3. \A i \in 1..Len(p) : i \in 1..Len(p \o q) /\ (p \o q)[i] = p[i]
  BY <1>1
<1>4. ASSUME NEW i \in 1..Len(p \o q), i \notin 1..Len(p)
      PROVE  /\ i - Len(p) \in 1..Len(q) /\ i = Len(p) + (i - Len(p))
             /\ (p \o q)[i] = q[i - Len(p)]
  <2>1. i - Len(p) \in 1..Len(q) /\ i = Len(p) + (i - Len(p))
    BY <1>1, <1>4
  <2> QED BY <1>2, <2>1
<1> QED BY <1>1, <1>2, <1>3, <1>4

\* Two deques without a common entry.
LEMMA ConcatDistinct ==
    ASSUME NEW W, NEW p \in Seq(W), NEW q \in Seq(W),
           Distinct(p), Distinct(q), Elems(p) \cap Elems(q) = {}
    PROVE  Distinct(p \o q)
<1>1. /\ Len(p) \in Nat /\ Len(q) \in Nat
      /\ \A i \in 1..Len(p \o q) :
            \/ i \in 1..Len(p) /\ (p \o q)[i] = p[i]
            \/ /\ i - Len(p) \in 1..Len(q) /\ i = Len(p) + (i - Len(p))
               /\ (p \o q)[i] = q[i - Len(p)]
  BY ConcatAt
<1>2. \A i \in 1..Len(p), j \in 1..Len(q) : p[i] # q[j]
  BY DEF Elems
<1> QED BY <1>1, <1>2 DEF Distinct

\* A prefix of a list without duplicates has none either.
LEMMA PrefixDistinct ==
    ASSUME NEW W, NEW q \in Seq(W), NEW n \in 1..Len(q), Distinct(q)
    PROVE  Distinct(SubSeq(q, 1, n))
  BY DEF Distinct

\* An order lists every member once: the deque is as long as the set is large.
LEMMA OrdersDistinct ==
    ASSUME NEW T, IsFiniteSet(T), NEW q \in Orders(T)
    PROVE  Distinct(q)
<1> DEFINE n == Cardinality(T)
<1>1. n \in Nat
  BY FS_CardinalityType
<1>2. q \in [1..n -> T] /\ Len(q) = n /\ \A x \in T : \E i \in 1..n : q[i] = x
  BY <1>1 DEF Orders
<1> SUFFICES ASSUME NEW i \in 1..n, NEW j \in 1..n, q[i] = q[j], i # j
             PROVE  FALSE
  BY <1>2 DEF Distinct
<1> DEFINE others == (1..n) \ {j}
           g == [x \in T |-> CHOOSE m \in others : q[m] = x]
<1>3. IsFiniteSet(others) /\ Cardinality(others) < n
  <2>1. IsFiniteSet(1..n) /\ Cardinality(1..n) = n
    <3> HIDE DEF n
    <3>1. n \in Int /\ 1 \in Int /\ (1 > n => n = 0) /\ n - 1 + 1 = n
      BY <1>1
    <3>2. IsFiniteSet(1..n) /\ Cardinality(1..n) = IF 1 > n THEN 0 ELSE n - 1 + 1
      BY <3>1, FS_Interval
    <3> QED BY <3>1, <3>2
  <2>2. Cardinality(others) = n - 1
    BY <2>1, FS_RemoveElement
  <2>3. IsFiniteSet(others)
    BY <2>1, FS_RemoveElement
  <2> HIDE DEF others
  <2> QED BY <1>1, <2>2, <2>3
<1>4. \A x \in T : \E m \in others : q[m] = x
  BY <1>2
<1>5. \A x \in T : g[x] \in others /\ q[g[x]] = x
  BY <1>4
<1>6. g \in [T -> others]
  BY <1>5
<1> HIDE DEF g, others
<1>7. \E x, y \in T : x # y /\ g[x] = g[y]
  BY <1>3, <1>6, FS_PigeonHole
<1> QED BY <1>5, <1>7

\* T holds of every two entries of q, the earlier one first.
Follows(q, T) == \A i, j \in 1..Len(q) : i < j => <<q[i], q[j]>> \in T

\* What is left of a deque, or taken from its front, follows the same relation.
LEMMA WithoutFollows ==
    ASSUME NEW W, NEW S, NEW T, NEW q \in Seq(W), Follows(q, T)
    PROVE  Follows(Without(q, S), T)
<1> DEFINE k == Without(q, S)
<1>1. PICK h : Embeds(h, k, q, Len(q))
  BY WithoutEmbeds
<1>2. k \in Seq(W) /\ Len(k) \in Nat /\ Len(q) \in Nat
  BY WithoutElems
<1> HIDE DEF k
<1> SUFFICES ASSUME NEW i \in 1..Len(k), NEW j \in 1..Len(k), i < j
             PROVE  <<k[i], k[j]>> \in T
  BY DEF Follows, k
<1>3. h[i] \in 1..Len(q) /\ h[j] \in 1..Len(q) /\ h[i] < h[j]
      /\ k[i] = q[h[i]] /\ k[j] = q[h[j]]
  BY <1>1 DEF Embeds
<1> QED BY <1>3 DEF Follows

\* Selecting entries keeps the order of those selected.
LEMMA OnlyFollows ==
    ASSUME NEW W, NEW S, NEW T, NEW q \in Seq(W), Follows(q, T)
    PROVE  Follows(Only(q, S), T)
  BY WithoutFollows DEF Only

\* A prefix of a list in order is in order.
LEMMA PrefixFollows ==
    ASSUME NEW W, NEW T, NEW q \in Seq(W), NEW n \in 1..Len(q), Follows(q, T)
    PROVE  Follows(SubSeq(q, 1, n), T)
  BY DEF Follows

\* Two deques follow a relation that also holds between them.
LEMMA ConcatFollows ==
    ASSUME NEW W, NEW T, NEW p \in Seq(W), NEW q \in Seq(W),
           Follows(p, T), Follows(q, T),
           \A v \in Elems(p), w \in Elems(q) : <<v, w>> \in T
    PROVE  Follows(p \o q, T)
<1>1. /\ Len(p) \in Nat /\ Len(q) \in Nat
      /\ \A i \in 1..Len(p \o q) :
            \/ i \in 1..Len(p) /\ (p \o q)[i] = p[i]
            \/ /\ i - Len(p) \in 1..Len(q) /\ i = Len(p) + (i - Len(p))
               /\ (p \o q)[i] = q[i - Len(p)]
  BY ConcatAt
<1>2. \A i \in 1..Len(p), j \in 1..Len(q) : <<p[i], q[j]>> \in T
  BY DEF Elems
<1> DEFINE c == p \o q
<1> HIDE DEF c
<1> SUFFICES ASSUME NEW i \in 1..Len(c), NEW j \in 1..Len(c), i < j
             PROVE  <<c[i], c[j]>> \in T
  BY DEF Follows, c
<1>3. CASE j \in 1..Len(p) /\ c[j] = p[j]
  <2>1. i \in 1..Len(p) /\ c[i] = p[i]
    BY <1>1, <1>3 DEF c
  <2> QED BY <1>3, <2>1 DEF Follows
<1>4. CASE i \in 1..Len(p) /\ c[i] = p[i] /\ j - Len(p) \in 1..Len(q) /\ c[j] = q[j - Len(p)]
  BY <1>2, <1>4
<1>5. CASE i \notin 1..Len(p)
  <2>1. /\ i - Len(p) \in 1..Len(q) /\ c[i] = q[i - Len(p)]
        /\ j - Len(p) \in 1..Len(q) /\ c[j] = q[j - Len(p)]
        /\ i - Len(p) < j - Len(p)
    BY <1>1, <1>5 DEF c
  <2> QED BY <2>1 DEF Follows
<1>6. i \in 1..Len(p) => c[i] = p[i]
  BY <1>1 DEF c
<1>7. \/ j \in 1..Len(p) /\ c[j] = p[j]
      \/ j - Len(p) \in 1..Len(q) /\ c[j] = q[j - Len(p)]
  BY <1>1 DEF c
<1> QED BY <1>3, <1>4, <1>5, <1>6, <1>7

\* Removing entries keeps the order of the others, when no entry is listed twice.
LEMMA WithoutKeepsOrder ==
    ASSUME NEW W, NEW S, NEW q \in Seq(W), Distinct(q),
           NEW i \in 1..Len(q), NEW j \in 1..Len(q), i < j, q[i] \notin S, q[j] \notin S
    PROVE  \E a, b \in 1..Len(Without(q, S)) :
              a < b /\ Without(q, S)[a] = q[i] /\ Without(q, S)[b] = q[j]
<1> DEFINE k == Without(q, S)
<1>1. PICK h : Embeds(h, k, q, Len(q))
  BY WithoutEmbeds
<1>2. k \in Seq(W) /\ Len(k) \in Nat /\ Len(q) \in Nat /\ Elems(k) = Elems(q) \ S
  BY WithoutElems
<1> HIDE DEF k
<1>3. q[i] \in Elems(k) /\ q[j] \in Elems(k)
  BY <1>2 DEF Elems
<1>4. PICK a \in 1..Len(k) : k[a] = q[i]
  BY <1>3 DEF Elems
<1>5. PICK b \in 1..Len(k) : k[b] = q[j]
  BY <1>3 DEF Elems
<1>6. h \in [1..Len(k) -> 1..Len(q)] /\ k[a] = q[h[a]] /\ k[b] = q[h[b]]
      /\ (b < a => h[b] < h[a])
  BY <1>1, <1>4, <1>5 DEF Embeds
<1>7. h[a] = i /\ h[b] = j
  BY <1>4, <1>5, <1>6 DEF Distinct
<1>8. a < b
  <2>1. i \in Nat /\ j \in Nat /\ a \in Nat /\ b \in Nat
    BY <1>2
  <2> QED BY <1>6, <1>7, <2>1
<1> QED BY <1>4, <1>5, <1>8 DEF k
=============================================================================
