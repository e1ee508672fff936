---------------------------- MODULE OrderingProofs ----------------------------
(* Facts about least elements, and about the sorts and sums of Ordering.    *)
EXTENDS Ordering, FiniteSetTheorems, TLAPS

LEMMA LeastNatural ==
  ASSUME NEW T \in SUBSET Nat, T # {}
  PROVE  \E n \in T : \A m \in T : n <= m
<1>1. PICK n \in T : \A m \in T : <<m, n>> \notin OpToRel(<, Nat)
  BY NatLessThanWellFounded, WFMin, Zenon
<1>2. \A m \in T : ~ (m < n)
  BY <1>1, Zenon DEF OpToRel
<1>3. QED
  BY <1>2

(* Every finite set of integers that is not empty has a greatest element.   *)
LEMMA GreatestOfFinite ==
  ASSUME NEW S \in SUBSET Int, IsFiniteSet(S), S # {}
  PROVE  \E x \in S : \A y \in S : x >= y
<1> DEFINE Bad(n) == \E T \in SUBSET Int : /\ IsFiniteSet(T) /\ T # {} /\ Cardinality(T) = n
                                           /\ ~ \E x \in T : \A y \in T : x >= y
<1>1. SUFFICES ASSUME ~ \E x \in S : \A y \in S : x >= y PROVE FALSE
  OBVIOUS
<1>2. Bad(Cardinality(S)) /\ Cardinality(S) \in Nat
  BY <1>1, FS_CardinalityType
<1>3. PICK n \in {m \in Nat : Bad(m)} : \A m \in {m \in Nat : Bad(m)} : n <= m
  <2> DEFINE N == {m \in Nat : Bad(m)}
  <2>1. N \in SUBSET Nat /\ N # {}
    BY <1>2
  <2> HIDE DEF N
  <2>2. \E m \in N : \A k \in N : m <= k
    BY <2>1, LeastNatural
  <2>3. QED
    BY <2>2 DEF N
<1>4. PICK T \in SUBSET Int : /\ IsFiniteSet(T) /\ T # {} /\ Cardinality(T) = n
                              /\ ~ \E x \in T : \A y \in T : x >= y
  BY <1>3
<1>5. PICK a \in T : TRUE
  BY <1>4
<1> DEFINE U == T \ {a}
<1>6. IsFiniteSet(U) /\ Cardinality(U) = n - 1 /\ U \in SUBSET Int
  BY <1>4, <1>5, FS_RemoveElement
<1>7. U # {}
  <2>1. ASSUME U = {} PROVE FALSE
    <3>1. \A y \in T : a >= y
      BY <1>4, <1>5, <2>1
    <3>2. QED
      BY <1>4, <1>5, <3>1
  <2>2. QED
    BY <2>1
<1>8. PICK b \in U : \A y \in U : b >= y
  <2>1. n - 1 \in Nat
    BY <1>6, FS_CardinalityType
  <2>2. ~ Bad(n - 1)
    BY <1>3, <2>1
  <2>3. QED
    BY <1>6, <1>7, <2>2
<1>9. CASE a >= b
  BY <1>4, <1>5, <1>6, <1>8, <1>9
<1>10. CASE ~ (a >= b)
  BY <1>4, <1>5, <1>6, <1>8, <1>10
<1>11. QED
  BY <1>9, <1>10

-----------------------------------------------------------------------------
(* Sorting.                                                                 *)

StrictOrder(R, S) ==
  /\ \A x \in S : <<x, x>> \notin R
  /\ \A x, y, z \in S : <<x, y>> \in R /\ <<y, z>> \in R => <<x, z>> \in R
  /\ \A x, y \in S : x = y \/ <<x, y>> \in R \/ <<y, x>> \in R

Below(R, S) == [x \in S |-> {y \in S : <<y, x>> \in R}]

(* A finite set in a strict total order: every member once, in order.       *)
LEMMA OrderedByEnumerates ==
  ASSUME NEW S, IsFiniteSet(S), NEW R, StrictOrder(R, S)
  PROVE  LET o == OrderedBy(S, Below(R, S)) IN
         /\ o \in Bijection(1 .. Cardinality(S), S)
         /\ \A i, j \in 1 .. Cardinality(S) : i < j => <<o[i], o[j]>> \in R
<1> DEFINE n == Cardinality(S)
           below(x) == {y \in S : <<y, x>> \in R}
           rank == [x \in S |-> Cardinality(below(x))]
           o == OrderedBy(S, Below(R, S))
<1>1. n \in Nat
  BY FS_CardinalityType
<1>2. \A x \in S : IsFiniteSet(below(x)) /\ Cardinality(below(x)) \in 0 .. n - 1
  <2> TAKE x \in S
  <2>1. below(x) \in SUBSET S /\ x \notin below(x)
    BY DEF StrictOrder
  <2>2. IsFiniteSet(below(x)) /\ Cardinality(below(x)) <= n /\ Cardinality(below(x)) # n
    BY <2>1, FS_Subset
  <2>3. Cardinality(below(x)) \in Nat
    BY <2>2, FS_CardinalityType
  <2>4. QED
    BY <1>1, <2>2, <2>3
<1>3. \A x, y \in S : <<x, y>> \in R => rank[x] < rank[y]
  <2> SUFFICES ASSUME NEW x \in S, NEW y \in S, <<x, y>> \in R
               PROVE  Cardinality(below(x)) < Cardinality(below(y))
    OBVIOUS
  <2>1. below(x) \in SUBSET below(y) /\ x \in below(y) /\ x \notin below(x)
    BY DEF StrictOrder
  <2>2. /\ Cardinality(below(x)) <= Cardinality(below(y))
        /\ Cardinality(below(y)) # Cardinality(below(x))
    <3> HIDE DEF below
    <3>1. QED
      BY <1>2, <2>1, FS_Subset
  <2>3. Cardinality(below(x)) \in Int /\ Cardinality(below(y)) \in Int
    BY <1>1, <1>2
  <2> HIDE DEF below
  <2>4. QED
    BY <2>2, <2>3
<1>4. rank \in Injection(S, 0 .. n - 1)
  <2>1. rank \in [S -> 0 .. n - 1]
    BY <1>2
  <2>2. \A x, y \in S : rank[x] = rank[y] => x = y
    <3> TAKE x \in S, y \in S
    <3>1. rank[x] \in Int /\ rank[y] \in Int
      BY <1>1, <2>1
    <3>2. <<x, y>> \in R \/ <<y, x>> \in R \/ x = y
      BY DEF StrictOrder
    <3> HIDE DEF rank
    <3>3. QED
      BY <1>3, <3>1, <3>2
  <2>3. QED
    BY <2>1, <2>2 DEF Injection, IsInjective
<1>5. rank \in Surjection(S, 0 .. n - 1)
  <2>1. IsFiniteSet(0 .. n - 1) /\ Cardinality(0 .. n - 1) = n
    BY <1>1, FS_Interval
  <2>2. QED
    BY <1>4, <2>1, FS_Injection
<1>6. \A k \in 1 .. n : o[k] \in S /\ rank[o[k]] = k - 1
  <2> TAKE k \in 1 .. n
  <2>1. k - 1 \in 0 .. n - 1
    BY <1>1
  <2> DEFINE ranked == {<<Cardinality(Below(R, S)[x]), x>> : x \in S}
             p == CHOOSE p \in ranked : p[1] = k - 1
  <2>2. PICK x \in S : Cardinality(Below(R, S)[x]) = k - 1
    BY <1>5, <2>1 DEF Surjection, Below
  <2>3. o[k] = p[2]
    BY DEF OrderedBy
  <2>4. o[k] \in S /\ Cardinality(Below(R, S)[o[k]]) = k - 1
    <3>1. <<Cardinality(Below(R, S)[x]), x>> \in ranked
      OBVIOUS
    <3>2. p \in ranked /\ p[1] = k - 1
      <4>1. \E q \in ranked : q[1] = k - 1
        BY <2>2, <3>1
      <4> HIDE DEF ranked
      <4>2. QED
        BY <4>1
    <3>3. PICK y \in S : p = <<Cardinality(Below(R, S)[y]), y>>
      BY <3>2
    <3> HIDE DEF ranked, p
    <3>4. QED
      BY <2>3, <3>2, <3>3
  <2>5. QED
    BY <2>4 DEF Below
<1>7. o \in [1 .. n -> S]
  <2>1. o = [k \in 1 .. n |-> o[k]]
    BY DEF OrderedBy
  <2> HIDE DEF o
  <2>2. QED
    BY <1>6, <2>1
<1>8. \A i, j \in 1 .. n : i < j => <<o[i], o[j]>> \in R
  <2> SUFFICES ASSUME NEW i \in 1 .. n, NEW j \in 1 .. n, i < j PROVE <<o[i], o[j]>> \in R
    OBVIOUS
  <2>1. o[i] \in S /\ o[j] \in S /\ rank[o[i]] < rank[o[j]]
    BY <1>1, <1>6
  <2>2. ~ (rank[o[j]] < rank[o[i]]) /\ o[i] # o[j]
    BY <1>1, <1>6, <2>1
  <2>3. QED
    BY <1>3, <2>1, <2>2 DEF StrictOrder
<1>9. o \in Injection(1 .. n, S)
  <2>1. \A i, j \in 1 .. n : o[i] = o[j] => i = j
    <3> TAKE i \in 1 .. n, j \in 1 .. n
    <3>1. rank[o[i]] = i - 1 /\ rank[o[j]] = j - 1
      BY <1>6
    <3> HIDE DEF rank, o
    <3>2. QED
      BY <1>1, <3>1
  <2>2. QED
    BY <1>7, <2>1 DEF Injection, IsInjective
<1>10. o \in Surjection(1 .. n, S)
  <2>1. IsFiniteSet(1 .. n) /\ Cardinality(1 .. n) = n
    BY <1>1, FS_Interval
  <2>2. QED
    BY <1>9, <2>1, FS_Injection
<1>11. QED
  BY <1>8, <1>9, <1>10 DEF Bijection

(* A finite set of integers in ascending order.                             *)
LEMMA AscendingEnumerates ==
  ASSUME NEW S \in SUBSET Int, IsFiniteSet(S)
  PROVE  LET o == Ascending(S) IN
         /\ Cardinality(S) \in Nat
         /\ o \in Seq(S) /\ Len(o) = Cardinality(S) /\ DOMAIN o = 1 .. Cardinality(S)
         /\ \A x \in S : \E k \in DOMAIN o : o[k] = x
         /\ \A i, j \in DOMAIN o : i < j => o[i] < o[j]
<1> DEFINE R == {p \in S \X S : p[1] < p[2]}
           o == Ascending(S)
           n == Cardinality(S)
<1>1. StrictOrder(R, S)
  BY DEF StrictOrder
<1>2. Ascending(S) = OrderedBy(S, Below(R, S))
  <2>1. [x \in S |-> {y \in S : y < x}] = Below(R, S)
    BY DEF Below
  <2>2. QED
    BY <2>1 DEF Ascending
<1>3. /\ o \in Bijection(1 .. n, S)
      /\ \A i, j \in 1 .. n : i < j => <<o[i], o[j]>> \in R
  BY <1>1, <1>2, OrderedByEnumerates
<1>4. n \in Nat
  BY FS_CardinalityType
<1>5. o \in [1 .. n -> S] /\ \A x \in S : \E k \in 1 .. n : o[k] = x
  BY <1>3 DEF Bijection, Injection, Surjection
<1>6. o \in Seq(S) /\ Len(o) = n /\ DOMAIN o = 1 .. n
  BY <1>4, <1>5
<1> HIDE DEF o
<1>7. QED
  BY <1>3, <1>4, <1>5, <1>6 DEF o

(* A permutation of the positions of a sequence, and one that sorts keys,   *)
(* largest first.                                                           *)
Permutes(order, seq) ==
  /\ order \in [DOMAIN seq -> DOMAIN seq]
  /\ \A i, j \in DOMAIN seq : order[i] = order[j] => i = j
  /\ \A k \in DOMAIN seq : \E i \in DOMAIN seq : order[i] = k

(* sorted(seq, key=..., reverse=True): the same elements, the keys falling. *)
LEMMA DescendingSorts ==
  ASSUME NEW X, NEW seq \in Seq(X), NEW key \in [DOMAIN seq -> Int]
  PROVE  /\ Descending(seq, key) \in Seq(X)
         /\ Len(Descending(seq, key)) = Len(seq)
         /\ DOMAIN Descending(seq, key) = DOMAIN seq
         /\ \E order : /\ Permutes(order, seq)
                       /\ \A k \in DOMAIN seq : Descending(seq, key)[k] = seq[order[k]]
                       /\ \A i, j \in DOMAIN seq : i < j => key[order[i]] >= key[order[j]]
<1> DEFINE D == DOMAIN seq
           before(i, j) == key[i] > key[j] \/ (key[i] = key[j] /\ i < j)
           R == {p \in D \X D : before(p[1], p[2])}
           order == OrderedBy(D, Below(R, D))
           n == Len(seq)
<1>1. n \in Nat /\ D = 1 .. n
  OBVIOUS
<1>2. IsFiniteSet(D) /\ Cardinality(D) = n
  <2>1. IsFiniteSet(1 .. n) /\ Cardinality(1 .. n) = IF 1 > n THEN 0 ELSE n - 1 + 1
    BY <1>1, FS_Interval
  <2>2. QED
    BY <1>1, <2>1
<1>3. StrictOrder(R, D)
  <2>1. \A i \in D : i \in Int /\ key[i] \in Int
    BY <1>1
  <2>2. \A x \in D : <<x, x>> \notin R
    BY <2>1
  <2>3. \A x, y \in D : x = y \/ <<x, y>> \in R \/ <<y, x>> \in R
    BY <2>1
  <2>4. \A x, y, z \in D : <<x, y>> \in R /\ <<y, z>> \in R => <<x, z>> \in R
    BY <2>1
  <2>5. QED
    BY <2>2, <2>3, <2>4 DEF StrictOrder
<1>4. Descending(seq, key) = [k \in D |-> seq[order[k]]]
  <2>1. [j \in D |-> {i \in D : before(i, j)}] = Below(R, D)
    BY DEF Below
  <2>2. QED
    BY <2>1 DEF Descending
<1>5. /\ order \in Bijection(1 .. n, D)
      /\ \A i, j \in 1 .. n : i < j => <<order[i], order[j]>> \in R
  BY <1>2, <1>3, OrderedByEnumerates
<1> HIDE DEF order
<1>6. Permutes(order, seq)
  BY <1>1, <1>5 DEF Permutes, Bijection, Injection, Surjection, IsInjective
<1>7. \A i, j \in D : i < j => key[order[i]] >= key[order[j]]
  <2> SUFFICES ASSUME NEW i \in D, NEW j \in D, i < j PROVE key[order[i]] >= key[order[j]]
    OBVIOUS
  <2>1. before(order[i], order[j]) /\ key[order[i]] \in Int /\ key[order[j]] \in Int
    BY <1>1, <1>5, <1>6 DEF Permutes
  <2>2. QED
    BY <2>1
<1>8. Descending(seq, key) \in Seq(X) /\ Len(Descending(seq, key)) = n
  <2>1. \A k \in D : seq[order[k]] \in X
    BY <1>6 DEF Permutes
  <2>2. [k \in D |-> seq[order[k]]] \in [1 .. n -> X]
    BY <1>1, <2>1
  <2>3. QED
    BY <1>1, <1>4, <2>2
<1>9. QED
  BY <1>1, <1>4, <1>6, <1>7, <1>8

(* seq[:n] is the beginning of the sequence.                                *)
LEMMA TakeIsPrefix ==
  ASSUME NEW X, NEW seq \in Seq(X), NEW n \in Nat
  PROVE  /\ Take(seq, n) \in Seq(X)
         /\ Len(Take(seq, n)) = IF n < Len(seq) THEN n ELSE Len(seq)
         /\ DOMAIN Take(seq, n) \subseteq DOMAIN seq
         /\ \A k \in DOMAIN Take(seq, n) : Take(seq, n)[k] = seq[k]
<1> DEFINE m == IF n < Len(seq) THEN n ELSE Len(seq)
<1>1. m \in 0 .. Len(seq) /\ Len(seq) \in Nat
  OBVIOUS
<1>2. Take(seq, n) = SubSeq(seq, 1, m)
  BY DEF Take
<1> HIDE DEF m
<1>3. /\ SubSeq(seq, 1, m) \in Seq(X) /\ Len(SubSeq(seq, 1, m)) = m
      /\ \A k \in 1 .. m : SubSeq(seq, 1, m)[k] = seq[k]
  BY <1>1
<1>4. QED
  BY <1>1, <1>2, <1>3 DEF m

(* The elements that are kept keep their order.                             *)
LEMMA KeptInOrder ==
  ASSUME NEW X, NEW seq \in Seq(X), NEW S \in SUBSET DOMAIN seq
  PROVE  /\ Kept(seq, S) \in Seq(X)
         /\ \E at : /\ at \in [DOMAIN Kept(seq, S) -> S]
                    /\ \A k \in DOMAIN Kept(seq, S) : Kept(seq, S)[k] = seq[at[k]]
                    /\ \A x \in S : \E k \in DOMAIN Kept(seq, S) : at[k] = x
                    /\ \A i, j \in DOMAIN Kept(seq, S) : i < j => at[i] < at[j]
<1> DEFINE order == Ascending(S)
<1>1. IsFiniteSet(S) /\ S \in SUBSET Int
  <2>1. IsFiniteSet(DOMAIN seq)
    BY FS_Interval
  <2>2. QED
    BY <2>1, FS_Subset
<1>2. /\ order \in Seq(S) /\ Len(order) \in Nat /\ DOMAIN order = 1 .. Len(order)
      /\ \A x \in S : \E k \in DOMAIN order : order[k] = x
      /\ \A i, j \in DOMAIN order : i < j => order[i] < order[j]
  BY <1>1, AscendingEnumerates
<1>3. Kept(seq, S) = [k \in DOMAIN order |-> seq[order[k]]]
  BY DEF Kept
<1> HIDE DEF order
<1>4. order \in [DOMAIN order -> S]
  BY <1>2
<1>5. Kept(seq, S) \in Seq(X)
  <2>1. [k \in DOMAIN order |-> seq[order[k]]] \in [1 .. Len(order) -> X]
    BY <1>2, <1>4
  <2>2. QED
    BY <1>2, <1>3, <2>1
<1>6. QED
  BY <1>2, <1>3, <1>4, <1>5

-----------------------------------------------------------------------------
(* Recursion over the naturals, with a set or a function where the library  *)
(* has an operator.                                                         *)

LEMMA SetInduction ==
  ASSUME NEW T, 0 \in T, \A n \in Nat : n \in T => n + 1 \in T
  PROVE  \A n \in Nat : n \in T
<1> DEFINE Bad == {n \in Nat : n \notin T}
<1>1. SUFFICES ASSUME Bad # {} PROVE FALSE
  OBVIOUS
<1>2. Bad \in SUBSET Nat
  OBVIOUS
<1> HIDE DEF Bad
<1>3. PICK n \in Bad : \A m \in Bad : n <= m
  BY <1>1, <1>2, LeastNatural
<1>4. n \in Nat /\ n # 0
  BY DEF Bad
<1>5. n - 1 \in Nat /\ n - 1 \notin Bad
  BY <1>3, <1>4, <1>2
<1>6. n - 1 + 1 = n
  BY <1>4
<1>7. QED
  BY <1>3, <1>5, <1>6 DEF Bad

Iterates(f, a, n, step) ==
  f[0] = a /\ \A k \in 1 .. n : f[k] = step[<<f[k - 1], k>>]

LEMMA RecursionExists ==
  ASSUME NEW X, NEW a \in X, NEW n \in Nat, NEW step \in [X \X (1 .. n) -> X]
  PROVE  \E f \in [0 .. n -> X] : Iterates(f, a, n, step)
<1> DEFINE Upto(m, f) == /\ f \in [0 .. m -> X] /\ f[0] = a
                         /\ \A k \in 1 .. m : f[k] = step[<<f[k - 1], k>>]
           T == {m \in Nat : m <= n => \E f : Upto(m, f)}
<1>1. 0 \in T
  <2>1. Upto(0, [k \in 0 .. 0 |-> a])
    OBVIOUS
  <2>2. QED
    BY <2>1
<1>2. \A m \in Nat : m \in T => m + 1 \in T
  <2> SUFFICES ASSUME NEW m \in Nat, m \in T, m + 1 <= n PROVE \E f : Upto(m + 1, f)
    OBVIOUS
  <2>1. PICK f : Upto(m, f)
    OBVIOUS
  <2> DEFINE g == [k \in 0 .. m + 1 |-> IF k <= m THEN f[k] ELSE step[<<f[m], m + 1>>]]
  <2>2. f[m] \in X /\ step[<<f[m], m + 1>>] \in X
    BY <2>1
  <2>3. g \in [0 .. m + 1 -> X]
    BY <2>1, <2>2
  <2>4. g[0] = a
    BY <2>1
  <2>5. \A k \in 1 .. m + 1 : g[k] = step[<<g[k - 1], k>>]
    <3> TAKE k \in 1 .. m + 1
    <3>1. CASE k = m + 1
      <4>1. k - 1 = m /\ k \in 0 .. m + 1 /\ m \in 0 .. m + 1 /\ ~ (k <= m)
        BY <3>1
      <4>2. g[k] = step[<<f[m], m + 1>>] /\ g[k - 1] = f[m]
        BY <4>1
      <4>3. QED
        BY <3>1, <4>2
    <3>2. CASE k # m + 1
      <4>1. k \in 1 .. m /\ k - 1 \in 0 .. m
        BY <3>2
      <4>2. QED
        BY <2>1, <4>1
    <3>3. QED
      BY <3>1, <3>2
  <2>6. QED
    BY <2>3, <2>4, <2>5
<1> HIDE DEF T
<1>3. n \in T
  BY <1>1, <1>2, SetInduction
<1>4. QED
  BY <1>3 DEF T, Iterates

(* The running sums of a sequence of naturals.                              *)
LEMMA TotalsAdd ==
  ASSUME NEW counts \in Seq(Nat)
  PROVE  /\ Totals(counts) \in [0 .. Len(counts) -> Nat]
         /\ Totals(counts)[0] = 0
         /\ \A k \in 1 .. Len(counts) : Totals(counts)[k] = Totals(counts)[k - 1] + counts[k]
<1> DEFINE n == Len(counts)
           at(f) == [k \in 0 .. n |-> IF k = 0 THEN 0 ELSE f[k - 1] + counts[k]]
           step == [p \in Nat \X (1 .. n) |-> p[1] + counts[p[2]]]
<1>1. n \in Nat /\ \A k \in 1 .. n : counts[k] \in Nat
  OBVIOUS
<1>2. step \in [Nat \X (1 .. n) -> Nat]
  BY <1>1
<1>3. PICK f \in [0 .. n -> Nat] : Iterates(f, 0, n, step)
  <2>1. 0 \in Nat
    OBVIOUS
  <2> HIDE DEF step, n
  <2>2. QED
    BY <1>1, <1>2, <2>1, RecursionExists
<1>4. \A k \in 1 .. n : k - 1 \in 0 .. n /\ f[k] = f[k - 1] + counts[k]
  <2> TAKE k \in 1 .. n
  <2>1. k - 1 \in 0 .. n /\ f[k - 1] \in Nat
    <3> HIDE DEF step, n
    <3>1. QED
      BY <1>1, <1>3
  <2>2. step[<<f[k - 1], k>>] = f[k - 1] + counts[k]
    BY <2>1
  <2>3. QED
    BY <1>3, <2>1, <2>2 DEF Iterates
<1>5. f = at(f)
  <2>1. \A k \in 0 .. n : f[k] = at(f)[k]
    BY <1>1, <1>3, <1>4 DEF Iterates
  <2>2. QED
    BY <2>1
<1> DEFINE g == Totals(counts)
<1>6. g = CHOOSE x : x = at(x)
  BY DEF Totals
<1> HIDE DEF g
<1>7. g = at(g)
  <2> HIDE DEF at
  <2>1. QED
    BY <1>5, <1>6
<1>8. DOMAIN g = 0 .. n /\ g[0] = 0 /\ \A k \in 1 .. n : g[k] = g[k - 1] + counts[k]
  BY <1>1, <1>7
<1>9. \A k \in Nat : k \in {m \in Nat : m <= n => g[m] \in Nat}
  <2> DEFINE T == {m \in Nat : m <= n => g[m] \in Nat}
  <2>1. 0 \in T
    BY <1>8
  <2>2. \A m \in Nat : m \in T => m + 1 \in T
    <3> SUFFICES ASSUME NEW m \in Nat, m \in T, m + 1 <= n PROVE g[m + 1] \in Nat
      OBVIOUS
    <3>1. m + 1 \in 1 .. n /\ g[m] \in Nat /\ m + 1 - 1 = m
      BY <1>1
    <3>2. g[m + 1] = g[m] + counts[m + 1]
      BY <1>8, <3>1
    <3>3. QED
      BY <1>1, <3>1, <3>2
  <2> HIDE DEF T
  <2>3. QED
    BY <2>1, <2>2, SetInduction DEF T
<1>10. g \in [0 .. n -> Nat]
  BY <1>1, <1>7, <1>9
<1>11. QED
  BY <1>8, <1>10 DEF g

LEMMA TwoPartsPutTogether ==
  ASSUME NEW X, NEW s \in Seq(X), NEW t \in Seq(X)
  PROVE  /\ s \o t \in Seq(X) /\ Len(s \o t) = Len(s) + Len(t)
         /\ \A k \in 1 .. Len(s) : (s \o t)[k] = s[k]
         /\ \A k \in 1 .. Len(t) : (s \o t)[Len(s) + k] = t[k]
OBVIOUS

(* The first m parts stand at their offsets in the sequence whole.          *)
Laid(whole, parts, at, m, X) ==
  /\ whole \in Seq(X) /\ Len(whole) = at[m]
  /\ \A k \in 1 .. m :
       /\ at[k] <= at[m]
       /\ \A c \in 1 .. Len(parts[k]) : whole[at[k - 1] + c] = parts[k][c]

LEMMA PartLaid ==
  ASSUME NEW X, NEW parts, NEW at, NEW m \in Nat, NEW q, q = m + 1,
         NEW whole, Laid(whole, parts, at, m, X), parts[q] \in Seq(X),
         \A k \in 1 .. q : /\ at[k] = at[k - 1] + Len(parts[k]) /\ at[k - 1] \in Nat
                           /\ at[k] \in Nat /\ Len(parts[k]) \in Nat
  PROVE  Laid(whole \o parts[q], parts, at, q, X)
<1>1. q \in 1 .. q /\ q - 1 = m /\ (1 .. q) = (1 .. m) \cup {q}
  OBVIOUS
<1>2. whole \in Seq(X) /\ Len(whole) = at[m]
  BY DEF Laid
<1>3. at[q] = at[m] + Len(parts[q]) /\ at[m] \in Nat /\ Len(parts[q]) \in Nat
  BY <1>1
<1>4. whole \o parts[q] \in Seq(X) /\ Len(whole \o parts[q]) = at[q]
  <2>1. Len(whole \o parts[q]) = Len(whole) + Len(parts[q])
    BY <1>2, TwoPartsPutTogether
  <2>2. QED
    BY <1>2, <1>3, <2>1, TwoPartsPutTogether
<1>5. ASSUME NEW k \in 1 .. m
      PROVE  /\ at[k] <= at[q]
             /\ \A c \in 1 .. Len(parts[k]) : (whole \o parts[q])[at[k - 1] + c] = parts[k][c]
  <2>1. /\ at[k] <= at[m] /\ at[k] = at[k - 1] + Len(parts[k]) /\ at[k - 1] \in Nat
        /\ Len(parts[k]) \in Nat /\ at[k] \in Nat
    BY <1>1 DEF Laid
  <2>2. ASSUME NEW c \in 1 .. Len(parts[k])
        PROVE  (whole \o parts[q])[at[k - 1] + c] = parts[k][c]
    <3>0. PICK a \in Nat, l \in Nat : a = at[k - 1] /\ l = Len(parts[k])
      BY <2>1
    <3>1. at[k - 1] + c \in 1 .. Len(whole)
      <4>1. a + l <= at[m] /\ c \in 1 .. l
        BY <2>1, <3>0
      <4>2. a + c \in 1 .. at[m]
        BY <1>3, <4>1
      <4>3. QED
        BY <1>2, <3>0, <4>2
    <3>2. (whole \o parts[q])[at[k - 1] + c] = whole[at[k - 1] + c]
      BY <1>2, <3>1, TwoPartsPutTogether
    <3>3. QED
      BY <3>2 DEF Laid
  <2>3. at[k] <= at[q]
    <3>1. PICK a \in Nat, b \in Nat, l \in Nat : a = at[k] /\ b = at[m] /\ l = Len(parts[q])
      BY <1>3, <2>1
    <3>2. a <= b + l /\ at[q] = b + l
      BY <1>3, <2>1, <3>1
    <3>3. QED
      BY <3>1, <3>2
  <2>4. QED
    BY <2>2, <2>3
<1>6. /\ at[q] <= at[q]
      /\ \A c \in 1 .. Len(parts[q]) : (whole \o parts[q])[at[q - 1] + c] = parts[q][c]
  BY <1>1, <1>2, <1>3, TwoPartsPutTogether
<1>7. QED
  BY <1>1, <1>4, <1>5, <1>6 DEF Laid

(* A list of lists put together: the element c of the part k is found after *)
(* the elements of the parts before.                                        *)
LEMMA ConcatenatedSlices ==
  ASSUME NEW X, NEW parts \in Seq(Seq(X))
  PROVE  LET whole == Concatenated(parts)
             at == Totals([k \in DOMAIN parts |-> Len(parts[k])])
         IN /\ whole \in Seq(X) /\ Len(whole) = at[Len(parts)]
            /\ at \in [0 .. Len(parts) -> Nat]
            /\ \A k \in 1 .. Len(parts) :
                 /\ at[k] = at[k - 1] + Len(parts[k]) /\ at[k] <= Len(whole)
                 /\ \A c \in 1 .. Len(parts[k]) : whole[at[k - 1] + c] = parts[k][c]
<1> DEFINE n == Len(parts)
           counts == [k \in DOMAIN parts |-> Len(parts[k])]
           at == Totals(counts)
           up(f) == [k \in 0 .. n |-> IF k = 0 THEN <<>> ELSE f[k - 1] \o parts[k]]
           step == [p \in Seq(X) \X (1 .. n) |-> p[1] \o parts[p[2]]]
<1>1. n \in Nat /\ \A k \in 1 .. n : parts[k] \in Seq(X) /\ Len(parts[k]) \in Nat
  OBVIOUS
<1>2. counts \in Seq(Nat) /\ Len(counts) = n /\ \A k \in 1 .. n : counts[k] = Len(parts[k])
  <2>1. counts \in [1 .. n -> Nat] /\ \A k \in 1 .. n : counts[k] = Len(parts[k])
    BY <1>1
  <2> HIDE DEF counts, n
  <2>2. QED
    BY <1>1, <2>1
<1>3. /\ at \in [0 .. n -> Nat] /\ at[0] = 0
      /\ \A k \in 1 .. n : at[k] = at[k - 1] + Len(parts[k])
  <2> HIDE DEF n, counts
  <2>1. QED
    BY <1>2, TotalsAdd
<1> HIDE DEF at
<1>4. step \in [Seq(X) \X (1 .. n) -> Seq(X)]
  BY <1>1
<1>5. PICK f \in [0 .. n -> Seq(X)] : Iterates(f, <<>>, n, step)
  <2>1. <<>> \in Seq(X)
    OBVIOUS
  <2> HIDE DEF step, n
  <2>2. QED
    BY <1>1, <1>4, <2>1, RecursionExists
<1>6. \A k \in 1 .. n : k - 1 \in 0 .. n /\ f[k] = f[k - 1] \o parts[k]
  <2> TAKE k \in 1 .. n
  <2>1. k - 1 \in 0 .. n /\ f[k - 1] \in Seq(X)
    <3> HIDE DEF step, n
    <3>1. QED
      BY <1>1, <1>5
  <2>2. step[<<f[k - 1], k>>] = f[k - 1] \o parts[k]
    BY <2>1
  <2>3. QED
    BY <1>5, <2>1, <2>2 DEF Iterates
<1> HIDE DEF step
<1>7. f = up(f)
  <2>1. \A k \in 0 .. n : f[k] = up(f)[k]
    <3> TAKE k \in 0 .. n
    <3>1. CASE k = 0
      BY <1>5, <3>1 DEF Iterates
    <3>2. CASE k # 0
      <4>1. k \in 1 .. n
        BY <1>1, <3>2
      <4>2. QED
        BY <1>6, <3>2, <4>1
    <3>3. QED
      BY <3>1, <3>2
  <2>2. QED
    BY <2>1
<1> DEFINE g == CHOOSE x : x = up(x)
<1>8. Concatenated(parts) = g[n]
  BY DEF Concatenated
<1>9. g = up(g)
  <2> HIDE DEF up
  <2>1. QED
    BY <1>7
<1> HIDE DEF g
<1>10. g[0] = <<>> /\ \A k \in 1 .. n : g[k] = g[k - 1] \o parts[k]
  <2> HIDE DEF n
  <2>1. 0 \in 0 .. n /\ \A k \in 1 .. n : k \in 0 .. n /\ k # 0
    BY <1>1
  <2>2. QED
    BY <1>9, <2>1
<1> DEFINE Put(m) == Laid(g[m], parts, at, m, X)
           T == {m \in Nat : m <= n => Put(m)}
<1> HIDE DEF n
<1>11. 0 \in T
  <2>1. g[0] \in Seq(X) /\ Len(g[0]) = at[0]
    BY <1>3, <1>10
  <2>2. QED
    BY <2>1 DEF Laid
<1>12. \A m \in Nat : m \in T => m + 1 \in T
  <2> SUFFICES ASSUME NEW m \in Nat, m \in T, m + 1 <= n PROVE Put(m + 1)
    OBVIOUS
  <2> DEFINE q == m + 1
  <2>1. Put(m) /\ q \in 1 .. n /\ q - 1 = m /\ q = m + 1
    BY <1>1
  <2> HIDE DEF q, T
  <2>2. g[q] = g[m] \o parts[q] /\ parts[q] \in Seq(X)
    <3>1. g[q] = g[q - 1] \o parts[q]
      BY <1>10, <2>1
    <3>2. QED
      BY <1>1, <2>1, <3>1
  <2>3. \A k \in 1 .. q : /\ at[k] = at[k - 1] + Len(parts[k]) /\ at[k - 1] \in Nat
                           /\ at[k] \in Nat /\ Len(parts[k]) \in Nat
    <3>1. at \in [0 .. n -> Nat] /\ \A k \in 1 .. n : at[k] = at[k - 1] + Len(parts[k])
      BY <1>3
    <3>2. \A k \in 1 .. q : k \in 1 .. n /\ k \in 0 .. n /\ k - 1 \in 0 .. n
      BY <1>1, <2>1
    <3>3. \A k \in 1 .. n : parts[k] \in Seq(X)
      BY <1>1
    <3>4. \A k \in 1 .. q : parts[k] \in Seq(X) /\ at[k - 1] \in Nat /\ at[k] \in Nat
      BY <3>1, <3>2, <3>3
    <3>5. \A k \in 1 .. q : Len(parts[k]) \in Nat
      BY <3>4
    <3>6. QED
      BY <3>1, <3>2, <3>4, <3>5
  <2>4. Laid(g[m] \o parts[q], parts, at, q, X)
    BY <2>1, <2>2, <2>3, PartLaid
  <2>5. QED
    BY <2>2, <2>4 DEF q
<1>13. Put(n)
  <2> HIDE DEF T
  <2>1. n \in T
    BY <1>1, <1>11, <1>12, SetInduction
  <2>2. QED
    BY <1>1, <2>1 DEF T
<1>14. \A k \in 1 .. n :
         /\ at[k] = at[k - 1] + Len(parts[k]) /\ at[k] <= Len(g[n])
         /\ \A c \in 1 .. Len(parts[k]) : g[n][at[k - 1] + c] = parts[k][c]
  BY <1>3, <1>13 DEF Laid
<1>15. QED
  BY <1>3, <1>8, <1>13, <1>14 DEF n, at, Laid

(* A sequence holds the elements of its subsets.                            *)
LEMMA KeptElements ==
  ASSUME NEW X, NEW seq \in Seq(X), NEW S \in SUBSET DOMAIN seq
  PROVE  /\ Kept(seq, S) \in Seq(X)
         /\ \A k \in DOMAIN Kept(seq, S) : \E x \in S : Kept(seq, S)[k] = seq[x]
         /\ \A x \in S : \E k \in DOMAIN Kept(seq, S) : Kept(seq, S)[k] = seq[x]
<1> DEFINE kept == Kept(seq, S)
<1>1. /\ kept \in Seq(X)
      /\ \E at : /\ at \in [DOMAIN kept -> S]
                 /\ \A k \in DOMAIN kept : kept[k] = seq[at[k]]
                 /\ \A x \in S : \E k \in DOMAIN kept : at[k] = x
  BY KeptInOrder
<1> HIDE DEF kept
<1>2. PICK at \in [DOMAIN kept -> S] : /\ \A k \in DOMAIN kept : kept[k] = seq[at[k]]
                                       /\ \A x \in S : \E k \in DOMAIN kept : at[k] = x
  BY <1>1
<1>3. \A k \in DOMAIN kept : \E x \in S : kept[k] = seq[x]
  BY <1>2
<1>4. \A x \in S : \E k \in DOMAIN kept : kept[k] = seq[x]
  BY <1>2
<1>5. QED
  BY <1>1, <1>3, <1>4 DEF kept

(* In a sequence put together, every position is of one part.               *)
LEMMA ConcatenatedCovers ==
  ASSUME NEW X, NEW parts \in Seq(Seq(X)), NEW p \in DOMAIN Concatenated(parts)
  PROVE  LET at == Totals([k \in DOMAIN parts |-> Len(parts[k])])
         IN \E b \in DOMAIN parts : \E c \in DOMAIN parts[b] :
              p = at[b - 1] + c /\ Concatenated(parts)[p] = parts[b][c]
<1> DEFINE whole == Concatenated(parts)
           at == Totals([k \in DOMAIN parts |-> Len(parts[k])])
           n == Len(parts)
<1>1. /\ whole \in Seq(X) /\ Len(whole) = at[n]
      /\ at \in [0 .. n -> Nat]
      /\ \A k \in 1 .. n :
           /\ at[k] = at[k - 1] + Len(parts[k]) /\ at[k] <= Len(whole)
           /\ \A c \in 1 .. Len(parts[k]) : whole[at[k - 1] + c] = parts[k][c]
  BY ConcatenatedSlices
<1>2. at[0] = 0
  <2> DEFINE counts == [k \in DOMAIN parts |-> Len(parts[k])]
  <2>1. counts \in Seq(Nat)
    <3>1. DOMAIN parts = 1 .. n /\ n \in Nat
      OBVIOUS
    <3>2. \A k \in 1 .. n : Len(parts[k]) \in Nat
      OBVIOUS
    <3> HIDE DEF n
    <3>3. QED
      BY <3>1, <3>2
  <2> HIDE DEF counts
  <2>2. Totals(counts)[0] = 0
    BY <2>1, TotalsAdd
  <2>3. QED
    BY <2>2 DEF counts
<1>3. n \in Nat /\ DOMAIN parts = 1 .. n /\ \A k \in 1 .. n : parts[k] \in Seq(X)
  OBVIOUS
<1>4. p \in Nat /\ p >= 1 /\ p <= at[n]
  BY <1>1
<1> HIDE DEF whole, at, n
<1> DEFINE Reach == {k \in 0 .. n : p <= at[k]}
<1>5. PICK b \in Reach : \A k \in Reach : b <= k
  <2>1. Reach \in SUBSET Nat /\ n \in Reach
    BY <1>3, <1>4
  <2> HIDE DEF Reach
  <2>2. QED
    BY <2>1, LeastNatural
<1>6. b \in 1 .. n /\ p <= at[b]
  BY <1>2, <1>3, <1>4, <1>5, <1>1
<1>7. at[b - 1] \in Nat /\ ~ (p <= at[b - 1]) /\ at[b] = at[b - 1] + Len(parts[b])
  <2>1. b - 1 \in 0 .. n /\ b - 1 < b /\ b \in Int
    BY <1>3, <1>6
  <2>2. b - 1 \notin Reach
    <3> HIDE DEF Reach
    <3>1. QED
      BY <1>5, <2>1
  <2>3. QED
    BY <1>1, <1>6, <2>1, <2>2
<1> DEFINE c == p - at[b - 1]
<1>8. c \in 1 .. Len(parts[b]) /\ p = at[b - 1] + c
  <2>1. Len(parts[b]) \in Nat
    BY <1>3, <1>6
  <2>2. QED
    BY <1>4, <1>6, <1>7, <2>1
<1>9. whole[p] = parts[b][c]
  <2> HIDE DEF c
  <2>1. QED
    BY <1>1, <1>6, <1>8
<1>10. DOMAIN parts[b] = 1 .. Len(parts[b])
  BY <1>3, <1>6
<1> HIDE DEF c
<1>11. QED
  BY <1>3, <1>6, <1>8, <1>9, <1>10 DEF whole, at

(* The elements of a sequence put together are those of its parts.          *)
LEMMA ConcatenatedElements ==
  ASSUME NEW X, NEW parts \in Seq(Seq(X))
  PROVE  /\ Concatenated(parts) \in Seq(X)
         /\ \A p \in DOMAIN Concatenated(parts) :
              \E b \in DOMAIN parts : \E c \in DOMAIN parts[b] : Concatenated(parts)[p] = parts[b][c]
         /\ \A b \in DOMAIN parts : \A c \in DOMAIN parts[b] :
              \E p \in DOMAIN Concatenated(parts) : Concatenated(parts)[p] = parts[b][c]
<1> DEFINE whole == Concatenated(parts)
           at == Totals([k \in DOMAIN parts |-> Len(parts[k])])
           n == Len(parts)
<1>1. /\ whole \in Seq(X) /\ Len(whole) = at[n]
      /\ at \in [0 .. n -> Nat]
      /\ \A k \in 1 .. n :
           /\ at[k] = at[k - 1] + Len(parts[k]) /\ at[k] <= Len(whole)
           /\ \A c \in 1 .. Len(parts[k]) : whole[at[k - 1] + c] = parts[k][c]
  BY ConcatenatedSlices
<1>2. \A p \in DOMAIN whole : \E b \in DOMAIN parts : \E c \in DOMAIN parts[b] : whole[p] = parts[b][c]
  BY ConcatenatedCovers
<1>3. ASSUME NEW b \in DOMAIN parts, NEW c \in DOMAIN parts[b]
      PROVE  \E p \in DOMAIN whole : whole[p] = parts[b][c]
  <2>1. b \in 1 .. n /\ n \in Nat /\ parts[b] \in Seq(X)
    OBVIOUS
  <2>2. c \in 1 .. Len(parts[b]) /\ Len(parts[b]) \in Nat
    BY <2>1
  <2> HIDE DEF whole, at, n
  <2>3. /\ at[b - 1] \in Nat /\ Len(whole) \in Nat
        /\ at[b] = at[b - 1] + Len(parts[b]) /\ at[b] <= Len(whole)
        /\ whole[at[b - 1] + c] = parts[b][c]
    <3>1. b - 1 \in 0 .. n
      BY <2>1
    <3>2. at[b - 1] \in Nat
      BY <1>1, <3>1
    <3>3. Len(whole) \in Nat
      BY <1>1
    <3>4. QED
      BY <1>1, <2>1, <2>2, <3>2, <3>3
  <2>4. at[b - 1] + c \in DOMAIN whole
    BY <1>1, <2>2, <2>3
  <2>5. QED
    BY <2>3, <2>4
<1> HIDE DEF whole, at, n
<1>4. QED
  BY <1>1, <1>2, <1>3 DEF whole

LEMMA TypedSequence ==
  ASSUME NEW n \in Nat, NEW s, DOMAIN s = 1 .. n, s = [k \in DOMAIN s |-> s[k]],
         NEW X, \A k \in 1 .. n : s[k] \in X
  PROVE  s \in Seq(X)
OBVIOUS

LEMMA WiderSequence ==
  ASSUME NEW X, NEW Y, X \subseteq Y, NEW s \in Seq(X)
  PROVE  s \in Seq(Y)
OBVIOUS

LEMMA MembersOfSequence ==
  ASSUME NEW X, NEW s \in Seq(X)
  PROVE  \A i \in DOMAIN s : s[i] \in X
OBVIOUS

LEMMA TailIsSequence ==
  ASSUME NEW X, NEW s \in Seq(X), s # <<>>
  PROVE  Tail(s) \in Seq(X)
OBVIOUS
===============================================================================
