----------------------------- MODULE ListLemmas -----------------------------
(***************************************************************************)
(* What holds of any list: its elements, its places, and what is left when   *)
(* some are deleted.  The proofs about the bans and the users rest on it.    *)
(***************************************************************************)
EXTENDS Lists, SequencesExt, FiniteSetTheorems, SequenceTheorems, WellFoundedInduction, TLAPS

\* The elements of a list are what is at its places.
LEMMA Elements ==
  ASSUME NEW T, NEW bs \in Seq(T)
  PROVE  /\ Len(bs) \in Nat /\ DOMAIN bs = 1..Len(bs) /\ \A i \in DOMAIN bs : bs[i] \in T /\ bs[i] \in ToSet(bs)
         /\ ToSet(bs) = {bs[i] : i \in DOMAIN bs} /\ ToSet(bs) \subseteq T
<1>1. Len(bs) \in Nat /\ DOMAIN bs = 1..Len(bs)
  BY LenProperties
<1>2. \A i \in DOMAIN bs : bs[i] \in T
  BY <1>1, ElementOfSeq
<1> QED BY <1>1, <1>2 DEF ToSet

-----------------------------------------------------------------------------
(* Places. *)

Rank(S, i) == Cardinality({j \in S : j <= i})

\* The places of a set are numbered in their order.
LEMMA Ranks ==
  ASSUME NEW n \in Nat, NEW S, S \subseteq 1..n
  PROVE  /\ IsFiniteSet(S) /\ Cardinality(S) \in Nat
         /\ \A i \in S : Rank(S, i) \in 1..Cardinality(S)
         /\ \A i, j \in S : i < j => Rank(S, i) < Rank(S, j)
         /\ \A k \in 1..Cardinality(S) : \E i \in S : Rank(S, i) = k
<1> DEFINE D(i) == {j \in S : j <= i}
<1>1. IsFiniteSet(1..n)
  BY FS_Interval
<1>2. IsFiniteSet(S) /\ Cardinality(S) \in Nat
  BY <1>1, FS_Subset, FS_CardinalityType
<1>3. \A i \in S : /\ IsFiniteSet(D(i)) /\ Cardinality(D(i)) \in Nat
                   /\ Cardinality(D(i)) <= Cardinality(S) /\ Cardinality(D(i)) # 0
  <2> TAKE i \in S
  <2> DEFINE A == D(i)
  <2>1. A \in SUBSET S /\ i \in A
    OBVIOUS
  <2> HIDE DEF A
  <2>2. IsFiniteSet(A) /\ Cardinality(A) <= Cardinality(S) /\ Cardinality(A) \in Nat
    BY <1>2, <2>1, FS_Subset, FS_CardinalityType
  <2>3. Cardinality(A) # 0
    BY <2>1, <2>2, FS_EmptySet
  <2> QED BY <2>2, <2>3 DEF A
<1>4. \A i, j \in S : i < j => Cardinality(D(i)) < Cardinality(D(j))
  <2> TAKE i, j \in S
  <2> HAVE i < j
  <2> DEFINE A == D(i)
             B == D(j)
  <2>0. S \subseteq Nat
    OBVIOUS
  <2>1. (\A x \in S : x <= i => x <= j) /\ j <= j /\ ~(j <= i)
    BY <2>0
  <2>2. IsFiniteSet(B) /\ Cardinality(A) \in Nat /\ Cardinality(B) \in Nat
    BY <1>3
  <2>3. A \in SUBSET B /\ j \in B /\ j \notin A
    BY <2>1
  <2> HIDE DEF A, B
  <2>4. Cardinality(A) <= Cardinality(B) /\ Cardinality(B) # Cardinality(A)
    BY <2>3, <2>2, FS_Subset
  <2>5. Cardinality(A) < Cardinality(B)
    BY <2>2, <2>4
  <2> QED BY <2>5 DEF A, B
<1>5. /\ \A i \in S : Rank(S, i) \in 1..Cardinality(S)
      /\ \A i, j \in S : i < j => Rank(S, i) < Rank(S, j)
  BY <1>2, <1>3, <1>4 DEF Rank
<1>6. \A k \in 1..Cardinality(S) : \E i \in S : Rank(S, i) = k
  <2> DEFINE f == [i \in S |-> Rank(S, i)]
             T == 1..Cardinality(S)
  <2>1. f \in [S -> T]
    BY <1>5
  <2>2. \A i, j \in S : f[i] = f[j] => i = j
    <3> TAKE i, j \in S
    <3> HAVE f[i] = f[j]
    <3>1. Rank(S, i) = Rank(S, j) /\ Rank(S, i) \in Nat
      BY <1>2, <1>5
    <3>2. ~(i < j) /\ ~(j < i) /\ i \in Nat /\ j \in Nat
      BY <1>5, <3>1
    <3> QED BY <3>2
  <2>3. IsFiniteSet(T) /\ Cardinality(T) = Cardinality(S)
    BY <1>2, FS_Interval
  <2> HIDE DEF f, T
  <2>4. f \in Injection(S, T)
    BY <2>1, <2>2 DEF Injection, IsInjective
  <2>5. f \in Surjection(S, T)
    BY <2>3, <2>4, FS_Injection
  <2>6. \A k \in T : \E i \in S : f[i] = k
    BY <2>5 DEF Surjection
  <2> QED BY <2>6 DEF f, T
<1> QED BY <1>2, <1>5, <1>6

\* A set of places has a first and a last.
LEMMA Extremes ==
  ASSUME NEW n \in Nat, NEW S, S \subseteq 1..n, S # {}
  PROVE  /\ \E x \in S : \A y \in S : x <= y
         /\ \E x \in S : \A y \in S : y <= x
<1>1. /\ IsFiniteSet(S) /\ Cardinality(S) \in Nat
      /\ \A i \in S : Rank(S, i) \in 1..Cardinality(S)
      /\ \A i, j \in S : i < j => Rank(S, i) < Rank(S, j)
      /\ \A k \in 1..Cardinality(S) : \E i \in S : Rank(S, i) = k
  BY Ranks
<1>2. Cardinality(S) # 0
  BY <1>1, FS_EmptySet
<1>3. PICK x \in S, y \in S : Rank(S, x) = 1 /\ Rank(S, y) = Cardinality(S)
  BY <1>1, <1>2
<1>4. \A z \in S : ~(z < x) /\ ~(y < z)
  BY <1>1, <1>3
<1>5. \A z \in S : x <= z /\ z <= y
  BY <1>4
<1> QED BY <1>5

\* What is picked is what is at the places.
LEMMA PickedAre ==
  ASSUME NEW T, NEW bs \in Seq(T), NEW S, S \subseteq DOMAIN bs, NEW r, r = Picked(bs, S)
  PROVE  /\ r \in Seq(T) /\ Len(r) = Cardinality(S) /\ IsFiniteSet(S) /\ Cardinality(S) \in Nat
         /\ \A i \in S : Rank(S, i) \in 1..Len(r) /\ r[Rank(S, i)] = bs[i]
         /\ ToSet(r) = {bs[i] : i \in S}
<1> DEFINE n == Cardinality(S)
           at(k) == CHOOSE i \in S : Rank(S, i) = k
<1>1. Len(bs) \in Nat /\ S \subseteq 1..Len(bs) /\ \A i \in S : bs[i] \in T
  BY LenProperties, ElementOfSeq
<1>2. /\ IsFiniteSet(S) /\ n \in Nat
      /\ \A i \in S : Rank(S, i) \in 1..n
      /\ \A i, j \in S : i < j => Rank(S, i) < Rank(S, j)
      /\ \A k \in 1..n : \E i \in S : Rank(S, i) = k
  BY <1>1, Ranks
<1>3. \A k \in 1..n : at(k) \in S /\ Rank(S, at(k)) = k
  BY <1>2
<1>4. r = [k \in 1..n |-> bs[at(k)]]
  BY DEF Picked, Rank
<1> HIDE DEF n, at
<1>5. r \in [1..n -> T] /\ \A k \in 1..n : r[k] = bs[at(k)]
  BY <1>1, <1>3, <1>4
<1>6. r \in Seq(T) /\ Len(r) = n
  <2>1. r \in Seq(T)
    BY <1>2, <1>5, SeqDef
  <2>2. 1..Len(r) = 1..n /\ Len(r) \in Nat
    BY <1>5, <2>1, LenProperties
  <2> QED BY <1>2, <2>1, <2>2
<1>7. \A i \in S : at(Rank(S, i)) = i
  <2> TAKE i \in S
  <2>1. Rank(S, i) \in 1..n
    BY <1>2
  <2>2. at(Rank(S, i)) \in S /\ Rank(S, at(Rank(S, i))) = Rank(S, i)
    BY <1>3, <2>1
  <2>3. ~(at(Rank(S, i)) < i) /\ ~(i < at(Rank(S, i)))
    BY <1>2, <2>1, <2>2
  <2> QED BY <1>1, <2>2, <2>3
<1>8. \A i \in S : Rank(S, i) \in 1..Len(r) /\ r[Rank(S, i)] = bs[i]
  BY <1>2, <1>5, <1>6, <1>7
<1>9. ToSet(r) = {bs[i] : i \in S}
  <2>1. ToSet(r) = {r[k] : k \in 1..n}
    BY <1>5 DEF ToSet
  <2>2. \A k \in 1..n : \E i \in S : r[k] = bs[i]
    BY <1>3, <1>5
  <2>3. \A i \in S : \E k \in 1..n : r[k] = bs[i]
    BY <1>6, <1>8
  <2>4. \A x : x \in {r[k] : k \in 1..n} <=> x \in {bs[i] : i \in S}
    BY <2>2, <2>3
  <2> QED BY <2>1, <2>4
<1> QED BY <1>2, <1>6, <1>8, <1>9 DEF n

\* A set of numbers has a least one: induction, where the rule itself cannot be used.
LEMMA Least ==
  ASSUME NEW T, T \subseteq Nat, T # {}
  PROVE  \E x \in T : \A y \in T : x <= y
<1> DEFINE R == OpToRel(<, Nat)
<1>1. \E x \in T : \A y \in T : ~ (<<y, x>> \in R)
  <2>1. IsWellFoundedOn(R, Nat)
    BY NatLessThanWellFounded
  <2> HIDE DEF R
  <2> QED BY <2>1, WFMin
<1>2. \A x, y \in Nat : y < x => <<y, x>> \in R
  BY DEF OpToRel
<1> HIDE DEF R
<1>3. PICK x \in T : \A y \in T : ~ (<<y, x>> \in R)
  BY <1>1
<1>4. \A y \in T : ~ (y < x) /\ y \in Nat /\ x \in Nat
  BY <1>2, <1>3
<1> QED BY <1>4

-----------------------------------------------------------------------------
(* Lists without duplicates. *)

Once(l) == \A i, j \in DOMAIN l : l[i] = l[j] => i = j

Upto(l, k)  == SubSeq(l, 1, k)
After(l, k) == SubSeq(l, k + 1, Len(l))
Push(x, l)  == <<x>> \o l

\* A list cut in two.
LEMMA Prefix ==
  ASSUME NEW S, NEW l \in Seq(S), Once(l), NEW k \in 0..Len(l), NEW p, p = Upto(l, k), NEW q, q = After(l, k)
  PROVE  p \in Seq(S) /\ Len(p) = k /\ Once(p) /\ ToSet(p) = ToSet(l) \ ToSet(q)
<1> DEFINE n == Len(l)
<1>1. n \in Nat /\ DOMAIN l = 1..n /\ (\A i \in 1..n : l[i] \in S) /\ ToSet(l) = {l[i] : i \in 1..n}
  BY Elements
<1>2. n \in Nat /\ k \in 0..n /\ k \in Int /\ k + 1 \in Int /\ 1 \in Int
  BY <1>1
<1> HIDE DEF n
<1>3. p \in Seq(S) /\ Len(p) = k /\ \A i \in 1..k : p[i] = l[i]
  <2>1. \A i \in 1..k : l[i] \in S
    BY <1>1, <1>2
  <2>2. p \in Seq(S) /\ Len(p) = (IF 1 <= k THEN k - 1 + 1 ELSE 0) /\ \A i \in 1..(k - 1 + 1) : p[i] = l[1 + i - 1]
    BY <1>2, <2>1, SubSeqProperties DEF Upto
  <2> QED BY <1>2, <2>2
<1>4. q \in Seq(S) /\ Len(q) = n - k /\ \A i \in 1..(n - k) : q[i] = l[k + i]
  <2>1. \A i \in (k + 1)..n : l[i] \in S
    BY <1>1, <1>2
  <2>2. /\ q \in Seq(S) /\ Len(q) = (IF k + 1 <= n THEN n - (k + 1) + 1 ELSE 0)
        /\ \A i \in 1..(n - (k + 1) + 1) : q[i] = l[(k + 1) + i - 1]
    BY <1>2, <2>1, SubSeqProperties DEF n, After
  <2>3. n - (k + 1) + 1 = n - k /\ \A i \in 1..(n - k) : (k + 1) + i - 1 = k + i
    BY <1>2
  <2> QED BY <1>2, <2>2, <2>3
<1>5. DOMAIN p = 1..k /\ ToSet(p) = {p[i] : i \in 1..k}
  <2>1. DOMAIN p = 1..Len(p)
    BY <1>3, LenProperties
  <2> QED BY <1>3, <2>1 DEF ToSet
<1>6. ToSet(q) = {q[i] : i \in 1..(n - k)}
  <2>1. DOMAIN q = 1..Len(q)
    BY <1>4, LenProperties
  <2> QED BY <1>4, <2>1 DEF ToSet
<1>7. Once(p)
  BY <1>1, <1>2, <1>3, <1>5 DEF Once
<1>8. ASSUME NEW x PROVE x \in ToSet(p) <=> x \in ToSet(l) /\ x \notin ToSet(q)
  <2>1. ASSUME x \in ToSet(p) PROVE x \in ToSet(l) /\ x \notin ToSet(q)
    <3>1. PICK i \in 1..k : x = l[i]
      BY <1>3, <1>5, <2>1
    <3>2. i \in 1..n
      BY <1>2
    <3>3. ASSUME NEW j \in 1..(n - k), x = q[j] PROVE FALSE
      <4>1. k + j \in 1..n /\ l[k + j] = l[i] /\ k + j # i
        BY <1>2, <1>4, <3>1, <3>3
      <4> QED BY <1>1, <3>2, <4>1 DEF Once
    <3> QED BY <1>1, <1>6, <3>1, <3>2, <3>3
  <2>2. ASSUME x \in ToSet(l), x \notin ToSet(q) PROVE x \in ToSet(p)
    <3>1. PICK i \in 1..n : x = l[i]
      BY <1>1, <2>2
    <3>2. CASE i <= k
      <4>1. i \in 1..k
        BY <1>2, <3>2
      <4> QED BY <1>3, <1>5, <3>1, <4>1
    <3>3. CASE i > k
      <4>1. i - k \in 1..(n - k) /\ k + (i - k) = i
        BY <1>2, <3>3
      <4> QED BY <1>4, <1>6, <2>2, <3>1, <4>1
    <3> QED BY <1>2, <3>2, <3>3
  <2> QED BY <2>1, <2>2
<1> QED BY <1>3, <1>7, <1>8

\* r is l with x before its elements.
Longer(S, x, l, r) ==
  /\ r \in Seq(S) /\ Len(r) = Len(l) + 1 /\ ToSet(r) = ToSet(l) \cup {x}
  /\ (Once(l) /\ x \notin ToSet(l)) => Once(r)

\* An element put before the others.
LEMMA Pushed ==
  ASSUME NEW S, NEW l \in Seq(S), NEW x \in S, NEW r, r = Push(x, l)
  PROVE  Longer(S, x, l, r)
<1> DEFINE n == Len(l)
<1>1. n \in Nat /\ DOMAIN l = 1..n /\ (\A i \in 1..n : l[i] \in S) /\ ToSet(l) = {l[i] : i \in 1..n}
  BY Elements
<1>2. <<x>> \in Seq(S) /\ Len(<<x>>) = 1 /\ <<x>>[1] = x
  OBVIOUS
<1>3. /\ r \in Seq(S) /\ Len(r) = 1 + n
      /\ \A i \in 1..(1 + n) : r[i] = IF i <= 1 THEN <<x>>[i] ELSE l[i - 1]
  <2>1. /\ <<x>> \o l \in Seq(S) /\ Len(<<x>> \o l) = Len(<<x>>) + Len(l)
        /\ \A i \in 1..(Len(<<x>>) + Len(l)) : (<<x>> \o l)[i] = IF i <= Len(<<x>>) THEN <<x>>[i] ELSE l[i - Len(<<x>>)]
    BY <1>2, ConcatProperties
  <2> QED BY <1>2, <2>1 DEF Push
<1> HIDE DEF n
<1>4. r[1] = x /\ \A i \in 1..n : r[i + 1] = l[i]
  <2>1. 1 \in 1..(1 + n) /\ 1 <= 1 /\ \A i \in 1..n : i + 1 \in 1..(1 + n) /\ ~(i + 1 <= 1) /\ (i + 1) - 1 = i
    BY <1>1
  <2> QED BY <1>2, <1>3, <2>1
<1>5. DOMAIN r = 1..(1 + n) /\ ToSet(r) = {r[i] : i \in 1..(1 + n)}
  <2>1. DOMAIN r = 1..Len(r)
    BY <1>3, LenProperties
  <2> QED BY <1>3, <2>1 DEF ToSet
<1>6. \A j \in 1..(1 + n) : j = 1 \/ (j - 1 \in 1..n /\ r[j] = l[j - 1])
  BY <1>1, <1>3
<1>7. ToSet(r) = ToSet(l) \cup {x}
  <2>1. 1 \in 1..(1 + n) /\ \A i \in 1..n : i + 1 \in 1..(1 + n)
    BY <1>1
  <2>2. \A y \in ToSet(l) \cup {x} : y \in ToSet(r)
    BY <1>1, <1>4, <1>5, <2>1
  <2>3. \A y \in ToSet(r) : y \in ToSet(l) \cup {x}
    BY <1>1, <1>4, <1>5, <1>6
  <2> QED BY <2>2, <2>3
<1>8. ASSUME Once(l), x \notin ToSet(l) PROVE Once(r)
  <2> SUFFICES ASSUME NEW i \in 1..(1 + n), NEW j \in 1..(1 + n), r[i] = r[j] PROVE i = j
    BY <1>5 DEF Once
  <2>1. i = 1 <=> j = 1
    BY <1>1, <1>4, <1>6, <1>8
  <2>2. CASE i # 1
    <3>1. i - 1 \in 1..n /\ j - 1 \in 1..n /\ l[i - 1] = l[j - 1]
      BY <1>6, <2>1, <2>2
    <3>2. i - 1 = j - 1
      BY <1>1, <1>8, <3>1 DEF Once
    <3> QED BY <3>2
  <2> QED BY <2>1, <2>2
<1> QED BY <1>3, <1>7, <1>8 DEF n, Longer

\* A list without its last element.
LEMMA Shorter ==
  ASSUME NEW S, NEW l \in Seq(S), l # <<>>, Once(l), NEW p, p = Front(l)
  PROVE  /\ p \in Seq(S) /\ Len(p) = Len(l) - 1 /\ Once(p) /\ Len(l) \in Nat \ {0}
         /\ ToSet(p) = ToSet(l) \ {Last(l)} /\ Last(l) \in S
<1> DEFINE n == Len(l)
<1>1. n \in Nat /\ DOMAIN l = 1..n
  BY LenProperties
<1>2. n # 0
  BY EmptySeq
<1>3. n - 1 \in 0..n /\ (n - 1) + 1 = n /\ n \in 1..n
  BY <1>1, <1>2
<1>4. Last(l) = l[n] /\ l[n] \in S /\ p = SubSeq(l, 1, n - 1)
  BY <1>1, <1>3, ElementOfSeq DEF Last, Front
<1> DEFINE q == SubSeq(l, n, n)
<1>5. n - 1 \in 0..Len(l) /\ p = Upto(l, n - 1) /\ q = After(l, n - 1)
  BY <1>3, <1>4 DEF Upto, After
<1>6. p \in Seq(S) /\ Len(p) = n - 1 /\ Once(p) /\ ToSet(p) = ToSet(l) \ ToSet(q)
  <2> DEFINE k == n - 1
  <2>1. k \in 0..Len(l) /\ p = Upto(l, k) /\ q = After(l, k)
    BY <1>5
  <2> HIDE DEF k, q
  <2>2. p \in Seq(S) /\ Len(p) = k /\ Once(p) /\ ToSet(p) = ToSet(l) \ ToSet(q)
    BY <2>1, Prefix
  <2> QED BY <2>2 DEF k
<1>7. ToSet(q) = {l[n]}
  <2>1. \A i \in n..n : l[i] \in S
    BY <1>1, <1>4
  <2>2. q \in Seq(S) /\ Len(q) = (IF n <= n THEN n - n + 1 ELSE 0) /\ \A i \in 1..(n - n + 1) : q[i] = l[n + i - 1]
    BY <1>1, <2>1, SubSeqProperties
  <2>3. n - n + 1 = 1 /\ n + 1 - 1 = n /\ n <= n /\ 1..1 = {1}
    BY <1>1
  <2>4. Len(q) = 1 /\ q[1] = l[n] /\ DOMAIN q = 1..Len(q)
    <3> HIDE DEF q
    <3> QED BY <2>2, <2>3, LenProperties
  <2> HIDE DEF q
  <2>5. DOMAIN q = {1}
    BY <2>3, <2>4
  <2> QED BY <2>4, <2>5 DEF ToSet
<1> QED BY <1>1, <1>2, <1>4, <1>6, <1>7

\* A list has no more elements than places.
LEMMA FewElements ==
  ASSUME NEW S, NEW l \in Seq(S)
  PROVE  IsFiniteSet(ToSet(l)) /\ Cardinality(ToSet(l)) \in Nat /\ Cardinality(ToSet(l)) <= Len(l)
<1> DEFINE n == Len(l)
           D == DOMAIN l
           R == ToSet(l)
           f == [i \in D |-> l[i]]
<1>1. n \in Nat /\ D = 1..n
  BY LenProperties
<1>2. IsFiniteSet(D) /\ Cardinality(D) = n
  BY <1>1, FS_Interval
<1>3. f \in Surjection(D, R)
  BY DEF Surjection, ToSet
<1> HIDE DEF D, R, f
<1>4. IsFiniteSet(R) /\ Cardinality(R) <= Cardinality(D)
  BY <1>2, <1>3, FS_Surjection
<1>5. Cardinality(R) \in Nat
  BY <1>4, FS_CardinalityType
<1> QED BY <1>2, <1>4, <1>5 DEF R

-----------------------------------------------------------------------------
(* One element less, one more. *)

\* A list without the element at one place.
LEMMA Removed ==
  ASSUME NEW S, NEW l \in Seq(S), NEW i \in 1..Len(l), NEW r, r = RemoveAt(l, i)
  PROVE  /\ r \in Seq(S) /\ Len(r) = Len(l) - 1
         /\ \A k \in 1..Len(r) : r[k] = IF k < i THEN l[k] ELSE l[k + 1]
<1> DEFINE n == Len(l)
           a == SubSeq(l, 1, i - 1)
           b == SubSeq(l, i + 1, n)
<1>1. n \in Nat /\ i \in 1..n /\ \A k \in 1..n : l[k] \in S
  BY LenProperties, ElementOfSeq
<1> HIDE DEF n
<1>2. i - 1 \in Int /\ i + 1 \in Int /\ n \in Int /\ 1 \in Int
  BY <1>1
<1>3. (\A k \in 1..(i - 1) : l[k] \in S) /\ (\A k \in (i + 1)..n : l[k] \in S)
  BY <1>1
<1>4. a \in Seq(S) /\ Len(a) = i - 1 /\ \A k \in 1..(i - 1) : a[k] = l[k]
  <2>1. /\ a \in Seq(S) /\ Len(a) = (IF 1 <= i - 1 THEN (i - 1) - 1 + 1 ELSE 0)
        /\ \A k \in 1..((i - 1) - 1 + 1) : a[k] = l[1 + k - 1]
    BY <1>2, <1>3, SubSeqProperties
  <2> HIDE DEF a
  <2> QED BY <1>1, <2>1
<1>5. b \in Seq(S) /\ Len(b) = n - i /\ \A k \in 1..(n - i) : b[k] = l[i + k]
  <2>1. /\ b \in Seq(S) /\ Len(b) = (IF i + 1 <= n THEN n - (i + 1) + 1 ELSE 0)
        /\ \A k \in 1..(n - (i + 1) + 1) : b[k] = l[(i + 1) + k - 1]
    BY <1>2, <1>3, SubSeqProperties
  <2> HIDE DEF b
  <2>2. n - (i + 1) + 1 = n - i /\ \A k \in 1..(n - i) : (i + 1) + k - 1 = i + k
    BY <1>1
  <2> QED BY <1>1, <2>1, <2>2
<1>6. r = a \o b
  BY DEF RemoveAt, n
<1> HIDE DEF a, b
<1>7. /\ r \in Seq(S) /\ Len(r) = Len(a) + Len(b)
      /\ \A k \in 1..(Len(a) + Len(b)) : r[k] = IF k <= Len(a) THEN a[k] ELSE b[k - Len(a)]
  BY <1>4, <1>5, <1>6, ConcatProperties
<1>8. Len(r) = n - 1
  BY <1>1, <1>4, <1>5, <1>7
<1>9. \A k \in 1..Len(r) : r[k] = IF k < i THEN l[k] ELSE l[k + 1]
  <2> TAKE k \in 1..Len(r)
  <2>1. CASE k < i
    BY <2>1, <1>1, <1>4, <1>7, <1>8
  <2>2. CASE k >= i
    <3>1. k - (i - 1) \in 1..(n - i) /\ i + (k - (i - 1)) = k + 1 /\ ~(k <= i - 1)
      BY <2>2, <1>1, <1>8
    <3> QED BY <3>1, <2>2, <1>1, <1>4, <1>5, <1>7
  <2> QED BY <2>1, <2>2, <1>1
<1> QED BY <1>7, <1>8, <1>9 DEF n

\* A list with one more element.
Insertion(r, l, i, e) ==
  /\ Len(r) = Len(l) + 1
  /\ \A k \in 1..Len(r) : r[k] = IF k < i THEN l[k] ELSE IF k = i THEN e ELSE l[k - 1]
LEMMA Inserted ==
  ASSUME NEW S, NEW l \in Seq(S), NEW i \in 1..(Len(l) + 1), NEW e \in S, NEW r, r = InsertAt(l, i, e)
  PROVE  r \in Seq(S) /\ Insertion(r, l, i, e)
<1> DEFINE n == Len(l)
           a == SubSeq(l, 1, i - 1)
           b == SubSeq(l, i, n)
           c == a \o <<e>>
<1>1. n \in Nat /\ i \in 1..(n + 1) /\ \A k \in 1..n : l[k] \in S
  BY LenProperties, ElementOfSeq
<1> HIDE DEF n
<1>2. i - 1 \in Int /\ i \in Int /\ n \in Int /\ 1 \in Int
  BY <1>1
<1>3. (\A k \in 1..(i - 1) : l[k] \in S) /\ (\A k \in i..n : l[k] \in S)
  BY <1>1
<1>4. a \in Seq(S) /\ Len(a) = i - 1 /\ \A k \in 1..(i - 1) : a[k] = l[k]
  <2>1. /\ a \in Seq(S) /\ Len(a) = (IF 1 <= i - 1 THEN (i - 1) - 1 + 1 ELSE 0)
        /\ \A k \in 1..((i - 1) - 1 + 1) : a[k] = l[1 + k - 1]
    BY <1>2, <1>3, SubSeqProperties
  <2> HIDE DEF a
  <2> QED BY <1>1, <2>1
<1>5. b \in Seq(S) /\ Len(b) = n + 1 - i /\ \A k \in 1..(n + 1 - i) : b[k] = l[i + k - 1]
  <2>1. /\ b \in Seq(S) /\ Len(b) = (IF i <= n THEN n - i + 1 ELSE 0)
        /\ \A k \in 1..(n - i + 1) : b[k] = l[i + k - 1]
    BY <1>2, <1>3, SubSeqProperties
  <2> HIDE DEF b
  <2> QED BY <1>1, <2>1
<1>6. <<e>> \in Seq(S) /\ Len(<<e>>) = 1 /\ <<e>>[1] = e
  OBVIOUS
<1>7. r = c \o b
  BY DEF InsertAt, n
<1> HIDE DEF a, b
<1>8. /\ c \in Seq(S) /\ Len(c) = Len(a) + 1
      /\ \A k \in 1..(Len(a) + 1) : c[k] = IF k <= Len(a) THEN a[k] ELSE <<e>>[k - Len(a)]
  <2> DEFINE one == <<e>>
  <2>1. one \in Seq(S) /\ Len(one) = 1
    BY <1>6
  <2> HIDE DEF one
  <2>2. /\ a \o one \in Seq(S) /\ Len(a \o one) = Len(a) + Len(one)
        /\ \A k \in 1..(Len(a) + Len(one)) : (a \o one)[k] = IF k <= Len(a) THEN a[k] ELSE one[k - Len(a)]
    BY <1>4, <2>1, ConcatProperties
  <2> QED BY <2>1, <2>2 DEF one
<1> HIDE DEF c
<1>9. /\ r \in Seq(S) /\ Len(r) = Len(c) + Len(b)
      /\ \A k \in 1..(Len(c) + Len(b)) : r[k] = IF k <= Len(c) THEN c[k] ELSE b[k - Len(c)]
  <2>1. b \in Seq(S) /\ c \in Seq(S)
    BY <1>5, <1>8
  <2> QED BY <2>1, <1>7, ConcatProperties
<1>10. Len(c) = i /\ Len(r) = n + 1
  BY <1>1, <1>4, <1>5, <1>8, <1>9
<1>11. \A k \in 1..Len(r) : r[k] = IF k < i THEN l[k] ELSE IF k = i THEN e ELSE l[k - 1]
  <2> TAKE k \in 1..Len(r)
  <2>1. CASE k < i
    <3>1. r[k] = c[k] /\ c[k] = a[k] /\ a[k] = l[k]
      BY <2>1, <1>1, <1>4, <1>8, <1>9, <1>10
    <3> QED BY <2>1, <3>1
  <2>2. CASE k = i
    <3>1. r[k] = c[k] /\ c[k] = <<e>>[k - (i - 1)] /\ k - (i - 1) = 1
      BY <2>2, <1>1, <1>4, <1>8, <1>9, <1>10
    <3> QED BY <2>2, <3>1, <1>6, <1>1
  <2>3. CASE k > i
    <3>1. k - i \in 1..(n + 1 - i) /\ i + (k - i) - 1 = k - 1 /\ ~(k <= i)
      BY <2>3, <1>1, <1>10
    <3>2. r[k] = b[k - i] /\ b[k - i] = l[k - 1]
      BY <3>1, <1>1, <1>5, <1>9, <1>10
    <3> QED BY <2>3, <3>1, <3>2, <1>1
  <2> QED BY <2>1, <2>2, <2>3, <1>1, <1>10
<1> QED BY <1>9, <1>10, <1>11 DEF n, Insertion
=============================================================================
