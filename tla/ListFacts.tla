----------------------------- MODULE ListFacts -----------------------------
(***************************************************************************)
(* What the operators of Lists promise for every list: At takes the        *)
(* elements at some indices, in order; Sorted rearranges, and is ordered   *)
(* and stable; SumOf is defined.                                           *)
(***************************************************************************)
EXTENDS Lists, SequencesExt, FiniteSetTheorems, TLAPS

-----------------------------------------------------------------------------
(* Induction over the natural numbers                                      *)

\* A set of natural numbers has a least element, ...
LEMMA LeastNat ==
    ASSUME NEW T, T \subseteq Nat, T # {}
    PROVE  \E n \in T : \A m \in T : n <= m
<1>1. PICK n \in T : \A m \in T : ~(<<m, n>> \in OpToRel(<, Nat))
  BY NatLessThanWellFounded, WFMin, Zenon
<1>2. \A m \in T : ~(m < n)
  BY <1>1 DEF OpToRel
<1> QED BY <1>2

\* ... so one that has 0 and the successor of each of its members has them all.
LEMMA AllNats ==
    ASSUME NEW S, 0 \in S, \A n \in Nat : n \in S => n + 1 \in S
    PROVE  Nat \subseteq S
<1> SUFFICES ASSUME Nat \ S # {} PROVE FALSE
  OBVIOUS
<1>1. PICK n \in Nat \ S : \A m \in Nat \ S : n <= m
  BY LeastNat, Zenon
<1>2. n # 0 /\ n - 1 \in Nat
  BY <1>1
<1>3. n - 1 \in S
  BY <1>1, <1>2
<1> QED BY <1>1, <1>2, <1>3

LEMMA MinIsLeast ==
    ASSUME NEW S \in SUBSET Nat, S # {}
    PROVE  Min(S) \in S /\ \A n \in S : Min(S) <= n
<1>1. \E n \in S : \A m \in S : n <= m
  BY LeastNat, Zenon
<1> QED BY <1>1, Zenon DEF Min

LEMMA MaxIsGreatest ==
    ASSUME NEW n \in Nat, NEW S \in SUBSET (1..n), S # {}
    PROVE  Max(S) \in S /\ \A m \in S : m <= Max(S)
<1>1. {n - m : m \in S} \subseteq Nat /\ {n - m : m \in S} # {}
  <2>1. \A m \in S : n - m \in Nat
    OBVIOUS
  <2>2. PICK m \in S : TRUE
    OBVIOUS
  <2> QED BY <2>1, <2>2, Zenon
<1>2. PICK l \in {n - m : m \in S} : \A k \in {n - m : m \in S} : l <= k
  BY <1>1, LeastNat
<1>3. PICK m \in S : l = n - m
  BY <1>2
<1>4. \A k \in S : m >= k
  BY <1>2, <1>3
<1>5. Max(S) \in S /\ \A k \in S : Max(S) >= k
  BY <1>4, Zenon DEF Max
<1> QED BY <1>5

LEMMA CountUpTo ==
    ASSUME NEW n \in Nat
    PROVE  IsFiniteSet(1..n) /\ Cardinality(1..n) = n
BY FS_Interval

-----------------------------------------------------------------------------
(* Places in an order                                                      *)

\* In a finite set that is totally ordered each element has a place, from 1 to
\* the number of elements, and each place has its element.
Ordered(S, W) ==
    /\ \A i \in S : <<i, i>> \in W
    /\ \A i, j \in S : <<i, j>> \in W \/ <<j, i>> \in W
    /\ \A i, j \in S : <<i, j>> \in W /\ <<j, i>> \in W => i = j
    /\ \A i, j, k \in S : <<i, j>> \in W /\ <<j, k>> \in W => <<i, k>> \in W

Place(S, W, i) == Cardinality({j \in S : <<j, i>> \in W})

LEMMA PlacesCount ==
    ASSUME NEW S, IsFiniteSet(S), NEW W, Ordered(S, W)
    PROVE  /\ Cardinality(S) \in Nat
           /\ \A i \in S : Place(S, W, i) \in 1..Cardinality(S)
           /\ \A i, j \in S : Place(S, W, i) = Place(S, W, j) => i = j
           /\ \A i, j \in S : Place(S, W, i) < Place(S, W, j) => <<i, j>> \in W
           /\ \A k \in 1..Cardinality(S) : \E i \in S : Place(S, W, i) = k
<1> DEFINE below(i) == {j \in S : <<j, i>> \in W}
           rank == [i \in S |-> Cardinality(below(i))]
           T == 1..Cardinality(S)
<1>0. \A i \in S : rank[i] = Place(S, W, i)
  BY DEF Place
<1>1. /\ Cardinality(S) \in Nat
      /\ \A R \in SUBSET S : IsFiniteSet(R) /\ Cardinality(R) \in Nat
  <2>1. \A R \in SUBSET S : IsFiniteSet(R)
    BY FS_Subset
  <2> QED BY <2>1, FS_CardinalityType
<1>2. ASSUME NEW i \in S PROVE rank[i] \in T
  <2>1. below(i) \in SUBSET S /\ below(i) # {}
    BY DEF Ordered
  <2>2. Cardinality(below(i)) <= Cardinality(S) /\ Cardinality(below(i)) # 0
    BY <1>1, <2>1, FS_Subset, FS_EmptySet
  <2>3. Cardinality(below(i)) \in Nat
    BY <1>1, <2>1
  <2> HIDE DEF below
  <2> QED BY <1>1, <2>2, <2>3
<1>3. ASSUME NEW i \in S, NEW j \in S, <<i, j>> \in W, i # j
      PROVE  rank[i] < rank[j]
  <2>1. /\ below(i) \in SUBSET below(j) /\ below(i) # below(j)
        /\ below(i) \in SUBSET S /\ below(j) \in SUBSET S
    <3>1. j \in below(j) /\ j \notin below(i)
      BY <1>3 DEF Ordered
    <3>2. ASSUME NEW k \in S, <<k, i>> \in W PROVE <<k, j>> \in W
      BY <1>3, <3>2 DEF Ordered
    <3> QED BY <3>1, <3>2, Zenon
  <2>2. IsFiniteSet(below(j)) /\ IsFiniteSet(below(i))
        /\ Cardinality(below(i)) \in Nat /\ Cardinality(below(j)) \in Nat
    BY <1>1, <2>1
  <2>3. Cardinality(below(i)) <= Cardinality(below(j))
        /\ Cardinality(below(i)) # Cardinality(below(j))
    BY <2>1, <2>2, FS_Subset
  <2> HIDE DEF below
  <2> QED BY <2>2, <2>3
<1> HIDE DEF rank
<1>4. ASSUME NEW i \in S, NEW j \in S
      PROVE  /\ rank[i] = rank[j] => i = j
             /\ rank[i] < rank[j] => <<i, j>> \in W
  <2>1. rank[i] \in Nat /\ rank[j] \in Nat
    BY <1>1, <1>2
  <2>2. i = j \/ <<i, j>> \in W \/ <<j, i>> \in W
    BY DEF Ordered
  <2> QED BY <1>3, <2>1, <2>2
<1>5. rank \in Injection(S, T)
  BY <1>2, <1>4 DEF Injection, IsInjective, rank
<1>6. IsFiniteSet(T) /\ Cardinality(T) = Cardinality(S)
  BY <1>1, FS_Interval
<1>7. rank \in Surjection(S, T)
  BY <1>5, <1>6, FS_Injection
<1>8. \A k \in T : \E i \in S : rank[i] = k
  BY <1>7 DEF Surjection
<1> QED BY <1>0, <1>1, <1>2, <1>4, <1>8

LEMMA PlaceTaken ==
    ASSUME NEW S, IsFiniteSet(S), NEW W, Ordered(S, W),
           NEW k \in 1..Cardinality(S)
    PROVE  \E i \in S : Place(S, W, i) = k
BY PlacesCount

-----------------------------------------------------------------------------
(* At                                                                      *)

\* Nth counts the members of a set of indices, upwards and each of them once.
LEMMA NthCounts ==
    ASSUME NEW n \in Nat, NEW S \in SUBSET (1..n)
    PROVE  /\ IsFiniteSet(S) /\ Cardinality(S) \in Nat
           /\ \A k \in 1..Cardinality(S) : Nth(S, k) \in S
           /\ \A k, l \in 1..Cardinality(S) : Nth(S, k) = Nth(S, l) => k = l
           /\ \A k, l \in 1..Cardinality(S) : k < l => Nth(S, k) < Nth(S, l)
           /\ \A i \in S : \E k \in 1..Cardinality(S) : Nth(S, k) = i
<1>0. PICK upto : upto = {p \in S \X S : p[1] <= p[2]}
  OBVIOUS
<1>1. IsFiniteSet(S)
  <2>1. IsFiniteSet(1..n)
    BY FS_Interval
  <2> QED BY <2>1, FS_Subset
<1>2. \A i, j \in S : <<i, j>> \in upto <=> i <= j
  BY <1>0
<1>3. Ordered(S, upto)
  <2>1. \A i \in S : i \in Int
    OBVIOUS
  <2> QED BY <1>2, <2>1 DEF Ordered
<1>4. \A i \in S : Place(S, upto, i) = Cardinality({j \in S : j <= i})
  <2>1. ASSUME NEW i \in S
        PROVE  {j \in S : <<j, i>> \in upto} = {j \in S : j <= i}
    BY <1>2
  <2> QED BY <2>1, Zenon DEF Place
<1>5. /\ Cardinality(S) \in Nat
      /\ \A i \in S : Place(S, upto, i) \in 1..Cardinality(S)
      /\ \A i, j \in S : Place(S, upto, i) = Place(S, upto, j) => i = j
      /\ \A i, j \in S : Place(S, upto, i) < Place(S, upto, j) => <<i, j>> \in upto
  BY <1>1, <1>3, PlacesCount
<1>6. ASSUME NEW k \in 1..Cardinality(S)
      PROVE  Nth(S, k) \in S /\ Place(S, upto, Nth(S, k)) = k
  <2>1. \E i \in S : Cardinality({j \in S : j <= i}) = k
    <3>1. \E i \in S : Place(S, upto, i) = k
      BY <1>1, <1>3, PlaceTaken
    <3> QED BY <1>4, <3>1
  <2>2. /\ Nth(S, k) \in S
        /\ Cardinality({j \in S : j <= Nth(S, k)}) = k
    BY <2>1, Zenon DEF Nth
  <2> QED BY <1>4, <2>2
<1>7. ASSUME NEW k \in 1..Cardinality(S), NEW l \in 1..Cardinality(S), k < l
      PROVE  Nth(S, k) < Nth(S, l)
  <2>1. Nth(S, k) <= Nth(S, l)
    BY <1>2, <1>5, <1>6, <1>7
  <2>2. Nth(S, k) # Nth(S, l)
    <3>1. k # l
      BY <1>5, <1>7
    <3> QED BY <1>6, <3>1, Zenon
  <2>3. Nth(S, k) \in 1..n /\ Nth(S, l) \in 1..n
    BY <1>6
  <2> QED BY <2>1, <2>2, <2>3
<1>8. ASSUME NEW i \in S PROVE \E k \in 1..Cardinality(S) : Nth(S, k) = i
  BY <1>5, <1>6
<1> QED BY <1>1, <1>5, <1>6, <1>7, <1>8

LEMMA AtFacts ==
    ASSUME NEW T, NEW s \in Seq(T), NEW S \in SUBSET (DOMAIN s)
    PROVE  /\ At(s, S) \in Seq(T) /\ Len(At(s, S)) = Cardinality(S)
           /\ IsFiniteSet(S) /\ Cardinality(S) \in Nat
           /\ DOMAIN At(s, S) = 1..Cardinality(S)
           /\ \A k \in DOMAIN At(s, S) :
                Nth(S, k) \in S /\ At(s, S)[k] = s[Nth(S, k)]
           /\ \A k, l \in DOMAIN At(s, S) :
                /\ Nth(S, k) = Nth(S, l) => k = l
                /\ k < l => Nth(S, k) < Nth(S, l)
           /\ \A i \in S : \E k \in DOMAIN At(s, S) : Nth(S, k) = i
           /\ At(s, S) = <<>> <=> S = {}
<1>1. Len(s) \in Nat /\ S \in SUBSET (1..Len(s))
  OBVIOUS
<1>2. /\ IsFiniteSet(S) /\ Cardinality(S) \in Nat
      /\ \A k \in 1..Cardinality(S) : Nth(S, k) \in S
      /\ \A k, l \in 1..Cardinality(S) : Nth(S, k) = Nth(S, l) => k = l
      /\ \A k, l \in 1..Cardinality(S) : k < l => Nth(S, k) < Nth(S, l)
      /\ \A i \in S : \E k \in 1..Cardinality(S) : Nth(S, k) = i
  BY <1>1, NthCounts
<1>3. \A k \in 1..Cardinality(S) : s[Nth(S, k)] \in T
  <2>1. \A i \in 1..Len(s) : s[i] \in T
    OBVIOUS
  <2> QED BY <1>1, <1>2, <2>1, Zenon
<1>4. /\ At(s, S) \in [1..Cardinality(S) -> T]
      /\ \A k \in 1..Cardinality(S) : At(s, S)[k] = s[Nth(S, k)]
  BY <1>3 DEF At
<1>5. /\ At(s, S) \in Seq(T) /\ Len(At(s, S)) = Cardinality(S)
      /\ DOMAIN At(s, S) = 1..Cardinality(S)
  BY <1>2, <1>4
<1>6. At(s, S) = <<>> <=> S = {}
  <2>1. At(s, S) = <<>> <=> Cardinality(S) = 0
    BY <1>2, <1>5
  <2> QED BY <1>2, <2>1, FS_EmptySet
<1> QED BY <1>2, <1>4, <1>5, <1>6

LEMMA AtReaches ==
    ASSUME NEW T, NEW s \in Seq(T), NEW S \in SUBSET (DOMAIN s), NEW i \in S
    PROVE  \E k \in DOMAIN At(s, S) : Nth(S, k) = i
<1>1. Len(s) \in Nat /\ S \in SUBSET (1..Len(s))
  OBVIOUS
<1>2. \A j \in S : \E k \in 1..Cardinality(S) : Nth(S, k) = j
  BY <1>1, NthCounts
<1>3. DOMAIN At(s, S) = 1..Cardinality(S)
  BY AtFacts
<1> QED BY <1>2, <1>3, Zenon

-----------------------------------------------------------------------------
(* Sorted                                                                  *)

Keys(m) == [1..m -> Int]

\* Tuples of one length that differ differ at a first place, ...
LEMMA FirstDifference ==
    ASSUME NEW m \in Nat, NEW a \in [1..m -> Int], NEW b \in [1..m -> Int],
           a # b
    PROVE  \E i \in 1..m : a[i] # b[i] /\ \A j \in 1..(i - 1) : a[j] = b[j]
<1> DEFINE differ == {i \in 1..m : a[i] # b[i]}
<1>1. differ \subseteq Nat /\ differ # {}
  OBVIOUS
<1>2. PICK i \in differ : \A j \in differ : i <= j
  BY <1>1, LeastNat, Zenon
<1>3. ASSUME NEW j \in 1..(i - 1) PROVE a[j] = b[j]
  <2>1. i \in 1..m
    OBVIOUS
  <2>2. j \in 1..m /\ ~(i <= j)
    BY <2>1
  <2> QED BY <1>2, <2>2
<1> QED BY <1>3

\* ... so they are totally ordered.
LEMMA LessIsAnOrder ==
    ASSUME NEW m \in Nat
    PROVE  /\ \A a \in Keys(m) : ~Less(a, a)
           /\ \A a, b \in Keys(m) : a = b \/ Less(a, b) \/ Less(b, a)
           /\ \A a, b \in Keys(m) : ~(Less(a, b) /\ Less(b, a))
           /\ \A a, b, c \in Keys(m) : Less(a, b) /\ Less(b, c) => Less(a, c)
<1> USE DEF Keys
<1>1. ASSUME NEW a \in Keys(m) PROVE ~Less(a, a)
  BY DEF Less
<1>2. ASSUME NEW a \in Keys(m), NEW b \in Keys(m), a # b
      PROVE  Less(a, b) \/ Less(b, a)
  <2>1. PICK i \in 1..m : a[i] # b[i] /\ \A j \in 1..(i - 1) : a[j] = b[j]
    BY <1>2, FirstDifference
  <2>2. CASE a[i] < b[i]
    <3>1. i \in DOMAIN a
      OBVIOUS
    <3> QED BY <2>1, <2>2, <3>1 DEF Less
  <2>3. CASE b[i] < a[i]
    <3>1. i \in DOMAIN b /\ \A j \in 1..(i - 1) : b[j] = a[j]
      BY <2>1
    <3> QED BY <2>3, <3>1 DEF Less
  <2>4. a[i] \in Int /\ b[i] \in Int
    OBVIOUS
  <2> QED BY <2>1, <2>2, <2>3, <2>4
<1>3. ASSUME NEW a \in Keys(m), NEW b \in Keys(m), NEW c \in Keys(m),
             Less(a, b), Less(b, c)
      PROVE  Less(a, c)
  <2>1. PICK i \in 1..m : a[i] < b[i] /\ \A j \in 1..(i - 1) : a[j] = b[j]
    BY <1>3 DEF Less
  <2>2. PICK k \in 1..m : b[k] < c[k] /\ \A j \in 1..(k - 1) : b[j] = c[j]
    BY <1>3 DEF Less
  <2>3. PICK l \in {i, k} : l <= i /\ l <= k
    OBVIOUS
  <2>4. /\ l \in DOMAIN a /\ a[l] \in Int /\ b[l] \in Int /\ c[l] \in Int
        /\ a[l] <= b[l] /\ b[l] <= c[l] /\ (a[l] < b[l] \/ b[l] < c[l])
    <3>1. l \in 1..m
      OBVIOUS
    <3>2. a[l] \in Int /\ b[l] \in Int /\ c[l] \in Int /\ l \in DOMAIN a
      BY <3>1
    <3>3. l < i => a[l] = b[l]
      BY <2>1, <3>1
    <3>4. l < k => b[l] = c[l]
      BY <2>2, <3>1
    <3> QED BY SMTT(30), <2>1, <2>2, <2>3, <3>2, <3>3, <3>4
  <2>5. ASSUME NEW j \in 1..(l - 1) PROVE a[j] = c[j]
    <3>1. j \in 1..(i - 1) /\ j \in 1..(k - 1)
      BY <2>3
    <3> QED BY <2>1, <2>2, <3>1
  <2>6. a[l] < c[l]
    BY <2>4
  <2> QED BY <2>4, <2>5, <2>6 DEF Less
<1>4. ASSUME NEW a \in Keys(m), NEW b \in Keys(m), Less(a, b), Less(b, a)
      PROVE  FALSE
  BY <1>1, <1>3, <1>4
<1> QED BY <1>1, <1>2, <1>3, <1>4

\* The elements of a list rearranged by a permutation of its indices.
Shuffles(s) ==
    {p \in [DOMAIN s -> DOMAIN s] :
       /\ \A i, j \in DOMAIN s : p[i] = p[j] => i = j
       /\ \A i \in DOMAIN s : \E n \in DOMAIN s : p[n] = i}

\* Sorted rearranges by the keys and, where they are equal, by the indices.
LEMMA SortedFacts ==
    ASSUME NEW T, NEW s \in Seq(T), NEW m \in Nat,
           NEW keys \in [DOMAIN s -> Keys(m)]
    PROVE  \E p \in Shuffles(s) :
             /\ Sorted(s, keys) = [n \in DOMAIN s |-> s[p[n]]]
             /\ \A i, j \in DOMAIN s : i < j =>
                  \/ Less(keys[p[i]], keys[p[j]])
                  \/ keys[p[i]] = keys[p[j]] /\ p[i] < p[j]
<1> DEFINE S == DOMAIN s
           Before(j, i) == \/ Less(keys[j], keys[i])
                           \/ keys[j] = keys[i] /\ j <= i
           place(i) == Cardinality({j \in S : Before(j, i)})
<1>0. PICK W : W = {q \in S \X S : Before(q[1], q[2])}
  OBVIOUS
<1>1. S = 1..Len(s) /\ Len(s) \in Nat
  OBVIOUS
<1>2. IsFiniteSet(S) /\ Cardinality(S) = Len(s)
  <2>1. Len(s) \in Nat
    BY <1>1
  <2>2. IsFiniteSet(1..Len(s)) /\ Cardinality(1..Len(s)) = Len(s)
    BY ONLY <2>1, CountUpTo
  <2> QED BY <1>1, <2>2
<1>3. \A i, j \in S : <<j, i>> \in W <=> Before(j, i)
  BY <1>0
<1>4. Ordered(S, W)
  <2>0. \A i \in S : i \in Int /\ keys[i] \in Keys(m)
    OBVIOUS
  <2>1. ASSUME NEW i \in S, NEW j \in S
        PROVE  /\ ~Less(keys[i], keys[i])
               /\ keys[i] = keys[j] \/ Less(keys[i], keys[j]) \/ Less(keys[j], keys[i])
               /\ ~(Less(keys[i], keys[j]) /\ Less(keys[j], keys[i]))
               /\ \A k \in S : Less(keys[i], keys[j]) /\ Less(keys[j], keys[k])
                               => Less(keys[i], keys[k])
    BY <2>0, LessIsAnOrder
  <2>2. \A i \in S : Before(i, i)
    BY <2>0
  <2>3. \A i, j \in S : Before(i, j) \/ Before(j, i)
    BY <2>0, <2>1
  <2>4. \A i, j \in S : Before(i, j) /\ Before(j, i) => i = j
    BY <2>0, <2>1
  <2>5. ASSUME NEW i \in S, NEW j \in S, NEW k \in S, Before(i, j), Before(j, k)
        PROVE  Before(i, k)
    BY <2>0, <2>1, <2>5
  <2> HIDE DEF Before
  <2> QED BY <1>3, <2>2, <2>3, <2>4, <2>5 DEF Ordered
<1>5. ASSUME NEW i \in S PROVE place(i) = Place(S, W, i)
  <2>1. {j \in S : <<j, i>> \in W} = {j \in S : Before(j, i)}
    BY <1>3
  <2> QED BY <2>1, Zenon DEF Place
<1> DEFINE p == [n \in S |-> CHOOSE i \in S : place(i) = n]
<1>6. Sorted(s, keys) = [n \in S |-> s[p[n]]]
  BY DEF Sorted
<1> HIDE DEF Before
<1>7. ASSUME NEW n \in S PROVE p[n] \in S /\ Place(S, W, p[n]) = n
  <2>1. \E i \in S : Place(S, W, i) = n
    <3>1. n \in 1..Cardinality(S)
      BY <1>1, <1>2
    <3> QED BY <1>2, <1>4, <3>1, PlaceTaken
  <2>2. \E i \in S : place(i) = n
    BY <1>5, <2>1
  <2>3. p[n] \in S /\ place(p[n]) = n
    <3>1. p[n] = CHOOSE i \in S : place(i) = n
      OBVIOUS
    <3> HIDE DEF p, place
    <3> QED BY <2>2, <3>1, Zenon
  <2> QED BY <1>5, <2>3
<1> HIDE DEF p, place
<1>8. p \in [S -> S]
  BY <1>7 DEF p
<1>9. ASSUME NEW i \in S PROVE \E n \in S : p[n] = i
  <2>1. Place(S, W, i) \in 1..Cardinality(S)
    BY <1>2, <1>4, PlacesCount
  <2>2. Place(S, W, i) \in S
    BY <1>1, <1>2, <2>1
  <2>3. Place(S, W, p[Place(S, W, i)]) = Place(S, W, i) /\ p[Place(S, W, i)] \in S
    BY <1>7, <2>2
  <2>4. p[Place(S, W, i)] = i
    BY <1>2, <1>4, <2>3, PlacesCount
  <2> QED BY <2>2, <2>4
<1>10. ASSUME NEW i \in S, NEW j \in S, i < j
       PROVE  Before(p[i], p[j]) /\ p[i] # p[j]
  <2>1. Place(S, W, p[i]) < Place(S, W, p[j])
    BY <1>7, <1>10
  <2>2. <<p[i], p[j]>> \in W
    BY <1>2, <1>4, <1>7, <2>1, PlacesCount
  <2>3. p[i] # p[j]
    <3>1. i # j
      BY <1>1, <1>10
    <3> QED BY <1>7, <3>1
  <2> QED BY <1>3, <1>7, <2>2, <2>3
<1>11. ASSUME NEW i \in S, NEW j \in S, i < j
       PROVE  \/ Less(keys[p[i]], keys[p[j]])
              \/ keys[p[i]] = keys[p[j]] /\ p[i] < p[j]
  <2>1. p[i] \in Int /\ p[j] \in Int
    BY <1>1, <1>7
  <2> QED BY <1>10, <1>11, <2>1 DEF Before
<1>12. \A i, j \in S : p[i] = p[j] => i = j
  BY <1>7
<1> QED BY <1>6, <1>8, <1>9, <1>11, <1>12 DEF Shuffles

\* A list is without repetitions when its indices tell its elements apart.
Unrepeated(s) == \A i, j \in DOMAIN s : s[i] = s[j] => i = j

LEMMA SortedIsAList ==
    ASSUME NEW T, NEW s \in Seq(T), NEW m \in Nat,
           NEW keys \in [DOMAIN s -> Keys(m)]
    PROVE  /\ Sorted(s, keys) \in Seq(T) /\ Len(Sorted(s, keys)) = Len(s)
           /\ DOMAIN Sorted(s, keys) = DOMAIN s
           /\ ToSet(Sorted(s, keys)) = ToSet(s)
           /\ Unrepeated(s) => Unrepeated(Sorted(s, keys))
<1> DEFINE t == Sorted(s, keys)
<1>1. PICK p \in Shuffles(s) : t = [n \in DOMAIN s |-> s[p[n]]]
  BY SortedFacts
<1> HIDE DEF t
<1>2. /\ p \in [DOMAIN s -> DOMAIN s]
      /\ \A i, j \in DOMAIN s : p[i] = p[j] => i = j
      /\ \A i \in DOMAIN s : \E n \in DOMAIN s : p[n] = i
  BY DEF Shuffles
<1>3. DOMAIN t = DOMAIN s /\ \A n \in DOMAIN s : t[n] = s[p[n]] /\ t[n] \in T
  <2>1. \A n \in DOMAIN s : s[n] \in T
    OBVIOUS
  <2> QED BY <1>1, <1>2, <2>1
<1>4. t \in Seq(T) /\ Len(t) = Len(s)
  <2>1. t \in [1..Len(s) -> T] /\ Len(s) \in Nat
    BY <1>1, <1>3
  <2> QED BY <2>1
<1>5. ToSet(t) = ToSet(s)
  <2>1. ASSUME NEW x \in ToSet(t) PROVE x \in ToSet(s)
    BY <1>2, <1>3 DEF ToSet
  <2>2. ASSUME NEW x \in ToSet(s) PROVE x \in ToSet(t)
    <3>1. PICK i \in DOMAIN s : x = s[i]
      BY DEF ToSet
    <3>2. PICK n \in DOMAIN s : p[n] = i
      BY <1>2
    <3> QED BY <1>3, <3>1, <3>2 DEF ToSet
  <2> QED BY <2>1, <2>2
<1>6. ASSUME Unrepeated(s) PROVE Unrepeated(t)
  <2> SUFFICES ASSUME NEW i \in DOMAIN s, NEW j \in DOMAIN s, t[i] = t[j]
               PROVE  i = j
    BY <1>3 DEF Unrepeated
  <2>1. p[i] \in DOMAIN s /\ p[j] \in DOMAIN s /\ s[p[i]] = s[p[j]]
    BY <1>2, <1>3
  <2>2. p[i] = p[j]
    BY <1>6, <2>1 DEF Unrepeated
  <2> QED BY <1>2, <2>2
<1> QED BY <1>3, <1>4, <1>5, <1>6 DEF t

\* Nothing moves when the keys are all the same.
LEMMA SortedByNothing ==
    ASSUME NEW T, NEW s \in Seq(T), NEW m \in Nat,
           NEW keys \in [DOMAIN s -> Keys(m)],
           \A i, j \in DOMAIN s : keys[i] = keys[j]
    PROVE  Sorted(s, keys) = s
<1> DEFINE S == DOMAIN s
           place(i) == Cardinality({j \in S :
                         \/ Less(keys[j], keys[i])
                         \/ keys[j] = keys[i] /\ j <= i})
<1>1. S = 1..Len(s) /\ Len(s) \in Nat
  OBVIOUS
<1>2. ASSUME NEW i \in S PROVE place(i) = i
  <2>1. \A j \in S : ~Less(keys[j], keys[i]) /\ keys[j] = keys[i]
    BY LessIsAnOrder
  <2>2. {j \in S : \/ Less(keys[j], keys[i])
                   \/ keys[j] = keys[i] /\ j <= i} = 1..i
    BY <1>1, <2>1
  <2>3. i \in Nat
    BY <1>1
  <2>4. Cardinality(1..i) = i
    BY ONLY <2>3, CountUpTo
  <2> QED BY <2>2, <2>4
<1>3. Sorted(s, keys) = [n \in S |-> s[CHOOSE i \in S : place(i) = n]]
  BY DEF Sorted
<1> HIDE DEF place
<1>4. ASSUME NEW n \in S PROVE (CHOOSE i \in S : place(i) = n) = n
  <2>1. \E i \in S : place(i) = n
    BY <1>2
  <2>2. /\ (CHOOSE i \in S : place(i) = n) \in S
        /\ place(CHOOSE i \in S : place(i) = n) = n
    BY <2>1, Zenon
  <2> QED BY <1>2, <2>2
<1>5. Sorted(s, keys) = [n \in S |-> s[n]]
  BY <1>3, <1>4
<1> QED BY <1>5

-----------------------------------------------------------------------------
(* Lists as sets                                                           *)

LEMMA AtSet ==
    ASSUME NEW T, NEW s \in Seq(T), NEW S \in SUBSET (DOMAIN s)
    PROVE  ToSet(At(s, S)) = {s[i] : i \in S}
<1>1. ASSUME NEW x \in ToSet(At(s, S)) PROVE x \in {s[i] : i \in S}
  <2>1. PICK k \in DOMAIN At(s, S) : x = At(s, S)[k]
    BY DEF ToSet
  <2>2. Nth(S, k) \in S /\ At(s, S)[k] = s[Nth(S, k)]
    BY AtFacts
  <2> QED BY <2>1, <2>2
<1>2. ASSUME NEW i \in S PROVE s[i] \in ToSet(At(s, S))
  <2>1. PICK k \in DOMAIN At(s, S) : Nth(S, k) = i
    BY AtReaches
  <2>2. At(s, S)[k] = s[i]
    BY <2>1, AtFacts
  <2> QED BY <2>2 DEF ToSet
<1> QED BY <1>1, <1>2

LEMMA ConcatFacts ==
    ASSUME NEW T, NEW a \in Seq(T), NEW b \in Seq(T)
    PROVE  /\ a \o b \in Seq(T) /\ Len(a \o b) = Len(a) + Len(b)
           /\ \A i \in DOMAIN a : i \in DOMAIN (a \o b) /\ (a \o b)[i] = a[i]
           /\ \A i \in DOMAIN b : /\ Len(a) + i \in DOMAIN (a \o b)
                                  /\ (a \o b)[Len(a) + i] = b[i]
           /\ \A i \in DOMAIN (a \o b) :
                \/ i \in DOMAIN a
                \/ i - Len(a) \in DOMAIN b /\ i = Len(a) + (i - Len(a))
           /\ ToSet(a \o b) = ToSet(a) \cup ToSet(b)
<1> DEFINE c == a \o b
<1>1. /\ c \in Seq(T) /\ Len(c) = Len(a) + Len(b)
      /\ Len(a) \in Nat /\ Len(b) \in Nat
      /\ DOMAIN a = 1..Len(a) /\ DOMAIN b = 1..Len(b) /\ DOMAIN c = 1..Len(c)
  OBVIOUS
<1>2. ASSUME NEW i \in DOMAIN a PROVE i \in DOMAIN c /\ c[i] = a[i]
  BY <1>1
<1>3. ASSUME NEW i \in DOMAIN b
      PROVE  Len(a) + i \in DOMAIN c /\ c[Len(a) + i] = b[i]
  BY <1>1
<1>4. ASSUME NEW i \in DOMAIN c
      PROVE  \/ i \in DOMAIN a
             \/ i - Len(a) \in DOMAIN b /\ i = Len(a) + (i - Len(a))
  BY <1>1
<1> HIDE DEF c
<1>5. ToSet(c) = ToSet(a) \cup ToSet(b)
  <2>1. ASSUME NEW i \in DOMAIN c PROVE c[i] \in ToSet(a) \cup ToSet(b)
    <3>1. CASE i \in DOMAIN a
      BY <1>2, <3>1 DEF ToSet
    <3>2. CASE i - Len(a) \in DOMAIN b /\ i = Len(a) + (i - Len(a))
      <4>1. c[i] = b[i - Len(a)]
        BY <1>3, <3>2, Zenon
      <4> QED BY <3>2, <4>1 DEF ToSet
    <3> QED BY <1>4, <3>1, <3>2
  <2>2. ASSUME NEW i \in DOMAIN a PROVE a[i] \in ToSet(c)
    BY <1>2 DEF ToSet
  <2>3. ASSUME NEW i \in DOMAIN b PROVE b[i] \in ToSet(c)
    BY <1>3 DEF ToSet
  <2> QED BY <2>1, <2>2, <2>3 DEF ToSet
<1> QED BY <1>1, <1>2, <1>3, <1>4, <1>5 DEF c

\* A list without repetitions has as many elements as places.
LEMMA UnrepeatedCount ==
    ASSUME NEW T, NEW s \in Seq(T), Unrepeated(s)
    PROVE  IsFiniteSet(ToSet(s)) /\ Cardinality(ToSet(s)) = Len(s)
<1>1. Len(s) \in Nat /\ DOMAIN s = 1..Len(s)
  OBVIOUS
<1>2. IsFiniteSet(1..Len(s)) /\ Cardinality(1..Len(s)) = Len(s)
  BY ONLY <1>1, CountUpTo
<1>3. s \in Bijection(1..Len(s), ToSet(s))
  <2>1. s \in [1..Len(s) -> ToSet(s)]
    BY <1>1 DEF ToSet
  <2>2. \A x \in ToSet(s) : \E i \in 1..Len(s) : s[i] = x
    BY <1>1 DEF ToSet
  <2> QED BY <1>1, <2>1, <2>2
         DEF Unrepeated, Bijection, Injection, Surjection, IsInjective
<1>4. ExistsBijection(1..Len(s), ToSet(s))
  BY <1>3 DEF ExistsBijection
<1> QED BY <1>2, <1>4, FS_Bijection

\* Nothing is lost or repeated when some elements are put before the others.
LEMMA AtUnrepeated ==
    ASSUME NEW T, NEW s \in Seq(T), NEW S \in SUBSET (DOMAIN s), Unrepeated(s)
    PROVE  Unrepeated(At(s, S))
<1> SUFFICES ASSUME NEW k \in DOMAIN At(s, S), NEW l \in DOMAIN At(s, S),
                    At(s, S)[k] = At(s, S)[l]
             PROVE  k = l
  BY DEF Unrepeated
<1>1. /\ Nth(S, k) \in S /\ At(s, S)[k] = s[Nth(S, k)]
      /\ Nth(S, l) \in S /\ At(s, S)[l] = s[Nth(S, l)]
      /\ Nth(S, k) = Nth(S, l) => k = l
  BY AtFacts
<1> QED BY <1>1 DEF Unrepeated

LEMMA ConcatUnrepeated ==
    ASSUME NEW T, NEW a \in Seq(T), NEW b \in Seq(T),
           Unrepeated(a), Unrepeated(b), ToSet(a) \cap ToSet(b) = {}
    PROVE  Unrepeated(a \o b)
<1> DEFINE c == a \o b
<1>1. /\ \A i \in DOMAIN a : i \in DOMAIN c /\ c[i] = a[i] /\ c[i] \in ToSet(a)
      /\ \A i \in DOMAIN b : c[Len(a) + i] = b[i] /\ b[i] \in ToSet(b)
      /\ \A i \in DOMAIN c :
           \/ i \in DOMAIN a
           \/ i - Len(a) \in DOMAIN b /\ i = Len(a) + (i - Len(a))
  BY ConcatFacts DEF ToSet
<1> HIDE DEF c
<1>2. ASSUME NEW i \in DOMAIN c, NEW j \in DOMAIN c, c[i] = c[j],
             i \in DOMAIN a, j \notin DOMAIN a
      PROVE  FALSE
  <2>1. j - Len(a) \in DOMAIN b /\ j = Len(a) + (j - Len(a))
    BY <1>1, <1>2
  <2>2. c[j] \in ToSet(b)
    BY <1>1, <2>1, Zenon
  <2>3. c[i] \in ToSet(a)
    BY <1>1, <1>2
  <2> QED BY <1>2, <2>2, <2>3
<1>3. ASSUME NEW i \in DOMAIN c, NEW j \in DOMAIN c, c[i] = c[j] PROVE i = j
  <2>1. CASE i \in DOMAIN a /\ j \in DOMAIN a
    BY <1>1, <1>3, <2>1 DEF Unrepeated
  <2>2. CASE i \notin DOMAIN a /\ j \notin DOMAIN a
    <3>1. /\ i - Len(a) \in DOMAIN b /\ i = Len(a) + (i - Len(a))
          /\ j - Len(a) \in DOMAIN b /\ j = Len(a) + (j - Len(a))
      BY <1>1, <2>2
    <3>2. c[i] = b[i - Len(a)] /\ c[j] = b[j - Len(a)]
      BY <1>1, <3>1, Zenon
    <3>3. i - Len(a) = j - Len(a)
      BY <1>3, <3>1, <3>2 DEF Unrepeated
    <3> QED BY <3>1, <3>3, Zenon
  <2> QED BY <1>2, <1>3, <2>1, <2>2
<1> QED BY <1>3 DEF Unrepeated, c

LEMMA SplitFacts ==
    ASSUME NEW T, NEW s \in Seq(T), NEW S \in SUBSET (DOMAIN s)
    PROVE  LET t == At(s, S) \o At(s, DOMAIN s \ S)
           IN  /\ t \in Seq(T) /\ Len(t) = Len(s) /\ ToSet(t) = ToSet(s)
               /\ Unrepeated(s) => Unrepeated(t)
<1> DEFINE a == At(s, S)
           R == DOMAIN s \ S
           b == At(s, R)
<1>1. /\ a \in Seq(T) /\ Len(a) = Cardinality(S)
      /\ IsFiniteSet(S) /\ Cardinality(S) \in Nat /\ ToSet(a) = {s[i] : i \in S}
  BY AtFacts, AtSet
<1>2. R \in SUBSET (DOMAIN s)
  OBVIOUS
<1>3. /\ b \in Seq(T) /\ Len(b) = Cardinality(R)
      /\ IsFiniteSet(R) /\ Cardinality(R) \in Nat /\ ToSet(b) = {s[i] : i \in R}
  <2> HIDE DEF R
  <2> QED BY SMTT(30), <1>2, AtFacts, AtSet
<1>4. Len(s) \in Nat /\ DOMAIN s = 1..Len(s)
  OBVIOUS
<1>5. Cardinality(S) + Cardinality(R) = Len(s)
  <2>1. IsFiniteSet(DOMAIN s) /\ Cardinality(DOMAIN s) = Len(s)
    BY <1>4, CountUpTo
  <2>2. S \cap R = {} /\ S \cup R = DOMAIN s
    OBVIOUS
  <2>3. Cardinality(S \cup R) = Cardinality(S) + Cardinality(R) - Cardinality(S \cap R)
    BY <1>1, <1>3, FS_Union
  <2>4. Cardinality(S \cap R) = 0
    BY <2>2, FS_EmptySet
  <2> QED BY <1>1, <1>3, <2>1, <2>2, <2>3, <2>4
<1>6. /\ a \o b \in Seq(T) /\ Len(a \o b) = Len(a) + Len(b)
      /\ ToSet(a \o b) = ToSet(a) \cup ToSet(b)
  <2> HIDE DEF a, b
  <2> QED BY ZenonT(60), <1>1, <1>3, ConcatFacts
<1>7. ToSet(s) = {s[i] : i \in DOMAIN s}
  BY DEF ToSet
<1>8. ASSUME Unrepeated(s) PROVE Unrepeated(a \o b)
  <2>1. Unrepeated(a) /\ Unrepeated(b)
    BY <1>2, <1>8, AtUnrepeated
  <2>2. ToSet(a) \cap ToSet(b) = {}
    BY <1>1, <1>3, <1>8 DEF Unrepeated
  <2> HIDE DEF a, b
  <2> QED BY <1>1, <1>3, <2>1, <2>2, ConcatUnrepeated
<1> HIDE DEF a, b, R
<1>9. Len(a \o b) = Len(s) /\ ToSet(a \o b) = ToSet(s)
  <2>1. R \cup S = DOMAIN s
    BY DEF R
  <2> QED BY <1>1, <1>3, <1>5, <1>6, <1>7, <2>1
<1> QED BY <1>6, <1>8, <1>9 DEF a, b, R

\* A slice from the beginning.
LEMMA FirstFacts ==
    ASSUME NEW T, NEW s \in Seq(T), NEW n \in Nat
    PROVE  /\ First(s, n) \in Seq(T)
           /\ Len(First(s, n)) = IF n < Len(s) THEN n ELSE Len(s)
           /\ DOMAIN First(s, n) = 1..Len(First(s, n))
           /\ DOMAIN First(s, n) \subseteq DOMAIN s
           /\ \A i \in DOMAIN First(s, n) : First(s, n)[i] = s[i]
           /\ ToSet(First(s, n)) \subseteq ToSet(s)
           /\ Unrepeated(s) => Unrepeated(First(s, n))
<1> DEFINE t == First(s, n)
           m == IF n < Len(s) THEN n ELSE Len(s)
<1>1. m \in Nat /\ m <= Len(s) /\ Len(s) \in Nat
  OBVIOUS
<1>2. t = SubSeq(s, 1, m)
  BY DEF First
<1> HIDE DEF t, m
<1>3. /\ t \in Seq(T) /\ Len(t) = m /\ DOMAIN t = 1..m
      /\ \A i \in 1..m : t[i] = s[i] /\ i \in DOMAIN s
  BY <1>1, <1>2
<1>4. ToSet(t) \subseteq ToSet(s)
  BY <1>3 DEF ToSet
<1>5. Unrepeated(s) => Unrepeated(t)
  BY <1>3 DEF Unrepeated
<1> QED BY <1>3, <1>4, <1>5 DEF t, m

-----------------------------------------------------------------------------
(* SumOf                                                                   *)

\* The recursive function of SumOf exists, by induction over the length: what
\* holds of nothing and of what two such numbers make together holds of sums.
LEMMA SumIn ==
    ASSUME NEW T \in SUBSET Nat, 0 \in T, \A a, b \in T : a + b \in T,
           NEW s \in Seq(T)
    PROVE  SumOf(s) \in T
<1> DEFINE n == Len(s)
           Sums(f, m) == /\ f \in [0..m -> T]
                         /\ \A i \in 0..m :
                              f[i] = IF i = 0 THEN 0 ELSE f[i - 1] + s[i]
           Good == {m \in Nat : m <= n => \E f : Sums(f, m)}
<1>1. n \in Nat /\ \A i \in 1..n : s[i] \in T
  OBVIOUS
<1> HIDE DEF n
<1>2. 0 \in Good
  <2>1. Sums([i \in 0..0 |-> 0], 0)
    OBVIOUS
  <2> QED BY <2>1
<1>3. ASSUME NEW m \in Nat, m \in Good PROVE m + 1 \in Good
  <2> HIDE DEF Sums
  <2> SUFFICES ASSUME m + 1 <= n PROVE \E f : Sums(f, m + 1)
    OBVIOUS
  <2> USE DEF Sums
  <2>1. m <= n
    BY <1>1
  <2>2. \E f : Sums(f, m)
    BY <1>3, <2>1, Zenon
  <2>3. PICK f : Sums(f, m)
    BY <2>2
  <2> DEFINE g == [i \in 0..(m + 1) |-> IF i <= m THEN f[i]
                                        ELSE f[m] + s[m + 1]]
  <2>4. f[m] + s[m + 1] \in T
    <3>1. s[m + 1] \in T /\ f[m] \in T
      BY <1>1, <2>3
    <3> QED BY <3>1
  <2>5. g \in [0..(m + 1) -> T]
    <3>1. \A i \in 0..(m + 1) : i <= m => f[i] \in T
      BY <2>3
    <3> QED BY <2>4, <3>1
  <2>6. ASSUME NEW i \in 0..(m + 1)
        PROVE  g[i] = IF i = 0 THEN 0 ELSE g[i - 1] + s[i]
    <3>1. CASE i <= m
      <4>1. g[i] = f[i] /\ (i # 0 => g[i - 1] = f[i - 1])
        BY <3>1
      <4> HIDE DEF g
      <4> QED BY <2>3, <3>1, <4>1
    <3>2. CASE i = m + 1
      <4>1. g[i] = f[m] + s[m + 1] /\ g[i - 1] = f[m]
        BY <3>2
      <4> QED BY <3>2, <4>1
    <3> QED BY <3>1, <3>2
  <2> HIDE DEF g
  <2> QED BY <2>5, <2>6
<1> HIDE DEF Good
<1>4. n \in Good
  BY <1>1, <1>2, <1>3, AllNats
<1> USE DEF Good
<1>5. PICK f : Sums(f, n)
  <2>1. n <= n
    BY <1>1
  <2> QED BY <1>4, <2>1, Zenon
<1> DEFINE Sum(g) == g = [i \in 0..n |-> IF i = 0 THEN 0 ELSE g[i - 1] + s[i]]
           sum == CHOOSE g : Sum(g)
<1>6. Sum(f)
  BY <1>5
<1>7. Sum(sum)
  BY <1>6, Zenon
<1> HIDE DEF sum
<1> DEFINE Typed == {m \in Nat : m <= n => sum[m] \in T}
<1>8. 0 \in Typed
  BY <1>1, <1>7
<1>9. ASSUME NEW m \in Nat, m \in Typed PROVE m + 1 \in Typed
  <2> SUFFICES ASSUME m + 1 <= n PROVE sum[m + 1] \in T
    OBVIOUS
  <2>1. sum[m] \in T /\ s[m + 1] \in T
    BY <1>1, <1>9
  <2>2. sum[m + 1] = sum[m] + s[m + 1]
    BY <1>1, <1>7
  <2> QED BY <2>1, <2>2
<1> HIDE DEF Typed
<1>10. n \in Typed
  BY <1>1, <1>8, <1>9, AllNats
<1>11. sum[n] \in T
  BY <1>1, <1>10 DEF Typed
<1>12. SumOf(s) = sum[n]
  BY DEF SumOf, sum, n
<1> QED BY <1>11, <1>12

LEMMA SumIsNat == ASSUME NEW s \in Seq(Nat) PROVE SumOf(s) \in Nat
<1>1. Nat \in SUBSET Nat /\ 0 \in Nat /\ \A a, b \in Nat : a + b \in Nat
  OBVIOUS
<1> QED BY <1>1, SumIn

LEMMA SumOfNothing ==
    ASSUME NEW s \in Seq(Nat), \A i \in DOMAIN s : s[i] = 0
    PROVE  SumOf(s) = 0
<1>1. /\ {0} \in SUBSET Nat /\ 0 \in {0} /\ \A a, b \in {0} : a + b \in {0}
      /\ s \in Seq({0})
  <2>1. s \in [1..Len(s) -> {0}] /\ Len(s) \in Nat
    OBVIOUS
  <2> QED BY <2>1
<1>2. SumOf(s) \in {0}
  BY <1>1, SumIn
<1> QED BY <1>2
=============================================================================
