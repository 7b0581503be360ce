--------------------------- MODULE SequenceLemmas ---------------------------
(***************************************************************************)
(* What the proofs need to know of queues: their elements, and how often   *)
(* they hold one, as they grow and shrink; and of sorting by a number.     *)
(***************************************************************************)
EXTENDS Integers, Sequences, Functions, FiniteSets, FiniteSetTheorems,
        WellFoundedInduction, TLAPS

\* No element comes twice.
Distinct(s) == \A i, j \in DOMAIN s : s[i] = s[j] => i = j

-----------------------------------------------------------------------------
(* The elements of a queue as it grows and shrinks.                          *)

\* Adding a command at the end adds it to the elements.
LEMMA RangeOfAppend ==
  ASSUME NEW S, NEW s \in Seq(S), NEW e \in S
  PROVE  Range(Append(s, e)) = Range(s) \cup {e}
<1>1. /\ DOMAIN Append(s, e) = 1 .. Len(s) + 1
      /\ \A i \in 1 .. Len(s) : Append(s, e)[i] = s[i]
      /\ Append(s, e)[Len(s) + 1] = e
  OBVIOUS
<1>2. DOMAIN s = 1 .. Len(s) /\ Len(s) \in Nat
  OBVIOUS
<1> QED
  BY <1>1, <1>2 DEF Range

\* Taking the first command leaves the others.
LEMMA RangeOfHeadTail ==
  ASSUME NEW S, NEW s \in Seq(S), s # <<>>
  PROVE  /\ Range(s) = {Head(s)} \cup Range(Tail(s))
         /\ Head(s) \in S /\ Tail(s) \in Seq(S)
<1>1. /\ Len(s) \in Nat /\ Len(s) # 0
      /\ DOMAIN Tail(s) = 1 .. Len(s) - 1
      /\ \A i \in 1 .. Len(s) - 1 : Tail(s)[i] = s[i + 1]
      /\ DOMAIN s = 1 .. Len(s) /\ Head(s) = s[1]
      /\ \A i \in 1 .. Len(s) : s[i] \in S
      /\ Tail(s) \in Seq(S)
  OBVIOUS
<1>2. ASSUME NEW x \in Range(s) PROVE x = Head(s) \/ x \in Range(Tail(s))
  <2>1. PICK i \in 1 .. Len(s) : x = s[i]
    BY <1>1 DEF Range
  <2>2. CASE i = 1
    BY <2>1, <2>2, <1>1
  <2>3. CASE i # 1
    <3>1. i - 1 \in 1 .. Len(s) - 1 /\ Tail(s)[i - 1] = s[i]
      BY <2>3, <1>1
    <3> QED
      BY <3>1, <2>1, <1>1 DEF Range
  <2> QED
    BY <2>2, <2>3
<1>3. ASSUME NEW x \in Range(Tail(s)) PROVE x \in Range(s)
  <2>1. PICK i \in 1 .. Len(s) - 1 : x = Tail(s)[i]
    BY <1>1 DEF Range
  <2>2. i + 1 \in 1 .. Len(s) /\ s[i + 1] = x
    BY <2>1, <1>1
  <2> QED
    BY <2>2, <1>1 DEF Range
<1>4. Head(s) \in Range(s) /\ Head(s) \in S
  BY <1>1 DEF Range
<1> QED
  BY <1>1, <1>2, <1>3, <1>4

\* Concatenation loses no element.
LEMMA RangeOfConcat ==
  ASSUME NEW S, NEW s \in Seq(S), NEW t \in Seq(S)
  PROVE  Range(s) \subseteq Range(s \o t) /\ Range(t) \subseteq Range(s \o t)
<1>1. /\ Len(s) \in Nat /\ Len(t) \in Nat
      /\ DOMAIN s = 1 .. Len(s) /\ DOMAIN t = 1 .. Len(t)
      /\ DOMAIN (s \o t) = 1 .. Len(s) + Len(t)
      /\ \A i \in 1 .. Len(s) : (s \o t)[i] = s[i]
      /\ \A i \in 1 .. Len(t) : (s \o t)[Len(s) + i] = t[i]
  OBVIOUS
<1>2. \A i \in 1 .. Len(s) : i \in 1 .. Len(s) + Len(t)
  BY <1>1
<1>3. \A i \in 1 .. Len(t) : Len(s) + i \in 1 .. Len(s) + Len(t)
  BY <1>1
<1>4. Range(s) \subseteq Range(s \o t)
  BY <1>1, <1>2 DEF Range
<1>5. Range(t) \subseteq Range(s \o t)
  BY <1>1, <1>3 DEF Range
<1> QED
  BY <1>4, <1>5

\* The first sequence is a prefix of the concatenation.
LEMMA ConcatFacts ==
  ASSUME NEW S, NEW s \in Seq(S), NEW t \in Seq(S)
  PROVE  /\ s \o t \in Seq(S)
         /\ Len(s) \in Nat /\ Len(t) \in Nat
         /\ Len(s \o t) = Len(s) + Len(t)
         /\ \A i \in 1 .. Len(s) : (s \o t)[i] = s[i]
OBVIOUS

\* The second sequence follows.
LEMMA ConcatPlaces ==
  ASSUME NEW S, NEW s \in Seq(S), NEW t \in Seq(S)
  PROVE  /\ DOMAIN (s \o t) = 1 .. Len(s) + Len(t)
         /\ \A i \in 1 .. Len(t) : (s \o t)[Len(s) + i] = t[i]
OBVIOUS

\* The elements of a sequence over S are in S.
LEMMA RangeOfSeq ==
  ASSUME NEW S, NEW s \in Seq(S), NEW x \in Range(s)
  PROVE  x \in S
<1>1. DOMAIN s = 1 .. Len(s) /\ \A i \in 1 .. Len(s) : s[i] \in S
  OBVIOUS
<1>2. PICK i \in DOMAIN s : x = s[i]
  BY DEF Range
<1> QED
  BY <1>1, <1>2

\* An empty queue has no element.
LEMMA RangeOfEmpty == Range(<<>>) = {}
<1>1. \A i \in DOMAIN <<>> : FALSE
  OBVIOUS
<1> QED
  BY <1>1 DEF Range

-----------------------------------------------------------------------------
(* Queues that hold nothing twice.                                           *)

\* A new command at the end of a queue leaves it without duplicates.
LEMMA DistinctAppend ==
  ASSUME NEW S, NEW s \in Seq(S), NEW e \in S, Distinct(s), e \notin Range(s)
  PROVE  Distinct(Append(s, e))
<1>1. /\ Len(s) \in Nat /\ DOMAIN s = 1 .. Len(s)
      /\ DOMAIN Append(s, e) = 1 .. Len(s) + 1
      /\ \A i \in 1 .. Len(s) : Append(s, e)[i] = s[i] /\ s[i] \in Range(s)
      /\ Append(s, e)[Len(s) + 1] = e
  BY DEF Range
<1> QED
  BY <1>1 DEF Distinct

\* The head of a queue without duplicates is not in its tail.
LEMMA DistinctTail ==
  ASSUME NEW S, NEW s \in Seq(S), s # <<>>, Distinct(s)
  PROVE  Distinct(Tail(s)) /\ Head(s) \notin Range(Tail(s))
<1>1. /\ Len(s) \in Nat /\ Len(s) # 0 /\ DOMAIN s = 1 .. Len(s) /\ Head(s) = s[1]
      /\ DOMAIN Tail(s) = 1 .. Len(s) - 1
      /\ \A i \in 1 .. Len(s) - 1 : Tail(s)[i] = s[i + 1]
  OBVIOUS
<1>2. Distinct(Tail(s))
  BY <1>1 DEF Distinct
<1>3. ASSUME Head(s) \in Range(Tail(s)) PROVE FALSE
  <2>1. PICK i \in 1 .. Len(s) - 1 : Tail(s)[i] = s[1]
    BY <1>1, <1>3 DEF Range
  <2>2. i + 1 \in 1 .. Len(s) /\ 1 \in 1 .. Len(s) /\ s[i + 1] = s[1] /\ i + 1 # 1
    BY <1>1, <2>1
  <2> QED
    BY <1>1, <2>2 DEF Distinct
<1> QED
  BY <1>2, <1>3

\* The queue r is s without its i-th element.
Lacks(r, s, i) ==
  /\ DOMAIN r = 1 .. Len(s) - 1
  /\ \A j \in 1 .. Len(s) - 1 : r[j] = IF j < i THEN s[j] ELSE s[j + 1]

\* The two parts of a queue around its i-th element, put together.
LEMMA PartsLack ==
  ASSUME NEW S, NEW s \in Seq(S), NEW i \in 1 .. Len(s)
  PROVE  LET r == SubSeq(s, 1, i - 1) \o SubSeq(s, i + 1, Len(s))
         IN  r \in Seq(S) /\ Lacks(r, s, i)
<1> DEFINE a == SubSeq(s, 1, i - 1)
           b == SubSeq(s, i + 1, Len(s))
           l == Len(s)
<1>1. l \in Nat /\ i \in 1 .. l
  OBVIOUS
<1>2. a \in Seq(S) /\ Len(a) = i - 1 /\ \A j \in 1 .. i - 1 : a[j] = s[j]
  BY <1>1
<1>3. b \in Seq(S) /\ Len(b) = l - i /\ \A j \in 1 .. l - i : b[j] = s[i + j]
  BY <1>1
<1> HIDE DEF a, b, l
<1>4. /\ a \o b \in Seq(S) /\ DOMAIN (a \o b) = 1 .. (i - 1) + (l - i)
      /\ \A j \in 1 .. i - 1 : (a \o b)[j] = a[j]
      /\ \A j \in 1 .. l - i : (a \o b)[(i - 1) + j] = b[j]
  <2>1. a \in Seq(S) /\ b \in Seq(S)
    BY <1>2, <1>3
  <2>2. \A j \in 1 .. Len(a) : (a \o b)[j] = a[j]
    BY <2>1, ConcatFacts
  <2>3. \A j \in 1 .. Len(b) : (a \o b)[Len(a) + j] = b[j]
    BY <2>1, ConcatPlaces
  <2>4. a \o b \in Seq(S) /\ DOMAIN (a \o b) = 1 .. Len(a) + Len(b)
    BY <2>1, ConcatFacts, ConcatPlaces
  <2>5. Len(a) = i - 1 /\ Len(b) = l - i
    BY <1>2, <1>3
  <2> QED
    BY <2>2, <2>3, <2>4, <2>5
<1>5. ASSUME NEW j \in 1 .. l - 1 PROVE (a \o b)[j] = IF j < i THEN s[j] ELSE s[j + 1]
  <2>1. CASE j < i
    BY <1>1, <1>2, <1>4, <2>1
  <2>2. CASE ~(j < i)
    <3> DEFINE k == j - (i - 1)
    <3>1. k \in 1 .. l - i /\ (i - 1) + k = j /\ i + k = j + 1
      BY <1>1, <2>2
    <3> HIDE DEF k
    <3>2. (a \o b)[(i - 1) + k] = s[i + k]
      BY <1>3, <1>4, <3>1
    <3> QED
      BY <2>2, <3>1, <3>2
  <2> QED
    BY <2>1, <2>2
<1>6. (i - 1) + (l - i) = l - 1
  BY <1>1
<1> QED
  BY <1>4, <1>5, <1>6 DEF Lacks, a, b, l

\* If nothing comes twice, the element is gone, and nothing else is.
LEMMA DistinctLacks ==
  ASSUME NEW s, Len(s) \in Nat, DOMAIN s = 1 .. Len(s), Distinct(s),
         NEW i \in DOMAIN s, NEW r, Lacks(r, s, i)
  PROVE  Distinct(r) /\ Range(r) = Range(s) \ {s[i]}
<1> DEFINE l == Len(s)
<1>1. /\ l \in Nat /\ i \in 1 .. l /\ DOMAIN s = 1 .. l /\ DOMAIN r = 1 .. l - 1
      /\ \A j \in 1 .. l - 1 : r[j] = IF j < i THEN s[j] ELSE s[j + 1]
  BY DEF Lacks
<1> HIDE DEF l
<1>2. ASSUME NEW j \in DOMAIN r, NEW k \in DOMAIN r, r[j] = r[k] PROVE j = k
  <2> DEFINE place(n) == IF n < i THEN n ELSE n + 1
  <2>1. place(j) \in 1 .. l /\ place(k) \in 1 .. l /\ s[place(j)] = s[place(k)]
    BY <1>1, <1>2
  <2>2. place(j) = place(k)
    BY <1>1, <2>1 DEF Distinct
  <2> QED
    BY <1>1, <2>2
<1>3. ASSUME NEW x \in Range(r) PROVE x \in Range(s) \ {s[i]}
  <2>1. PICK j \in 1 .. l - 1 : x = r[j]
    BY <1>1, <1>3 DEF Range
  <2> DEFINE k == IF j < i THEN j ELSE j + 1
  <2>2. k \in 1 .. l /\ k # i /\ x = s[k]
    BY <1>1, <2>1
  <2> QED
    BY <1>1, <2>2 DEF Distinct, Range
<1>4. ASSUME NEW x \in Range(s) \ {s[i]} PROVE x \in Range(r)
  <2>1. PICK k \in 1 .. l : x = s[k] /\ k # i
    BY <1>1, <1>4 DEF Range
  <2> DEFINE j == IF k < i THEN k ELSE k - 1
  <2>2. j \in 1 .. l - 1 /\ x = r[j]
    BY <1>1, <2>1
  <2> QED
    BY <1>1, <2>2 DEF Range
<1> QED
  BY <1>2, <1>3, <1>4 DEF Distinct

\* An empty queue has no duplicates.
LEMMA EmptyDistinct == Distinct(<<>>)
BY DEF Distinct

-----------------------------------------------------------------------------
(* Stable sorting by a number: the place of an element is how many go before *)
(* it, itself included.                                                      *)

\* Those that do not go behind the k-th.
Upto(key, k) ==
  {j \in DOMAIN key : \/ key[j] < key[k]
                      \/ key[j] = key[k] /\ j <= k}

\* A place is one of those there are, and whoever goes before has a smaller one.
LEMMA PlacesInOrder ==
  ASSUME NEW n \in Nat, NEW key \in [1 .. n -> Nat], NEW k \in 1 .. n
  PROVE  /\ Cardinality(Upto(key, k)) \in 1 .. n
         /\ \A l \in 1 .. n : l \in Upto(key, k) /\ l # k =>
              Cardinality(Upto(key, l)) < Cardinality(Upto(key, k))
<1>1. IsFiniteSet(1 .. n) /\ Cardinality(1 .. n) = n
  BY FS_Interval
<1>2. \A l \in 1 .. n : Upto(key, l) \in SUBSET (1 .. n) /\ l \in Upto(key, l)
  BY DEF Upto
<1>3. \A l \in 1 .. n : IsFiniteSet(Upto(key, l)) /\ Cardinality(Upto(key, l)) \in Nat
                        /\ Cardinality(Upto(key, l)) <= n
  BY <1>1, <1>2, FS_Subset, FS_CardinalityType
<1>4. Cardinality(Upto(key, k)) # 0
  BY <1>2, <1>3, FS_EmptySet
<1>5. ASSUME NEW l \in 1 .. n, l \in Upto(key, k), l # k
      PROVE  Cardinality(Upto(key, l)) < Cardinality(Upto(key, k))
  <2>1. Upto(key, l) \in SUBSET Upto(key, k)
    BY <1>5 DEF Upto
  <2>2. k \notin Upto(key, l)
    BY <1>5 DEF Upto
  <2>3. Cardinality(Upto(key, l)) <= Cardinality(Upto(key, k))
        /\ Cardinality(Upto(key, l)) # Cardinality(Upto(key, k))
    BY <1>2, <1>3, <2>1, <2>2, FS_Subset
  <2> QED
    BY <1>3, <2>3
<1> QED
  BY <1>3, <1>4, <1>5

\* So every place is taken, once, and a later place means a larger number.
LEMMA PlacesAreTaken ==
  ASSUME NEW n \in Nat, NEW key \in [1 .. n -> Nat]
  PROVE  /\ \A i \in 1 .. n : \E k \in 1 .. n : Cardinality(Upto(key, k)) = i
         /\ \A k, l \in 1 .. n :
              Cardinality(Upto(key, k)) < Cardinality(Upto(key, l)) => key[k] <= key[l]
         /\ \A k, l \in 1 .. n :
              Cardinality(Upto(key, k)) = Cardinality(Upto(key, l)) => k = l
<1> DEFINE at == [k \in 1 .. n |-> Cardinality(Upto(key, k))]
<1>1. \A k \in 1 .. n : at[k] = Cardinality(Upto(key, k)) /\ at[k] \in 1 .. n /\ at[k] \in Nat
  BY PlacesInOrder
<1>2. at \in [1 .. n -> 1 .. n]
  BY <1>1
<1> HIDE DEF at
<1>3. \A k, l \in 1 .. n : k # l => k \in Upto(key, l) \/ l \in Upto(key, k)
  BY DEF Upto
<1>4. \A k, l \in 1 .. n : l \in Upto(key, k) => key[l] <= key[k]
  BY DEF Upto
<1>5. ASSUME NEW k \in 1 .. n, NEW l \in 1 .. n, l \in Upto(key, k), l # k
      PROVE  at[l] < at[k]
  <2>1. Cardinality(Upto(key, l)) < Cardinality(Upto(key, k))
    BY <1>5, PlacesInOrder
  <2> QED
    BY <1>1, <2>1
<1>6. \A k, l \in 1 .. n : at[k] = at[l] => k = l
  BY <1>1, <1>3, <1>5
<1>7. \A k, l \in 1 .. n : at[k] < at[l] => key[k] <= key[l]
  BY <1>1, <1>3, <1>4, <1>5
<1>8. at \in Injection(1 .. n, 1 .. n)
  BY <1>2, <1>6 DEF Injection, IsInjective
<1>9. at \in Surjection(1 .. n, 1 .. n)
  BY <1>8, FS_Injection, FS_Interval
<1>10. \A i \in 1 .. n : \E k \in 1 .. n : at[k] = i
  BY <1>9 DEF Surjection
<1> QED
  BY <1>1, <1>6, <1>7, <1>10

-----------------------------------------------------------------------------
(* How often a queue holds an element.                                       *)

Places(s, x) == {i \in DOMAIN s : s[i] = x}
Count(s, x) == Cardinality(Places(s, x))

\* It is a number, and zero for what the queue does not hold.
LEMMA CountNat ==
  ASSUME NEW S, NEW s \in Seq(S), NEW x
  PROVE  /\ IsFiniteSet(Places(s, x)) /\ Count(s, x) \in Nat
         /\ x \notin Range(s) => Count(s, x) = 0
<1>1. Places(s, x) \in SUBSET (1 .. Len(s)) /\ Len(s) \in Nat
  BY DEF Places
<1>2. IsFiniteSet(1 .. Len(s))
  BY <1>1, FS_Interval
<1>3. IsFiniteSet(Places(s, x))
  BY <1>1, <1>2, FS_Subset
<1>4. Count(s, x) \in Nat
  BY <1>3, FS_CardinalityType DEF Count
<1>5. x \notin Range(s) => Places(s, x) = {}
  BY DEF Places, Range
<1> QED
  BY <1>3, <1>4, <1>5, FS_EmptySet DEF Count

\* Taking the head off takes one copy of it.
LEMMA CountTail ==
  ASSUME NEW S, NEW s \in Seq(S), s # <<>>, NEW x
  PROVE  Count(s, x) = Count(Tail(s), x) + (IF x = Head(s) THEN 1 ELSE 0)
<1> DEFINE rest == Places(s, x) \ {1}
           next == [i \in Places(Tail(s), x) |-> i + 1]
<1>1. /\ Len(s) \in Nat /\ Len(s) # 0 /\ DOMAIN s = 1 .. Len(s) /\ Head(s) = s[1]
      /\ DOMAIN Tail(s) = 1 .. Len(s) - 1 /\ Tail(s) \in Seq(S)
      /\ \A i \in 1 .. Len(s) - 1 : Tail(s)[i] = s[i + 1]
  OBVIOUS
<1>2. /\ \A i \in Places(Tail(s), x) : i \in 1 .. Len(s) - 1 /\ s[i + 1] = x
      /\ \A i \in 1 .. Len(s) - 1 : s[i + 1] = x => i \in Places(Tail(s), x)
      /\ \A i : i \in rest <=> i \in 1 .. Len(s) /\ i # 1 /\ s[i] = x
  BY <1>1 DEF Places
<1>3. \A i \in Places(Tail(s), x) : next[i] = i + 1 /\ i + 1 \in rest
  BY <1>1, <1>2
<1>4. \A j \in rest : j - 1 \in Places(Tail(s), x) /\ next[j - 1] = j
  BY <1>1, <1>2
<1>5. next \in [Places(Tail(s), x) -> rest]
  BY <1>3
<1>6. next \in Bijection(Places(Tail(s), x), rest)
  <2>1. \A i, j \in Places(Tail(s), x) : next[i] = next[j] => i = j
    BY <1>1, <1>2, <1>3
  <2>2. \A j \in rest : \E i \in Places(Tail(s), x) : next[i] = j
    BY <1>4
  <2> HIDE DEF next, rest
  <2> QED
    BY <1>5, <2>1, <2>2 DEF Bijection, Injection, Surjection, IsInjective
<1>7. IsFiniteSet(Places(Tail(s), x)) /\ IsFiniteSet(Places(s, x)) /\ Count(s, x) \in Nat
  BY <1>1, CountNat
<1>8. Cardinality(rest) = Count(Tail(s), x)
  BY <1>6, <1>7, FS_Bijection DEF ExistsBijection, Count
<1>9. Cardinality(rest) = IF 1 \in Places(s, x) THEN Count(s, x) - 1 ELSE Count(s, x)
  BY <1>7, FS_RemoveElement DEF Count
<1>10. 1 \in Places(s, x) <=> x = Head(s)
  BY <1>1 DEF Places
<1> HIDE DEF rest
<1> QED
  BY <1>7, <1>8, <1>9, <1>10

\* What is put at the end is counted, of a queue that did not hold it.
LEMMA CountBlock ==
  ASSUME NEW S, NEW s \in Seq(S), NEW e \in S, e \notin Range(s),
         NEW n \in Nat, NEW b \in Seq(S), Len(b) = n, \A i \in 1 .. n : b[i] = e
  PROVE  /\ s \o b \in Seq(S)
         /\ Range(s \o b) \subseteq Range(s) \cup {e}
         /\ s # <<>> => s \o b # <<>> /\ Head(s \o b) = Head(s)
         /\ Count(s \o b, e) = n
         /\ \A x : x # e => Count(s \o b, x) = Count(s, x)
<1> DEFINE t == s \o b
<1>1. Len(b) = n /\ \A i \in 1 .. n : b[i] = e
  OBVIOUS
<1>2. /\ t \in Seq(S) /\ Len(s) \in Nat /\ DOMAIN s = 1 .. Len(s)
      /\ DOMAIN t = 1 .. Len(s) + n
      /\ \A i \in 1 .. Len(s) : t[i] = s[i]
      /\ \A i \in 1 .. n : t[Len(s) + i] = b[i]
  <2>1. /\ s \o b \in Seq(S) /\ Len(s) \in Nat
        /\ \A i \in 1 .. Len(s) : (s \o b)[i] = s[i]
    BY <1>1, ConcatFacts
  <2>2. /\ DOMAIN (s \o b) = 1 .. Len(s) + Len(b)
        /\ \A i \in 1 .. Len(b) : (s \o b)[Len(s) + i] = b[i]
    <3>1. DOMAIN (s \o b) = 1 .. Len(s) + Len(b)
      BY ConcatPlaces
    <3>2. ASSUME NEW i \in 1 .. Len(b) PROVE (s \o b)[Len(s) + i] = b[i]
      BY <3>2, ConcatPlaces
    <3> QED
      BY <3>1, <3>2
  <2> QED
    BY <1>1, <2>1, <2>2
<1>3. \A i \in 1 .. Len(s) : s[i] \in Range(s)
  BY <1>2 DEF Range
<1> HIDE DEF t
<1>4. \A i \in DOMAIN t :
        \/ (i \in 1 .. Len(s) /\ t[i] = s[i])
        \/ (i \in (Len(s) + 1) .. (Len(s) + n) /\ t[i] = e)
  <2> SUFFICES ASSUME NEW i \in 1 .. Len(s) + n, i \notin 1 .. Len(s)
               PROVE  i \in Len(s) + 1 .. Len(s) + n /\ t[i] = e
    BY <1>2
  <2>1. i \in Len(s) + 1 .. Len(s) + n
    BY <1>2
  <2>2. i - Len(s) \in 1 .. n /\ Len(s) + (i - Len(s)) = i
    BY <1>2, <2>1
  <2> QED
    BY <1>1, <1>2, <2>1, <2>2
<1>5. Range(t) \subseteq Range(s) \cup {e}
  BY <1>3, <1>4 DEF Range
<1>6. s # <<>> => t # <<>> /\ Head(t) = Head(s)
  <2> SUFFICES ASSUME s # <<>> PROVE t # <<>> /\ Head(t) = Head(s)
    OBVIOUS
  <2>1. Len(s) # 0 /\ Head(s) = s[1]
    OBVIOUS
  <2>2. 1 \in DOMAIN t /\ t[1] = s[1]
    BY <1>2, <2>1
  <2>3. t # <<>> /\ Head(t) = t[1]
    BY <1>2, <2>2
  <2> QED
    BY <2>1, <2>2, <2>3
<1>7. Count(t, e) = n
  <2>1. Places(t, e) = Len(s) + 1 .. Len(s) + n
    <3>1. \A i \in Places(t, e) : i \in Len(s) + 1 .. Len(s) + n
      BY <1>3, <1>4 DEF Places
    <3>2. ASSUME NEW i \in (Len(s) + 1) .. (Len(s) + n) PROVE i \in Places(t, e)
      <4>1. i \in DOMAIN t /\ i \notin 1 .. Len(s)
        BY <1>2, <3>2
      <4> QED
        BY <1>4, <4>1 DEF Places
    <3> QED
      BY <3>1, <3>2
  <2>2. Cardinality(Len(s) + 1 .. Len(s) + n) =
          IF Len(s) + 1 > Len(s) + n THEN 0 ELSE (Len(s) + n) - (Len(s) + 1) + 1
    <3>1. Len(s) + 1 \in Int /\ Len(s) + n \in Int
      BY <1>2
    <3> QED
      BY <3>1, FS_Interval
  <2> QED
    BY <1>2, <2>1, <2>2 DEF Count
<1>8. ASSUME NEW x, x # e PROVE Count(t, x) = Count(s, x)
  <2>1. /\ \A i \in Places(t, x) : i \in 1 .. Len(s) /\ s[i] = x
        /\ \A i \in Places(s, x) : i \in DOMAIN t /\ t[i] = x
    BY <1>2, <1>4, <1>8 DEF Places
  <2>2. Places(t, x) = Places(s, x)
    BY <1>2, <2>1 DEF Places
  <2> QED
    BY <2>2 DEF Count
<1> QED
  BY <1>2, <1>5, <1>6, <1>7, <1>8 DEF t
-----------------------------------------------------------------------------
(* Induction without an operator: what is false of some number is false of a *)
(* least one.                                                                *)

\* Every set of naturals that is not empty has a least element.
LEMMA LeastNatural ==
  ASSUME NEW T, T \subseteq Nat, T # {}
  PROVE  \E n \in T : \A m \in T : n \leq m
<1> DEFINE Below == {0 .. n : n \in T}
<1>1. Below \subseteq FiniteSubsetsOf(Nat) /\ Below # {}
  <2>1. ASSUME NEW n \in T PROVE 0 .. n \in FiniteSubsetsOf(Nat)
    <3>1. n \in Nat /\ 0 .. n \subseteq Nat
      OBVIOUS
    <3> QED
      BY <3>1, FS_Interval DEF FiniteSubsetsOf
  <2> QED
    BY <2>1
<1>2. PICK x \in Below : \A y \in Below : ~(<<y, x>> \in StrictSubsetOrdering(Nat))
  <2> HIDE DEF Below
  <2> QED
    BY <1>1, WFMin, FS_StrictSubsetOrderingWellFounded
<1>3. PICK n \in T : x = 0 .. n
  OBVIOUS
<1>4. ASSUME NEW m \in T, ~(n \leq m) PROVE FALSE
  <2>1. n \in Nat /\ m \in Nat /\ m < n
    BY <1>4
  <2>2. 0 .. m \subseteq 0 .. n /\ 0 .. m # 0 .. n
    BY <2>1
  <2>3. 0 .. m \in SUBSET Nat /\ 0 .. n \in SUBSET Nat
    BY <2>1
  <2> QED
    BY <1>2, <1>3, <2>2, <2>3 DEF StrictSubsetOrdering
<1> QED
  BY <1>4
=============================================================================
