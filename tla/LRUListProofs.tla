---------------------------- MODULE LRUListProofs ----------------------------
(***************************************************************************)
(* Facts about the operators of LRUList, for lists over any set.           *)
(***************************************************************************)
EXTENDS LRUList, FiniteSetTheorems, SequenceTheorems,
        WellFoundedInduction, TLAPS

\* r is s without some of its entries, in the order of s.
Sublist(r, s) ==
  \E f \in [1 .. Len(r) -> 1 .. Len(s)] :
     /\ \A a, b \in 1 .. Len(r) : a < b => f[a] < f[b]
     /\ \A a \in 1 .. Len(r) : r[a] = s[f[a]]

\* There are n positions in a list of n entries.
LEMMA IntervalSize ==
  ASSUME NEW n \in Nat
  PROVE  IsFiniteSet(1 .. n) /\ Cardinality(1 .. n) = n
<1>1. 1 \in Int /\ n \in Int
  OBVIOUS
<1>2. /\ IsFiniteSet(1 .. n)
      /\ Cardinality(1 .. n) = IF 1 > n THEN 0 ELSE n - 1 + 1
  BY ONLY <1>1, FS_Interval
<1>3. (IF 1 > n THEN 0 ELSE n - 1 + 1) = n
  OBVIOUS
<1>4. QED
  BY <1>2, <1>3

(***************************************************************************)
(* Erasing and relocating one node.                                        *)
(***************************************************************************)

\* Erasing the node at position i shifts what stood behind it and keeps the rest.
LEMMA RemoveAtProperties ==
  ASSUME NEW S, NEW s \in Seq(S), NEW i \in 1 .. Len(s)
  PROVE  /\ RemoveAt(s, i) \in Seq(S)
         /\ Len(RemoveAt(s, i)) = Len(s) - 1
         /\ \A j \in 1 .. (Len(s) - 1) :
               RemoveAt(s, i)[j] = IF j < i THEN s[j] ELSE s[j + 1]
<1> DEFINE a == SubSeq(s, 1, i - 1)
           b == SubSeq(s, i + 1, Len(s))
<1>1. Len(s) \in Nat /\ \A j \in 1 .. Len(s) : s[j] \in S
  BY LenProperties
<1>2. /\ a \in Seq(S)
      /\ Len(a) = i - 1
      /\ \A j \in 1 .. (i - 1) : a[j] = s[j]
  BY <1>1, SubSeqProperties, 1 \in Int, i - 1 \in Int
<1>3. /\ b \in Seq(S)
      /\ Len(b) = Len(s) - i
      /\ \A j \in 1 .. (Len(s) - i) : b[j] = s[i + j]
  BY <1>1, SubSeqProperties, i + 1 \in Int, Len(s) \in Int
<1> HIDE DEF a, b
<1>4. /\ a \o b \in Seq(S)
      /\ Len(a \o b) = Len(a) + Len(b)
      /\ \A j \in 1 .. (Len(a) + Len(b)) :
            (a \o b)[j] = IF j <= Len(a) THEN a[j] ELSE b[j - Len(a)]
  BY <1>2, <1>3, ConcatProperties
<1>5. RemoveAt(s, i) = a \o b
  BY DEF RemoveAt, a, b
<1>6. ASSUME NEW j \in 1 .. (Len(s) - 1)
      PROVE  (a \o b)[j] = IF j < i THEN s[j] ELSE s[j + 1]
  <2>1. CASE j < i
    BY <1>1, <1>2, <1>3, <1>4, <2>1
  <2>2. CASE ~(j < i)
    <3>1. (a \o b)[j] = b[j - (i - 1)]
      BY <1>1, <1>2, <1>3, <1>4, <2>2
    <3>2. j - (i - 1) \in 1 .. (Len(s) - i) /\ i + (j - (i - 1)) = j + 1
      BY <1>1, <2>2
    <3>3. QED
      BY <1>3, <2>2, <3>1, <3>2
  <2>3. QED
    BY <2>1, <2>2
<1>7. QED
  BY <1>1, <1>2, <1>3, <1>4, <1>5, <1>6

\* Relocating an entry to the end shifts what stood behind it.
LEMMA RelocatedProperties ==
  ASSUME NEW S, NEW s \in Seq(S), NEW i \in 1 .. Len(s)
  PROVE  /\ Relocated(s, i) \in Seq(S)
         /\ Len(Relocated(s, i)) = Len(s)
         /\ \A j \in 1 .. (Len(s) - 1) :
               Relocated(s, i)[j] = IF j < i THEN s[j] ELSE s[j + 1]
         /\ Relocated(s, i)[Len(s)] = s[i]
<1> DEFINE r == RemoveAt(s, i)
<1>1. /\ r \in Seq(S)
      /\ Len(r) = Len(s) - 1
      /\ \A j \in 1 .. (Len(s) - 1) : r[j] = IF j < i THEN s[j] ELSE s[j + 1]
  BY RemoveAtProperties
<1>2. s[i] \in S /\ Len(s) \in Nat
  BY LenProperties
<1> HIDE DEF r
<1>3. /\ Append(r, s[i]) \in Seq(S)
      /\ Len(Append(r, s[i])) = Len(r) + 1
      /\ \A j \in 1 .. Len(r) : Append(r, s[i])[j] = r[j]
      /\ Append(r, s[i])[Len(r) + 1] = s[i]
  BY <1>1, <1>2, AppendProperties
<1>4. QED
  BY <1>1, <1>2, <1>3 DEF Relocated, r

(***************************************************************************)
(* Sublists keep distinctness and length.                                  *)
(***************************************************************************)
LEMMA SublistKeeps ==
  ASSUME NEW S, NEW s \in Seq(S), NEW r \in Seq(S), Sublist(r, s)
  PROVE  /\ IsInjective(s) => IsInjective(r)
         /\ Range(r) \subseteq Range(s)
         /\ Len(r) <= Len(s)
<1>1. PICK f \in [1 .. Len(r) -> 1 .. Len(s)] :
         /\ \A a, b \in 1 .. Len(r) : a < b => f[a] < f[b]
         /\ \A a \in 1 .. Len(r) : r[a] = s[f[a]]
  BY DEF Sublist
<1>2. /\ DOMAIN r = 1 .. Len(r) /\ Len(r) \in Nat
      /\ DOMAIN s = 1 .. Len(s) /\ Len(s) \in Nat
  BY LenProperties
<1>3. f \in Injection(1 .. Len(r), 1 .. Len(s))
  <2>1. ASSUME NEW a \in 1 .. Len(r), NEW b \in 1 .. Len(r), f[a] = f[b]
        PROVE  a = b
    <3>1. f[a] \in Nat /\ f[b] \in Nat /\ a \in Nat /\ b \in Nat
      BY <1>2
    <3>2. ~(f[a] < f[b]) /\ ~(f[b] < f[a])
      BY <2>1, <3>1
    <3>3. ~(a < b) /\ ~(b < a)
      BY <1>1, <3>2
    <3>4. QED
      BY <3>1, <3>3
  <2>2. QED
    BY <2>1 DEF Injection, IsInjective
<1>4. IsInjective(s) => IsInjective(r)
  <2> SUFFICES ASSUME IsInjective(s), NEW a \in 1 .. Len(r), NEW b \in 1 .. Len(r),
                      r[a] = r[b]
               PROVE  a = b
    BY <1>2 DEF IsInjective
  <2>1. f[a] = f[b]
    BY <1>1, <1>2 DEF IsInjective
  <2>2. QED
    BY <1>3, <2>1 DEF Injection, IsInjective
<1>5. Range(r) \subseteq Range(s)
  BY <1>1, <1>2 DEF Range
<1>6. Len(r) <= Len(s)
  <2>1. Cardinality(1 .. Len(r)) = Len(r) /\ Cardinality(1 .. Len(s)) = Len(s)
    BY <1>2, IntervalSize
  <2>2. IsFiniteSet(1 .. Len(s))
    BY <1>2, FS_Interval
  <2>3. Cardinality(1 .. Len(r)) <= Cardinality(1 .. Len(s))
    BY <1>3, <2>2, FS_Injection
  <2>4. QED
    BY <2>1, <2>3
<1>7. QED
  BY <1>4, <1>5, <1>6

\* A list is a part of itself.
LEMMA SublistReflexive ==
  ASSUME NEW S, NEW s \in Seq(S)
  PROVE  Sublist(s, s)
<1>1. [a \in 1 .. Len(s) |-> a] \in [1 .. Len(s) -> 1 .. Len(s)]
  OBVIOUS
<1>2. QED
  BY <1>1 DEF Sublist

\* A part of a part is a part.
LEMMA SublistTransitive ==
  ASSUME NEW S, NEW s \in Seq(S), NEW r \in Seq(S), NEW q \in Seq(S),
         Sublist(r, s), Sublist(q, r)
  PROVE  Sublist(q, s)
<1>1. PICK f \in [1 .. Len(r) -> 1 .. Len(s)] :
         /\ \A a, b \in 1 .. Len(r) : a < b => f[a] < f[b]
         /\ \A a \in 1 .. Len(r) : r[a] = s[f[a]]
  BY DEF Sublist
<1>2. PICK g \in [1 .. Len(q) -> 1 .. Len(r)] :
         /\ \A a, b \in 1 .. Len(q) : a < b => g[a] < g[b]
         /\ \A a \in 1 .. Len(q) : q[a] = r[g[a]]
  BY DEF Sublist
<1> DEFINE h == [a \in 1 .. Len(q) |-> f[g[a]]]
<1>3. h \in [1 .. Len(q) -> 1 .. Len(s)]
  BY <1>1, <1>2
<1>4. \A a, b \in 1 .. Len(q) : a < b => h[a] < h[b]
  BY <1>1, <1>2
<1>5. \A a \in 1 .. Len(q) : q[a] = s[h[a]]
  BY <1>1, <1>2
<1>6. QED
  BY <1>3, <1>4, <1>5 DEF Sublist

(***************************************************************************)
(* The operations produce sublists.                                        *)
(***************************************************************************)
LEMMA RemoveAtSublist ==
  ASSUME NEW S, NEW s \in Seq(S), NEW i \in 1 .. Len(s)
  PROVE  Sublist(RemoveAt(s, i), s)
<1> DEFINE r == RemoveAt(s, i)
           f == [a \in 1 .. Len(r) |-> IF a < i THEN a ELSE a + 1]
<1>1. /\ Len(r) = Len(s) - 1
      /\ \A j \in 1 .. (Len(s) - 1) : r[j] = IF j < i THEN s[j] ELSE s[j + 1]
  BY RemoveAtProperties
<1>2. Len(s) \in Nat
  BY LenProperties
<1> HIDE DEF r
<1>3. f \in [1 .. Len(r) -> 1 .. Len(s)]
  BY <1>1, <1>2
<1>4. \A a, b \in 1 .. Len(r) : a < b => f[a] < f[b]
  BY <1>1, <1>2
<1>5. \A a \in 1 .. Len(r) : r[a] = s[f[a]]
  BY <1>1, <1>2
<1>6. Sublist(r, s)
  BY <1>3, <1>4, <1>5 DEF Sublist
<1>7. QED
  BY <1>6 DEF r

\* All but the first is a part.
LEMMA TailSublist ==
  ASSUME NEW S, NEW s \in Seq(S), s # <<>>
  PROVE  /\ Tail(s) \in Seq(S)
         /\ Len(Tail(s)) = Len(s) - 1
         /\ Sublist(Tail(s), s)
<1> DEFINE r == Tail(s)
           f == [a \in 1 .. Len(r) |-> a + 1]
<1>1. /\ r \in Seq(S)
      /\ Len(r) = Len(s) - 1
      /\ \A j \in 1 .. Len(r) : r[j] = s[j + 1]
  BY HeadTailProperties
<1>2. Len(s) \in Nat
  BY LenProperties
<1> HIDE DEF r
<1>3. f \in [1 .. Len(r) -> 1 .. Len(s)]
  BY <1>1, <1>2
<1>4. \A a, b \in 1 .. Len(r) : a < b => f[a] < f[b]
  BY <1>1, <1>2
<1>5. \A a \in 1 .. Len(r) : r[a] = s[f[a]]
  BY <1>1
<1>6. Sublist(r, s)
  BY <1>3, <1>4, <1>5 DEF Sublist
<1>7. QED
  BY <1>1, <1>6 DEF r

\* Erasing a pair from a list without duplicates removes every copy of it.
LEMMA ErasePairProperties ==
  ASSUME NEW S, NEW s \in Seq(S), NEW k, NEW v
  PROVE  /\ ErasePair(s, k, v) \in Seq(S)
         /\ Sublist(ErasePair(s, k, v), s)
         /\ IsInjective(s) => <<k, v>> \notin Range(ErasePair(s, k, v))
<1> DEFINE p == <<k, v>>
           i == PairPosition(s, k, v)
<1>1. CASE ~HasPair(s, k, v)
  BY <1>1, SublistReflexive DEF ErasePair, HasPair
<1>2. CASE HasPair(s, k, v)
  <2>1. DOMAIN s = 1 .. Len(s) /\ Len(s) \in Nat
    BY LenProperties
  <2>2. i \in 1 .. Len(s) /\ s[i] = p
    BY <1>2, <2>1 DEF HasPair, PairPosition, Range
  <2> HIDE DEF i
  <2> DEFINE r == RemoveAt(s, i)
  <2>3. /\ r \in Seq(S)
        /\ Len(r) = Len(s) - 1
        /\ \A j \in 1 .. (Len(s) - 1) : r[j] = IF j < i THEN s[j] ELSE s[j + 1]
        /\ Sublist(r, s)
    BY <2>2, RemoveAtProperties, RemoveAtSublist
  <2>4. DOMAIN r = 1 .. (Len(s) - 1)
    BY <2>3, LenProperties
  <2> HIDE DEF r
  <2>5. ASSUME IsInjective(s), NEW j \in 1 .. (Len(s) - 1), r[j] = p
        PROVE  FALSE
    <3>1. CASE j < i
      <4>1. s[j] = s[i] /\ j \in 1 .. Len(s)
        BY <2>1, <2>2, <2>3, <2>5, <3>1
      <4>2. j = i
        BY <2>1, <2>2, <2>5, <4>1 DEF IsInjective
      <4>3. QED
        BY <2>1, <2>2, <3>1, <4>2
    <3>2. CASE ~(j < i)
      <4>1. s[j + 1] = s[i] /\ j + 1 \in 1 .. Len(s)
        BY <2>1, <2>2, <2>3, <2>5, <3>2
      <4>2. j + 1 = i
        BY <2>1, <2>2, <2>5, <4>1 DEF IsInjective
      <4>3. QED
        BY <2>1, <2>2, <3>2, <4>2
    <3>3. QED
      BY <3>1, <3>2
  <2>6. IsInjective(s) => p \notin Range(r)
    BY <2>4, <2>5 DEF Range
  <2>7. ErasePair(s, k, v) = r
    BY <1>2 DEF ErasePair, r, i
  <2>8. QED
    BY <2>3, <2>6, <2>7
<1>3. QED
  BY <1>1, <1>2

\* Evicting one entry from a list within its capacity makes room for one.
LEMMA EvictIfFullProperties ==
  ASSUME NEW S, NEW s \in Seq(S), NEW cap \in Nat, cap # 0 => Len(s) <= cap
  PROVE  /\ EvictIfFull(s, cap) \in Seq(S)
         /\ Sublist(EvictIfFull(s, cap), s)
         /\ cap # 0 => Len(EvictIfFull(s, cap)) <= cap - 1
<1>1. Len(s) \in Nat
  BY LenProperties
<1>2. CASE cap # 0 /\ Len(s) >= cap
  <2>1. s # <<>>
    BY <1>1, <1>2, EmptySeq
  <2>2. QED
    BY <1>1, <1>2, <2>1, TailSublist DEF EvictIfFull
<1>3. CASE ~(cap # 0 /\ Len(s) >= cap)
  BY <1>1, <1>3, SublistReflexive DEF EvictIfFull
<1>4. QED
  BY <1>2, <1>3

\* A put leaves a list without duplicates and within its capacity, with the new
\* pair last.
LEMMA InsertedProperties ==
  ASSUME NEW S, NEW s \in Seq(S), NEW cap \in Nat, NEW k, NEW v, <<k, v>> \in S,
         cap # 0 => Len(s) <= cap
  PROVE  /\ Inserted(s, cap, k, v) \in Seq(S)
         /\ IsInjective(s) => IsInjective(Inserted(s, cap, k, v))
         /\ cap # 0 => Len(Inserted(s, cap, k, v)) <= cap
<1> DEFINE p == <<k, v>>
           e == ErasePair(s, k, v)
           r == EvictIfFull(e, cap)
           q == Append(r, p)
<1>1. /\ e \in Seq(S)
      /\ Sublist(e, s)
      /\ IsInjective(s) => p \notin Range(e)
  BY ErasePairProperties
<1> HIDE DEF e
<1>2. /\ Len(e) <= Len(s)
      /\ IsInjective(s) => IsInjective(e)
  BY <1>1, SublistKeeps
<1>3. Len(e) \in Nat /\ Len(s) \in Nat
  BY <1>1, LenProperties
<1>4. cap # 0 => Len(e) <= cap
  BY <1>2, <1>3
<1>5. /\ r \in Seq(S)
      /\ Sublist(r, e)
      /\ cap # 0 => Len(r) <= cap - 1
  BY <1>1, <1>4, EvictIfFullProperties
<1> HIDE DEF r
<1>6. /\ Range(r) \subseteq Range(e)
      /\ IsInjective(e) => IsInjective(r)
  BY <1>1, <1>5, SublistKeeps
<1>7. DOMAIN r = 1 .. Len(r) /\ Len(r) \in Nat
  BY <1>5, LenProperties
<1>8. /\ q \in Seq(S)
      /\ Len(q) = Len(r) + 1
      /\ \A j \in 1 .. Len(r) : q[j] = r[j]
      /\ q[Len(r) + 1] = p
  BY <1>5, AppendProperties
<1>9. DOMAIN q = 1 .. (Len(r) + 1)
  BY <1>8, LenProperties
<1> HIDE DEF q
<1>10. ASSUME IsInjective(s)
       PROVE  IsInjective(q)
  <2>1. IsInjective(r) /\ \A j \in 1 .. Len(r) : r[j] # p
    BY <1>1, <1>2, <1>6, <1>7, <1>10 DEF Range
  <2> SUFFICES ASSUME NEW a \in 1 .. (Len(r) + 1), NEW b \in 1 .. (Len(r) + 1),
                      q[a] = q[b]
               PROVE  a = b
    BY <1>9 DEF IsInjective
  <2>2. CASE a \in 1 .. Len(r) /\ b \in 1 .. Len(r)
    BY <1>7, <1>8, <2>1, <2>2 DEF IsInjective
  <2>3. CASE a = Len(r) + 1 /\ b = Len(r) + 1
    BY <2>3
  <2>4. CASE a \in 1 .. Len(r) /\ b = Len(r) + 1
    BY <1>8, <2>1, <2>4
  <2>5. CASE a = Len(r) + 1 /\ b \in 1 .. Len(r)
    BY <1>8, <2>1, <2>5
  <2>6. QED
    BY <1>7, <2>2, <2>3, <2>4, <2>5
<1>11. Inserted(s, cap, k, v) = q
  BY DEF Inserted, q, r, e
<1>12. QED
  BY <1>5, <1>7, <1>8, <1>10, <1>11

\* Relocating an entry neither duplicates nor loses one.
LEMMA RelocatedKeeps ==
  ASSUME NEW S, NEW s \in Seq(S), NEW i \in 1 .. Len(s)
  PROVE  /\ IsInjective(s) => IsInjective(Relocated(s, i))
         /\ Range(Relocated(s, i)) = Range(s)
<1> DEFINE r == Relocated(s, i)
           n == Len(s)
           f == [j \in 1 .. n |-> IF j = n THEN i ELSE IF j < i THEN j ELSE j + 1]
           g == [j \in 1 .. n |-> IF j = i THEN n ELSE IF j < i THEN j ELSE j - 1]
<1>1. /\ r \in Seq(S)
      /\ Len(r) = n
      /\ \A j \in 1 .. (n - 1) : r[j] = IF j < i THEN s[j] ELSE s[j + 1]
      /\ r[n] = s[i]
  BY RelocatedProperties
<1>2. n \in Nat /\ DOMAIN s = 1 .. n
  BY LenProperties
<1>3. DOMAIN r = 1 .. n
  BY <1>1, LenProperties
<1> HIDE DEF r, n
<1>4. f \in [1 .. n -> 1 .. n] /\ g \in [1 .. n -> 1 .. n]
  BY <1>2 DEF n
<1>5. ASSUME NEW j \in 1 .. n
      PROVE  f[g[j]] = j
  <2>1. g[j] = IF j = i THEN n ELSE IF j < i THEN j ELSE j - 1
    OBVIOUS
  <2>2. g[j] \in 1 .. n
    BY <1>4
  <2>3. f[g[j]] = IF g[j] = n THEN i ELSE IF g[j] < i THEN g[j] ELSE g[j] + 1
    BY <2>2
  <2>4. i \in 1 .. n /\ n \in Nat
    BY <1>2 DEF n
  <2> HIDE DEF f, g
  <2>5. QED
    BY <2>1, <2>3, <2>4
<1>6. ASSUME NEW j \in 1 .. n
       PROVE  g[f[j]] = j
  <2>1. f[j] = IF j = n THEN i ELSE IF j < i THEN j ELSE j + 1
    OBVIOUS
  <2>2. f[j] \in 1 .. n
    BY <1>4
  <2>3. g[f[j]] = IF f[j] = i THEN n ELSE IF f[j] < i THEN f[j] ELSE f[j] - 1
    BY <2>2
  <2>4. i \in 1 .. n /\ n \in Nat
    BY <1>2 DEF n
  <2> HIDE DEF f, g
  <2>5. QED
    BY <2>1, <2>3, <2>4
<1>7. \A j \in 1 .. n : r[j] = s[f[j]]
  BY <1>1, <1>2 DEF n
<1> HIDE DEF f, g
<1>8. IsInjective(s) => IsInjective(r)
  <2> SUFFICES ASSUME IsInjective(s), NEW a \in 1 .. n, NEW b \in 1 .. n, r[a] = r[b]
               PROVE  a = b
    BY <1>3 DEF IsInjective
  <2>1. f[a] = f[b]
    BY <1>2, <1>4, <1>7 DEF IsInjective
  <2>2. QED
    BY <1>6, <2>1
<1>9. Range(r) \subseteq Range(s)
  BY <1>2, <1>3, <1>4, <1>7 DEF Range
<1>10. ASSUME NEW j \in 1 .. n
      PROVE  \E h \in 1 .. n : r[h] = s[j]
  BY <1>4, <1>5, <1>7
<1>11. Range(s) \subseteq Range(r)
  BY <1>2, <1>3, <1>10 DEF Range
<1>12. QED
  BY <1>8, <1>9, <1>11 DEF r

\* Erasing a range of positions leaves a sublist.
LEMMA WithoutSublist ==
  ASSUME NEW S, NEW s \in Seq(S), NEW gone, NEW r \in Without(s, gone)
  PROVE  r \in Seq(S) /\ Sublist(r, s)
<1> DEFINE kept == DOMAIN s \ gone
           n == Cardinality(kept)
<1>1. DOMAIN s = 1 .. Len(s) /\ Len(s) \in Nat /\ \A j \in 1 .. Len(s) : s[j] \in S
  BY LenProperties
<1>2. n \in Nat
  <2>1. IsFiniteSet(1 .. Len(s))
    BY <1>1, IntervalSize
  <2>2. IsFiniteSet(kept)
    BY <1>1, <2>1, FS_Subset
  <2>3. QED
    BY <2>2, FS_CardinalityType
<1>3. PICK f \in [1 .. n -> kept] :
         /\ \A a, b \in 1 .. n : a < b => f[a] < f[b]
         /\ r = [j \in 1 .. n |-> s[f[j]]]
  BY DEF Without
<1> HIDE DEF n
<1>4. kept \subseteq 1 .. Len(s)
  BY <1>1
<1> HIDE DEF kept
<1>5. \A j \in 1 .. n : s[f[j]] \in S
  BY <1>1, <1>3, <1>4
<1>6. r \in Seq(S) /\ Len(r) = n
  BY <1>2, <1>3, <1>5
<1>7. f \in [1 .. Len(r) -> 1 .. Len(s)]
  BY <1>3, <1>4, <1>6
<1>8. QED
  BY <1>3, <1>6, <1>7 DEF Sublist

\* A set of positions has a least one: the intervals from 1 to its members are
\* well-founded under inclusion.
LEMMA LeastPosition ==
  ASSUME NEW P, P \subseteq Nat, P # {}
  PROVE  \E i \in P : \A j \in P : i <= j
<1> DEFINE R == StrictSubsetOrdering(Nat)
           T == {1 .. i : i \in P}
<1>1. T \subseteq FiniteSubsetsOf(Nat) /\ T # {}
  <2>1. ASSUME NEW i \in P
        PROVE  1 .. i \in SUBSET Nat /\ IsFiniteSet(1 .. i)
    BY IntervalSize
  <2>2. ASSUME NEW i \in P
        PROVE  1 .. i \in FiniteSubsetsOf(Nat)
    BY <2>1 DEF FiniteSubsetsOf
  <2>3. QED
    BY <2>2
<1>2. \E X \in T : \A Y \in T : <<Y, X>> \notin R
  <2> HIDE DEF R, T
  <2>1. IsWellFoundedOn(R, FiniteSubsetsOf(Nat))
    BY FS_StrictSubsetOrderingWellFounded DEF R
  <2>2. QED
    BY <1>1, <2>1, WFMin
<1>3. PICK i \in P : \A j \in P : <<1 .. j, 1 .. i>> \notin R
  BY <1>2
<1>4. ASSUME NEW j \in P, j < i
      PROVE  FALSE
  <2>1. 1 .. j \subseteq 1 .. i /\ i \in 1 .. i /\ i \notin 1 .. j
    BY <1>4
  <2>2. 1 .. j \in SUBSET Nat /\ 1 .. i \in SUBSET Nat /\ 1 .. j # 1 .. i
    BY <2>1
  <2>3. QED
    BY <1>3, <2>1, <2>2 DEF StrictSubsetOrdering
<1>5. \A j \in P : i <= j
  BY <1>4
<1>6. QED
  BY <1>5

\* The least recently used entry of a key that has one.
LEMMA LruPositionProperties ==
  ASSUME NEW S, NEW s \in Seq(S), NEW k, HasKey(s, k)
  PROVE  /\ LruPosition(s, k) \in 1 .. Len(s)
         /\ LruPosition(s, k) \in Positions(s, k)
         /\ \A j \in Positions(s, k) : LruPosition(s, k) <= j
<1>1. DOMAIN s = 1 .. Len(s) /\ Len(s) \in Nat
  BY LenProperties
<1>2. Positions(s, k) \subseteq 1 .. Len(s) /\ Positions(s, k) # {}
  BY <1>1 DEF Positions, HasKey
<1> HIDE DEF Positions
<1>3. Positions(s, k) \subseteq Nat
  BY <1>2
<1>4. \E i \in Positions(s, k) : \A j \in Positions(s, k) : i <= j
  BY <1>2, <1>3, LeastPosition
<1>5. QED
  BY <1>2, <1>4 DEF LruPosition

(***************************************************************************)
(* What the operations do to the set of entries.                           *)
(***************************************************************************)

\* An entry of a list without duplicates is not among the others.
LEMMA RemoveAtRange ==
  ASSUME NEW S, NEW s \in Seq(S), IsInjective(s), NEW i \in 1 .. Len(s)
  PROVE  Range(RemoveAt(s, i)) = Range(s) \ {s[i]}
<1> DEFINE r == RemoveAt(s, i)
<1>1. /\ r \in Seq(S)
      /\ Len(r) = Len(s) - 1
      /\ \A j \in 1 .. (Len(s) - 1) : r[j] = IF j < i THEN s[j] ELSE s[j + 1]
  BY RemoveAtProperties
<1>2. Len(s) \in Nat /\ DOMAIN s = 1 .. Len(s) /\ DOMAIN r = 1 .. (Len(s) - 1)
  BY <1>1, LenProperties
<1> HIDE DEF r
<1>3. ASSUME NEW j \in 1 .. (Len(s) - 1)
      PROVE  \E h \in 1 .. Len(s) : h # i /\ r[j] = s[h]
  <2>1. CASE j < i
    BY <1>1, <1>2, <2>1
  <2>2. CASE ~(j < i)
    <3>1. j + 1 \in 1 .. Len(s) /\ j + 1 # i /\ r[j] = s[j + 1]
      BY <1>1, <1>2, <2>2
    <3>2. QED
      BY <3>1
  <2>3. QED
    BY <2>1, <2>2
<1>4. ASSUME NEW h \in 1 .. Len(s), h # i
      PROVE  \E j \in 1 .. (Len(s) - 1) : r[j] = s[h]
  <2>1. CASE h < i
    <3>1. h \in 1 .. (Len(s) - 1) /\ r[h] = s[h]
      BY <1>1, <1>2, <2>1
    <3>2. QED
      BY <3>1
  <2>2. CASE ~(h < i)
    <3>1. h - 1 \in 1 .. (Len(s) - 1) /\ ~(h - 1 < i) /\ (h - 1) + 1 = h
      BY <1>2, <1>4, <2>2
    <3>2. QED
      BY <1>1, <3>1
  <2>3. QED
    BY <2>1, <2>2
<1>5. \A h \in 1 .. Len(s) : s[h] = s[i] => h = i
  BY <1>2 DEF IsInjective
<1>6. Range(s) = {s[h] : h \in 1 .. Len(s)} /\ Range(r) = {r[j] : j \in 1 .. (Len(s) - 1)}
  BY <1>2 DEF Range
<1>7. ASSUME NEW x \in Range(r)
      PROVE  x \in Range(s) /\ x # s[i]
  BY <1>3, <1>5, <1>6
<1>8. ASSUME NEW x \in Range(s), x # s[i]
      PROVE  x \in Range(r)
  BY <1>4, <1>6, <1>8
<1>9. QED
  BY <1>7, <1>8 DEF r

\* A list without duplicates has as many entries as there are different ones.
LEMMA RangeSize ==
  ASSUME NEW S, NEW s \in Seq(S), IsInjective(s)
  PROVE  IsFiniteSet(Range(s)) /\ Cardinality(Range(s)) = Len(s)
<1>1. s \in [1 .. Len(s) -> S] /\ Len(s) \in Nat
  BY LenProperties
<1>2. IsFiniteSet(1 .. Len(s)) /\ Cardinality(1 .. Len(s)) = Len(s)
  BY <1>1, IntervalSize
<1>3. s \in Surjection(1 .. Len(s), Range(s)) /\ s \in Injection(1 .. Len(s), Range(s))
  BY <1>1 DEF Surjection, Injection, IsInjective, Range
<1>4. QED
  BY <1>2, <1>3, FS_Surjection

\* The entries of a list with one more.
LEMMA AppendRange ==
  ASSUME NEW S, NEW r \in Seq(S), NEW p \in S
  PROVE  Range(Append(r, p)) = Range(r) \cup {p}
<1> DEFINE n == Len(r)
           s == Append(r, p)
<1>1. n \in Nat /\ DOMAIN r = 1 .. n
  BY LenProperties
<1>2. /\ s \in Seq(S)
      /\ Len(s) = n + 1
      /\ \A j \in 1 .. n : s[j] = r[j]
      /\ s[n + 1] = p
  BY AppendProperties
<1>3. DOMAIN s = 1 .. (n + 1)
  BY <1>2, LenProperties
<1> HIDE DEF n, s
<1>4. ASSUME NEW x \in Range(s)
      PROVE  x \in Range(r) \cup {p}
  <2>1. PICK j \in 1 .. (n + 1) : x = s[j]
    BY <1>3 DEF Range
  <2>2. j \in 1 .. n \/ j = n + 1
    BY <1>1
  <2>3. QED
    BY <1>1, <1>2, <2>1, <2>2 DEF Range
<1>5. ASSUME NEW j \in 1 .. n
      PROVE  r[j] \in Range(s)
  <2>1. j \in 1 .. (n + 1) /\ s[j] = r[j]
    BY <1>1, <1>2
  <2>2. QED
    BY <1>3, <2>1 DEF Range
<1>6. p \in Range(s)
  <2>1. n + 1 \in 1 .. (n + 1)
    BY <1>1
  <2>2. QED
    BY <1>2, <1>3, <2>1 DEF Range
<1>7. Range(r) \subseteq Range(s)
  BY <1>1, <1>5 DEF Range
<1>8. QED
  BY <1>4, <1>6, <1>7 DEF s

\* All but the first of a list without duplicates.
LEMMA TailRange ==
  ASSUME NEW S, NEW s \in Seq(S), IsInjective(s), s # <<>>
  PROVE  1 \in DOMAIN s /\ Range(Tail(s)) = Range(s) \ {s[1]}
<1> DEFINE r == Tail(s)
<1>1. /\ r \in Seq(S)
      /\ Len(r) = Len(s) - 1
      /\ \A j \in 1 .. Len(r) : r[j] = s[j + 1]
  BY HeadTailProperties
<1>2. /\ Len(s) \in Nat /\ DOMAIN s = 1 .. Len(s)
      /\ Len(r) \in Nat /\ DOMAIN r = 1 .. Len(r)
  BY <1>1, LenProperties
<1> HIDE DEF r
<1>3. 1 \in 1 .. Len(s)
  BY <1>1, <1>2
<1>4. ASSUME NEW x \in Range(r)
      PROVE  x \in Range(s) /\ x # s[1]
  <2>1. PICK j \in 1 .. Len(r) : x = r[j]
    BY <1>2, <1>4 DEF Range
  <2>2. j + 1 \in 1 .. Len(s) /\ j + 1 # 1 /\ x = s[j + 1]
    BY <1>1, <1>2, <2>1
  <2>3. QED
    BY <1>2, <1>3, <2>2 DEF Range, IsInjective
<1>5. ASSUME NEW x \in Range(s), x # s[1]
      PROVE  x \in Range(r)
  <2>1. PICK h \in 1 .. Len(s) : x = s[h]
    BY <1>2, <1>5 DEF Range
  <2>2. h - 1 \in 1 .. Len(r) /\ (h - 1) + 1 = h
    BY <1>1, <1>2, <1>5, <2>1
  <2>3. x = r[h - 1]
    BY <1>1, <2>1, <2>2
  <2>4. QED
    BY <1>2, <2>2, <2>3 DEF Range
<1>6. QED
  BY <1>2, <1>3, <1>4, <1>5 DEF r

\* remove(key) erases the key's pairs and no others.
LEMMA WithoutRange ==
  ASSUME NEW S, NEW s \in Seq(S), NEW gone, NEW r \in Without(s, gone)
  PROVE  Range(r) = {s[i] : i \in DOMAIN s \ gone}
<1> DEFINE kept == DOMAIN s \ gone
           n == Cardinality(kept)
<1>1. DOMAIN s = 1 .. Len(s) /\ Len(s) \in Nat
  BY LenProperties
<1>2. IsFiniteSet(kept) /\ n \in Nat
  <2>1. IsFiniteSet(1 .. Len(s))
    BY <1>1, IntervalSize
  <2>2. IsFiniteSet(kept)
    BY <1>1, <2>1, FS_Subset
  <2>3. QED
    BY <2>2, FS_CardinalityType
<1>3. PICK f \in [1 .. n -> kept] :
         /\ \A a, b \in 1 .. n : a < b => f[a] < f[b]
         /\ r = [j \in 1 .. n |-> s[f[j]]]
  BY DEF Without
<1>4. kept \subseteq Nat
  BY <1>1
<1> HIDE DEF n
<1>5. IsFiniteSet(1 .. n) /\ Cardinality(1 .. n) = n
  BY <1>2, IntervalSize
<1> HIDE DEF kept
<1>6. f \in Injection(1 .. n, kept)
  <2>1. ASSUME NEW a \in 1 .. n, NEW b \in 1 .. n, f[a] = f[b]
        PROVE  a = b
    <3>1. f[a] \in kept /\ f[b] \in kept /\ a \in Nat /\ b \in Nat
      BY <1>2, <1>3
    <3>2. f[a] \in Nat /\ f[b] \in Nat
      BY <1>4, <3>1
    <3>3. ~(f[a] < f[b]) /\ ~(f[b] < f[a])
      BY <2>1, <3>2
    <3>4. ~(a < b) /\ ~(b < a)
      BY <1>3, <3>3
    <3>5. QED
      BY <3>1, <3>4
  <2>2. QED
    BY <1>3, <2>1 DEF Injection, IsInjective
<1>7. f \in Surjection(1 .. n, kept)
  BY <1>2, <1>5, <1>6, FS_Injection DEF n
<1>8. \A i \in kept : \E j \in 1 .. n : f[j] = i
  BY <1>7 DEF Surjection
<1>9. Range(r) = {s[f[j]] : j \in 1 .. n}
  BY <1>3 DEF Range
<1>10. QED
  BY <1>3, <1>8, <1>9 DEF kept

\* Erasing a pair takes that pair out of the set, and nothing else.
LEMMA ErasePairRange ==
  ASSUME NEW S, NEW s \in Seq(S), IsInjective(s), NEW k, NEW v
  PROVE  /\ Range(ErasePair(s, k, v)) = Range(s) \ {<<k, v>>}
         /\ HasPair(s, k, v) => Len(ErasePair(s, k, v)) = Len(s) - 1
<1> DEFINE p == <<k, v>>
           i == PairPosition(s, k, v)
<1>1. CASE p \in Range(s)
  <2>1. i \in 1 .. Len(s) /\ s[i] = p
    BY <1>1, LenProperties DEF PairPosition, Range
  <2>2. ErasePair(s, k, v) = RemoveAt(s, i)
    BY <1>1 DEF ErasePair, HasPair
  <2> HIDE DEF i
  <2>3. QED
    BY <2>1, <2>2, RemoveAtProperties, RemoveAtRange
<1>2. CASE p \notin Range(s)
  BY <1>2 DEF ErasePair, HasPair
<1>3. QED
  BY <1>1, <1>2

\* A put evicts nothing if its pair is there or there is room; otherwise it evicts
\* the first entry of the list.
LEMMA InsertedCases ==
  ASSUME NEW S, NEW s \in Seq(S), IsInjective(s), NEW cap \in Nat, NEW k, NEW v,
         <<k, v>> \in S, cap # 0 => Len(s) <= cap
  PROVE  \/ /\ <<k, v>> \in Range(s) \/ cap = 0 \/ Len(s) < cap
            /\ Range(Inserted(s, cap, k, v)) = Range(s) \cup {<<k, v>>}
         \/ /\ <<k, v>> \notin Range(s) /\ cap # 0 /\ Len(s) >= cap
            /\ 1 \in DOMAIN s /\ Len(Inserted(s, cap, k, v)) = Len(s)
            /\ Range(Inserted(s, cap, k, v)) = (Range(s) \ {s[1]}) \cup {<<k, v>>}
<1> DEFINE p == <<k, v>>
           e == ErasePair(s, k, v)
           q == Inserted(s, cap, k, v)
<1>1. Len(s) \in Nat
  BY LenProperties
<1>2. q = Append(EvictIfFull(e, cap), p)
  BY DEF Inserted
<1> HIDE DEF q
<1>3. CASE p \in Range(s)
  <2>1. /\ e \in Seq(S) /\ Len(e) = Len(s) - 1
        /\ Range(e) = Range(s) \ {p}
    BY <1>3, ErasePairProperties, ErasePairRange DEF HasPair
  <2> HIDE DEF e
  <2>2. EvictIfFull(e, cap) = e
    BY <1>1, <2>1 DEF EvictIfFull
  <2>3. Range(q) = Range(e) \cup {p}
    BY <1>2, <2>1, <2>2, AppendRange
  <2>4. QED
    BY <1>3, <2>1, <2>3 DEF q
<1>4. CASE p \notin Range(s)
  <2>1. e = s
    BY <1>4 DEF ErasePair, HasPair
  <2>2. CASE cap # 0 /\ Len(s) >= cap
    <3> DEFINE t == Tail(s)
    <3>1. q = Append(t, p)
      BY <1>2, <2>1, <2>2 DEF EvictIfFull
    <3>2. s # <<>>
      BY <1>1, <2>2, EmptySeq
    <3>3. t \in Seq(S) /\ Len(t) = Len(s) - 1
      BY <3>2, HeadTailProperties
    <3>4. 1 \in DOMAIN s /\ Range(t) = Range(s) \ {s[1]}
      BY <3>2, TailRange
    <3> HIDE DEF t
    <3>5. Len(q) = Len(t) + 1 /\ Range(q) = Range(t) \cup {p}
      BY <3>1, <3>3, AppendProperties, AppendRange
    <3>6. QED
      BY <1>1, <1>4, <2>2, <3>3, <3>4, <3>5 DEF q
  <2>3. CASE ~(cap # 0 /\ Len(s) >= cap)
    <3>1. q = Append(s, p)
      BY <1>2, <2>1, <2>3 DEF EvictIfFull
    <3>2. Range(q) = Range(s) \cup {p}
      BY <3>1, AppendRange
    <3>3. cap = 0 \/ Len(s) < cap
      BY <1>1, <2>3
    <3>4. QED
      BY <3>2, <3>3 DEF q
  <2>4. QED
    BY <2>2, <2>3
<1>5. QED
  BY <1>3, <1>4

\* What a put leaves, and puts its pair behind.
LEMMA InsertedLeaves ==
  ASSUME NEW S, NEW s \in Seq(S), IsInjective(s), NEW cap \in Nat, NEW k, NEW v,
         cap # 0 => Len(s) <= cap
  PROVE  /\ EvictIfFull(ErasePair(s, k, v), cap) \in Seq(S)
         /\ Sublist(EvictIfFull(ErasePair(s, k, v), cap), s)
         /\ <<k, v>> \notin Range(EvictIfFull(ErasePair(s, k, v), cap))
<1> DEFINE p == <<k, v>>
           e == ErasePair(s, k, v)
           r == EvictIfFull(e, cap)
<1>1. e \in Seq(S) /\ Sublist(e, s) /\ p \notin Range(e)
  BY ErasePairProperties
<1> HIDE DEF e
<1>2. Len(e) <= Len(s) /\ Len(e) \in Nat /\ Len(s) \in Nat
  BY <1>1, SublistKeeps, LenProperties
<1>3. cap # 0 => Len(e) <= cap
  BY <1>2
<1>4. r \in Seq(S) /\ Sublist(r, e)
  BY <1>1, <1>3, EvictIfFullProperties
<1> HIDE DEF r
<1>5. Sublist(r, s) /\ p \notin Range(r)
  BY <1>1, <1>4, SublistTransitive, SublistKeeps
<1>6. QED
  BY <1>4, <1>5 DEF r, e

(***************************************************************************)
(* The order of the list.                                                  *)
(***************************************************************************)

\* What is left of a list stands in the order it had.
LEMMA OrderIsKept ==
  ASSUME NEW S, NEW s \in Seq(S), IsInjective(s), NEW r \in Seq(S), Sublist(r, s),
         NEW C, NEW T, T \subseteq C, T \subseteq Range(r)
  PROVE  Before(r, T) = Before(s, C) \cap (T \X T)
<1>1. PICK f \in [1 .. Len(r) -> 1 .. Len(s)] :
         /\ \A a, b \in 1 .. Len(r) : a < b => f[a] < f[b]
         /\ \A a \in 1 .. Len(r) : r[a] = s[f[a]]
  BY DEF Sublist
<1>2. /\ DOMAIN r = 1 .. Len(r) /\ DOMAIN s = 1 .. Len(s)
      /\ Len(r) \in Nat /\ Len(s) \in Nat
  BY LenProperties
<1>3. ASSUME NEW x \in T, NEW y \in T
      PROVE  (\E i, j \in DOMAIN r : i < j /\ <<x, y>> = <<r[i], r[j]>>)
               <=> (\E i, j \in DOMAIN s : i < j /\ <<x, y>> = <<s[i], s[j]>>)
  <2>1. ASSUME NEW i \in DOMAIN r, NEW j \in DOMAIN r, i < j, x = r[i], y = r[j]
        PROVE  \E a, b \in DOMAIN s : a < b /\ x = s[a] /\ y = s[b]
    <3>1. f[i] \in DOMAIN s /\ f[j] \in DOMAIN s /\ f[i] < f[j]
      BY <1>1, <1>2, <2>1
    <3>2. x = s[f[i]] /\ y = s[f[j]]
      BY <1>1, <1>2, <2>1
    <3>3. QED
      BY <3>1, <3>2
  <2>2. ASSUME NEW a \in DOMAIN s, NEW b \in DOMAIN s, a < b, x = s[a], y = s[b]
        PROVE  \E i, j \in DOMAIN r : i < j /\ x = r[i] /\ y = r[j]
    <3>1. PICK i \in DOMAIN r, j \in DOMAIN r : x = r[i] /\ y = r[j]
      BY DEF Range
    <3>2. f[i] \in DOMAIN s /\ f[j] \in DOMAIN s /\ s[f[i]] = s[a] /\ s[f[j]] = s[b]
      BY <1>1, <1>2, <2>2, <3>1
    <3>3. f[i] = a /\ f[j] = b
      BY <3>2 DEF IsInjective
    <3>4. i < j
      <4>1. i \in Nat /\ j \in Nat /\ a \in Nat /\ b \in Nat
        BY <1>2, <3>1
      <4>2. j < i => f[j] < f[i]
        BY <1>1, <1>2, <3>1
      <4>3. QED
        BY <2>2, <3>3, <4>1, <4>2
    <3>5. QED
      BY <3>1, <3>4
  <2>3. QED
    BY <2>1, <2>2
<1>4. QED
  BY <1>3 DEF Before

\* What is put at the end stands behind all the rest.
LEMMA LastIsBehind ==
  ASSUME NEW S, NEW r \in Seq(S), NEW e \in S, e \notin Range(r),
         NEW T, T \subseteq Range(r)
  PROVE  Before(Append(r, e), T \cup {e}) = Before(r, T) \cup (T \X {e})
<1> DEFINE n == Len(r)
           s == Append(r, e)
<1>1. n \in Nat /\ DOMAIN r = 1 .. n
  BY LenProperties
<1>2. /\ s \in Seq(S) /\ Len(s) = n + 1 /\ s[n + 1] = e
      /\ \A j \in 1 .. n : s[j] = r[j]
  BY AppendProperties
<1>3. DOMAIN s = 1 .. n + 1
  BY <1>2, LenProperties
<1> HIDE DEF n, s
<1>4. \A j \in 1 .. n : r[j] # e
  BY <1>1 DEF Range
<1>5. ASSUME NEW x \in T \cup {e}, NEW y \in T \cup {e}
      PROVE  (\E i, j \in DOMAIN s : i < j /\ <<x, y>> = <<s[i], s[j]>>)
               <=> \/ /\ x \in T /\ y \in T
                      /\ \E i, j \in DOMAIN r : i < j /\ <<x, y>> = <<r[i], r[j]>>
                   \/ x \in T /\ y = e
  <2>1. ASSUME NEW i \in DOMAIN s, NEW j \in DOMAIN s, i < j, x = s[i], y = s[j]
        PROVE  \/ /\ x \in T /\ y \in T
                  /\ \E a, b \in DOMAIN r : a < b /\ x = r[a] /\ y = r[b]
               \/ x \in T /\ y = e
    <3>1. i \in 1 .. n /\ x = r[i] /\ x \in T
      BY <1>1, <1>2, <1>3, <1>4, <2>1
    <3>2. CASE j = n + 1
      BY <1>2, <2>1, <3>1, <3>2
    <3>3. CASE j # n + 1
      <4>1. j \in 1 .. n /\ y = r[j] /\ y \in T
        BY <1>1, <1>2, <1>3, <1>4, <2>1, <3>3
      <4>2. QED
        BY <1>1, <2>1, <3>1, <4>1
    <3>4. QED
      BY <3>2, <3>3
  <2>2. ASSUME NEW a \in DOMAIN r, NEW b \in DOMAIN r, a < b, x = r[a], y = r[b]
        PROVE  \E i, j \in DOMAIN s : i < j /\ x = s[i] /\ y = s[j]
    <3>1. a \in DOMAIN s /\ b \in DOMAIN s /\ s[a] = r[a] /\ s[b] = r[b]
      BY <1>1, <1>2, <1>3
    <3>2. QED
      BY <2>2, <3>1
  <2>3. ASSUME x \in T, y = e
        PROVE  \E i, j \in DOMAIN s : i < j /\ x = s[i] /\ y = s[j]
    <3>1. PICK i \in 1 .. n : x = r[i]
      BY <1>1, <2>3 DEF Range
    <3>2. i \in DOMAIN s /\ n + 1 \in DOMAIN s /\ i < n + 1 /\ s[i] = x
      BY <1>1, <1>2, <1>3, <3>1
    <3>3. QED
      BY <1>2, <2>3, <3>2
  <2>4. QED
    BY <2>1, <2>2, <2>3
<1>6. e \notin T
  OBVIOUS
<1>7. ASSUME NEW x \in T \cup {e}, NEW y \in T \cup {e}
      PROVE  <<x, y>> \in Before(s, T \cup {e})
               <=> <<x, y>> \in Before(r, T) \cup (T \X {e})
  BY <1>5, <1>6 DEF Before
<1>8. /\ Before(s, T \cup {e}) \subseteq (T \cup {e}) \X (T \cup {e})
      /\ Before(r, T) \cup (T \X {e}) \subseteq (T \cup {e}) \X (T \cup {e})
  BY DEF Before
<1>9. Before(s, T \cup {e}) = Before(r, T) \cup (T \X {e})
  <2> DEFINE P == Before(s, T \cup {e})
             Q == Before(r, T) \cup (T \X {e})
  <2>1. \A x, y \in T \cup {e} : <<x, y>> \in P <=> <<x, y>> \in Q
    BY <1>7
  <2>2. P \subseteq (T \cup {e}) \X (T \cup {e}) /\ Q \subseteq (T \cup {e}) \X (T \cup {e})
    BY <1>8
  <2> HIDE DEF P, Q
  <2>3. P = Q
    BY <2>1, <2>2
  <2>4. QED
    BY <2>3 DEF P, Q
<1>10. QED
  BY <1>9 DEF s

\* An element has no other before it in a set if none stands before it in the list.
LEMMA NoneBefore ==
  ASSUME NEW S, NEW s \in Seq(S), IsInjective(s), NEW i \in DOMAIN s, NEW C, NEW T,
         \A j \in DOMAIN s : j < i => s[j] \notin T
  PROVE  \A d \in T : <<d, s[i]>> \notin Before(s, C)
BY DEF Before, IsInjective
=============================================================================
