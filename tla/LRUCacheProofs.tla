--------------------------- MODULE LRUCacheProofs ---------------------------
(***************************************************************************)
(* What holds of LRUCache for every set of keys and values and every       *)
(* capacity, also of the order of use.                                     *)
(***************************************************************************)
EXTENDS LRUCacheHistory, LRUListProofs

\* The three invariants are inductive together: put keeps the capacity only if
\* the list was within it, and leaves no duplicate only if there was none.
WellFormed == TypeOK /\ NoDuplicatePairs /\ WithinCapacity

\* A call that only erases entries keeps the cache well-formed.
LEMMA ErasingKeepsWellFormed ==
  ASSUME WellFormed, UNCHANGED capacity,
         entries' \in Seq(Pair), Sublist(entries', entries)
  PROVE  WellFormed'
<1>1. entries \in Seq(Pair)
  BY DEF WellFormed, TypeOK
<1>2. /\ IsInjective(entries) => IsInjective(entries')
      /\ Len(entries') <= Len(entries)
  BY <1>1, SublistKeeps
<1>3. Len(entries) \in Nat /\ Len(entries') \in Nat
  BY <1>1, LenProperties
<1>4. QED
  BY <1>2, <1>3 DEF WellFormed, TypeOK, NoDuplicatePairs, WithinCapacity

\* An empty container is well-formed.
LEMMA InitWellFormed == Init => WellFormed
<1> SUFFICES ASSUME Init PROVE WellFormed
  OBVIOUS
<1>1. entries = <<>> /\ capacity \in Nat
  BY CapacitiesAssumption DEF Init
<1>2. entries \in Seq(Pair) /\ Len(entries) = 0
  BY <1>1, EmptySeq
<1>3. IsInjective(entries)
  BY <1>2, LenProperties DEF IsInjective
<1>4. QED
  BY <1>1, <1>2, <1>3
     DEF WellFormed, TypeOK, NoDuplicatePairs, WithinCapacity

\* Every operation keeps the container well-formed.
LEMMA NextWellFormed == WellFormed /\ [Next]_vars => WellFormed'
<1> SUFFICES ASSUME WellFormed, [Next]_vars
             PROVE  WellFormed'
  OBVIOUS
<1>1. entries \in Seq(Pair) /\ capacity \in Nat /\ UNCHANGED capacity
  BY DEF WellFormed, TypeOK, Next, vars
<1>2. CASE UNCHANGED entries
  BY <1>1, <1>2 DEF WellFormed, TypeOK, NoDuplicatePairs, WithinCapacity
<1>3. ASSUME NEW k \in Key, GetHit(k)
      PROVE  WellFormed'
  <2> DEFINE i == LruPosition(entries, k)
  <2>1. i \in 1 .. Len(entries)
    BY <1>1, <1>3, LruPositionProperties DEF GetHit
  <2> HIDE DEF i
  <2>2. /\ Relocated(entries, i) \in Seq(Pair)
        /\ Len(Relocated(entries, i)) = Len(entries)
        /\ IsInjective(entries) => IsInjective(Relocated(entries, i))
    BY <1>1, <2>1, RelocatedProperties, RelocatedKeeps
  <2>3. entries' = Relocated(entries, i)
    BY <1>3 DEF GetHit, i
  <2>4. QED
    BY <1>1, <2>2, <2>3 DEF WellFormed, TypeOK, NoDuplicatePairs, WithinCapacity
<1>4. ASSUME NEW k \in Key, Pop(k)
      PROVE  WellFormed'
  <2>1. CASE HasKey(entries, k)
    <3>1. LruPosition(entries, k) \in 1 .. Len(entries)
      BY <1>1, <2>1, LruPositionProperties
    <3>2. entries' = RemoveAt(entries, LruPosition(entries, k))
      BY <1>4, <2>1 DEF Pop
    <3>3. entries' \in Seq(Pair) /\ Sublist(entries', entries)
      BY <1>1, <3>1, <3>2, RemoveAtProperties, RemoveAtSublist
    <3>4. QED
      BY <1>1, <3>3, ErasingKeepsWellFormed
  <2>2. CASE ~HasKey(entries, k)
    BY <1>2, <1>4, <2>2 DEF Pop
  <2>3. QED
    BY <2>1, <2>2
<1>5. ASSUME NEW k \in Key, RemoveKey(k)
      PROVE  WellFormed'
  <2>1. entries' \in Without(entries, Positions(entries, k))
    BY <1>5 DEF RemoveKey
  <2>2. entries' \in Seq(Pair) /\ Sublist(entries', entries)
    BY <1>1, <2>1, WithoutSublist
  <2>3. QED
    BY <1>1, <2>2, ErasingKeepsWellFormed
<1>6. ASSUME NEW k \in Key, NEW v \in Value, Put(k, v)
      PROVE  WellFormed'
  <2>1. <<k, v>> \in Pair /\ (capacity # 0 => Len(entries) <= capacity)
    BY DEF Pair, WellFormed, WithinCapacity
  <2>2. entries' = Inserted(entries, capacity, k, v)
    BY <1>6 DEF Put
  <2>3. /\ entries' \in Seq(Pair)
        /\ IsInjective(entries) => IsInjective(entries')
        /\ capacity # 0 => Len(entries') <= capacity
    BY <1>1, <2>1, <2>2, InsertedProperties
  <2>4. QED
    BY <1>1, <2>3 DEF WellFormed, TypeOK, NoDuplicatePairs, WithinCapacity
<1>7. ASSUME NEW k \in Key, NEW v \in Value, RemovePair(k, v)
      PROVE  WellFormed'
  <2>1. entries' = ErasePair(entries, k, v)
    BY <1>7 DEF RemovePair
  <2>2. entries' \in Seq(Pair) /\ Sublist(entries', entries)
    BY <1>1, <2>1, ErasePairProperties
  <2>3. QED
    BY <1>1, <2>2, ErasingKeepsWellFormed
<1>8. CASE Clear
  <2>1. entries' = <<>>
    BY <1>8 DEF Clear
  <2>2. entries' \in Seq(Pair) /\ Len(entries') = 0
    BY <2>1, EmptySeq
  <2>3. IsInjective(entries')
    BY <2>2, LenProperties DEF IsInjective
  <2>4. QED
    BY <1>1, <2>2, <2>3
       DEF WellFormed, TypeOK, NoDuplicatePairs, WithinCapacity
<1>9. CASE \/ \E k \in Key : \/ GetMiss(k) \/ ContainsKey(k) \/ ValueSet(k)
                             \/ ValueSetOfAbsentKey(k) \/ ValueRange(k)
           \/ \E v \in Value : GetKey(v) \/ ContainsValue(v)
           \/ EntrySet \/ Size \/ IsEmpty \/ IsFull
  BY <1>2, <1>9 DEF GetMiss, ContainsKey, ValueSet, ValueSetOfAbsentKey, ValueRange,
                    GetKey, ContainsValue, EntrySet, Size, IsEmpty, IsFull
<1>10. CASE UNCHANGED vars
  BY <1>2, <1>10 DEF vars
<1>11. QED
  BY <1>3, <1>4, <1>5, <1>6, <1>7, <1>8, <1>9, <1>10 DEF Next, Call

\* The invariant holds.
LEMMA AlwaysWellFormed == Spec => []WellFormed
BY InitWellFormed, NextWellFormed, PTL DEF Spec

\* The container is always a list of key-value pairs.
THEOREM TypeCorrect == Spec => []TypeOK
<1>1. WellFormed => TypeOK
  BY DEF WellFormed
<1>2. QED
  BY <1>1, AlwaysWellFormed, PTL

\* The container never holds a pair twice, whatever the calls.
THEOREM NeverDuplicated == Spec => []NoDuplicatePairs
<1>1. WellFormed => NoDuplicatePairs
  BY DEF WellFormed
<1>2. QED
  BY <1>1, AlwaysWellFormed, PTL

\* A cache with a capacity never holds more than that many entries.
THEOREM NeverOverCapacity == Spec => []WithinCapacity
<1>1. WellFormed => WithinCapacity
  BY DEF WellFormed
<1>2. QED
  BY <1>1, AlwaysWellFormed, PTL

(***************************************************************************)
(* The order of use.  Every call is of one of two shapes: it erases some   *)
(* entries and uses none, or it erases some and then appends one, which is *)
(* the entry it uses.                                                      *)
(***************************************************************************)

\* A list in the order of use that u tells.
Ordered(s, u) == \A i, j \in DOMAIN s :
                    i < j => s[j] \in u[s[i]] /\ s[i] \notin u[s[j]]

ErasesOnly == /\ UsedBy(result') = {} /\ result'.op # "put"
              /\ entries' \in Seq(Pair)
              /\ Sublist(entries', entries)

Appends(p) == /\ UsedBy(result') = {p}
              /\ \E r \in Seq(Pair) : /\ Sublist(r, entries)
                                       /\ p \notin Range(r)
                                       /\ entries' = Append(r, p)

\* w tells what u does and one use of p.
Later(w, u, p) == \A q \in Pair : w[q] = IF q \in {p} THEN {} ELSE u[q] \cup {p}

\* A part of an ordered list is ordered.
LEMMA OrderedSublist ==
  ASSUME NEW S, NEW s \in Seq(S), NEW r \in Seq(S), Sublist(r, s), NEW u, Ordered(s, u)
  PROVE  Ordered(r, u)
<1>1. PICK f \in [1 .. Len(r) -> 1 .. Len(s)] :
         /\ \A a, b \in 1 .. Len(r) : a < b => f[a] < f[b]
         /\ \A a \in 1 .. Len(r) : r[a] = s[f[a]]
  BY DEF Sublist
<1>2. DOMAIN r = 1 .. Len(r) /\ DOMAIN s = 1 .. Len(s)
  BY LenProperties
<1>3. ASSUME NEW i \in 1 .. Len(r), NEW j \in 1 .. Len(r), i < j
      PROVE  r[j] \in u[r[i]] /\ r[i] \notin u[r[j]]
  <2>1. f[i] \in DOMAIN s /\ f[j] \in DOMAIN s /\ f[i] < f[j]
    BY <1>1, <1>2, <1>3
  <2>2. s[f[j]] \in u[s[f[i]]] /\ s[f[i]] \notin u[s[f[j]]]
    BY <2>1 DEF Ordered
  <2>3. QED
    BY <1>1, <2>2
<1>4. QED
  BY <1>2, <1>3 DEF Ordered

\* An entry that is used and put at the end keeps the list ordered.
LEMMA OrderedAppend ==
  ASSUME NEW r \in Seq(Pair), NEW p \in Pair, p \notin Range(r), NEW u, Ordered(r, u),
         NEW w, Later(w, u, p)
  PROVE  Ordered(Append(r, p), w)
<1> DEFINE n == Len(r)
           s == Append(r, p)
<1>1. n \in Nat /\ DOMAIN r = 1 .. n /\ \A j \in 1 .. n : r[j] \in Pair
  BY LenProperties
<1>2. /\ s \in Seq(Pair)
      /\ Len(s) = n + 1
      /\ \A j \in 1 .. n : s[j] = r[j]
      /\ s[n + 1] = p
  BY AppendProperties
<1>3. DOMAIN s = 1 .. (n + 1)
  BY <1>2, LenProperties
<1> HIDE DEF n, s
<1>4. \A j \in 1 .. n : r[j] # p
  BY <1>1 DEF Range
<1>5. \A j \in 1 .. n : w[s[j]] = u[r[j]] \cup {p}
  BY <1>1, <1>2, <1>4 DEF Later
<1>6. w[p] = {}
  BY DEF Later
<1>7. ASSUME NEW i \in 1 .. (n + 1), NEW j \in 1 .. (n + 1), i < j
      PROVE  s[j] \in w[s[i]] /\ s[i] \notin w[s[j]]
  <2>1. i \in 1 .. n
    BY <1>1, <1>7
  <2>2. CASE j \in 1 .. n
    <3>1. r[j] \in u[r[i]] /\ r[i] \notin u[r[j]]
      BY <1>1, <1>7, <2>1, <2>2 DEF Ordered
    <3>2. /\ s[i] = r[i] /\ s[j] = r[j] /\ r[i] # p
          /\ w[s[i]] = u[r[i]] \cup {p}
          /\ w[s[j]] = u[r[j]] \cup {p}
      BY <1>2, <1>4, <1>5, <2>1, <2>2
    <3>3. QED
      BY <3>1, <3>2
  <2>3. CASE j = n + 1
    BY <1>2, <1>5, <1>6, <2>1, <2>3
  <2>4. QED
    BY <1>1, <2>2, <2>3
<1>8. QED
  BY <1>3, <1>7 DEF Ordered, s

\* Every call is of one of the two shapes, and only put is called put.
LEMMA CallShapes ==
  ASSUME WellFormed, Next
  PROVE  /\ ErasesOnly \/ \E p \in Pair : Appends(p)
         /\ result'.op = "put" => \E k \in Key, v \in Value : Put(k, v)
<1>1. /\ entries \in Seq(Pair) /\ capacity \in Nat /\ IsInjective(entries)
      /\ capacity # 0 => Len(entries) <= capacity
  BY DEF WellFormed, TypeOK, NoDuplicatePairs, WithinCapacity
<1>2. ASSUME NEW k \in Key, GetHit(k)
      PROVE  result'.op # "put" /\ \E p \in Pair : Appends(p)
  <2> DEFINE i == LruPosition(entries, k)
             p == entries[i]
  <2>1. i \in 1 .. Len(entries) /\ i \in Positions(entries, k)
    BY <1>1, <1>2, LruPositionProperties DEF GetHit
  <2>2. /\ entries' = Append(RemoveAt(entries, i), p)
        /\ result' = [op |-> "get", args |-> <<k>>, out |-> {p[2]}]
    BY <1>2 DEF GetHit, Relocated, Return
  <2>3. p[1] = k
    BY <2>1 DEF Positions
  <2> HIDE DEF i
  <2>4. p \in Pair
    BY <1>1, <2>1, LenProperties
  <2>5. p = <<k, p[2]>>
    BY <2>3, <2>4 DEF Pair
  <2>6. /\ RemoveAt(entries, i) \in Seq(Pair)
        /\ Sublist(RemoveAt(entries, i), entries)
        /\ p \notin Range(RemoveAt(entries, i))
    BY <1>1, <2>1, RemoveAtProperties, RemoveAtSublist, RemoveAtRange
  <2> HIDE DEF p
  <2>7. UsedBy(result') = {<<k, v>> : v \in {p[2]}}
    BY <2>2 DEF UsedBy
  <2>8. UsedBy(result') = {p}
    BY <2>5, <2>7
  <2>9. QED
    BY <2>2, <2>4, <2>6, <2>8 DEF Appends
<1>3. ASSUME NEW k \in Key, NEW v \in Value, Put(k, v)
      PROVE  \E p \in Pair : Appends(p)
  <2> DEFINE e == ErasePair(entries, k, v)
             r == EvictIfFull(e, capacity)
  <2>1. e \in Seq(Pair) /\ Sublist(e, entries) /\ <<k, v>> \notin Range(e)
    BY <1>1, ErasePairProperties
  <2>2. entries' = Append(r, <<k, v>>) /\ UsedBy(result') = {<<k, v>>}
    BY <1>3 DEF Put, Inserted, Return, UsedBy
  <2> HIDE DEF e
  <2>3. capacity # 0 => Len(e) <= capacity
    <3>1. Len(e) <= Len(entries) /\ Len(e) \in Nat /\ Len(entries) \in Nat
      BY <1>1, <2>1, SublistKeeps, LenProperties
    <3>2. QED
      BY <1>1, <3>1
  <2>4. r \in Seq(Pair) /\ Sublist(r, e)
    BY <1>1, <2>1, <2>3, EvictIfFullProperties
  <2> HIDE DEF r
  <2>5. Sublist(r, entries) /\ <<k, v>> \notin Range(r)
    BY <1>1, <2>1, <2>4, SublistTransitive, SublistKeeps
  <2>6. <<k, v>> \in Pair
    BY DEF Pair
  <2>7. QED
    BY <2>2, <2>4, <2>5, <2>6 DEF Appends
<1>4. ASSUME NEW k \in Key, Pop(k)
      PROVE  ErasesOnly
  <2>1. UsedBy(result') = {} /\ result'.op # "put"
    BY <1>4 DEF Pop, Return, UsedBy
  <2>2. CASE HasKey(entries, k)
    <3>1. LruPosition(entries, k) \in 1 .. Len(entries)
      BY <1>1, <2>2, LruPositionProperties
    <3>2. entries' = RemoveAt(entries, LruPosition(entries, k))
      BY <1>4, <2>2 DEF Pop
    <3>3. QED
      BY <1>1, <2>1, <3>1, <3>2, RemoveAtProperties, RemoveAtSublist DEF ErasesOnly
  <2>3. CASE ~HasKey(entries, k)
    BY <1>1, <1>4, <2>1, <2>3, SublistReflexive DEF Pop, ErasesOnly
  <2>4. QED
    BY <2>2, <2>3
<1>5. ASSUME NEW k \in Key, RemoveKey(k)
      PROVE  ErasesOnly
  <2>1. /\ entries' \in Without(entries, Positions(entries, k))
        /\ UsedBy(result') = {} /\ result'.op # "put"
    BY <1>5 DEF RemoveKey, Return, UsedBy
  <2>2. QED
    BY <1>1, <2>1, WithoutSublist DEF ErasesOnly
<1>6. ASSUME NEW k \in Key, NEW v \in Value, RemovePair(k, v)
      PROVE  ErasesOnly
  <2>1. entries' = ErasePair(entries, k, v) /\ UsedBy(result') = {} /\ result'.op # "put"
    BY <1>6 DEF RemovePair, Return, UsedBy
  <2>2. QED
    BY <1>1, <2>1, ErasePairProperties DEF ErasesOnly
<1>7. ASSUME Clear
      PROVE  ErasesOnly
  <2>1. entries' = <<>> /\ UsedBy(result') = {} /\ result'.op # "put"
    BY <1>7 DEF Clear, Return, UsedBy
  <2>2. entries' \in Seq(Pair) /\ Len(entries') = 0
    BY <2>1, EmptySeq
  <2>3. 1 .. Len(entries') = {}
    BY <2>2
  <2>4. Sublist(entries', entries)
    <3>1. [a \in {} |-> a] \in [{} -> 1 .. Len(entries)]
      OBVIOUS
    <3>2. QED
      BY <2>3, <3>1 DEF Sublist
  <2>5. QED
    BY <2>1, <2>2, <2>4 DEF ErasesOnly
<1>8. ASSUME \/ \E k \in Key : \/ GetMiss(k) \/ ContainsKey(k) \/ ValueSet(k)
                               \/ ValueSetOfAbsentKey(k) \/ ValueRange(k)
             \/ \E v \in Value : GetKey(v) \/ ContainsValue(v)
             \/ EntrySet \/ Size \/ IsEmpty \/ IsFull
      PROVE  ErasesOnly
  <2>1. UNCHANGED entries /\ UsedBy(result') = {} /\ result'.op # "put"
    <3>1. ASSUME NEW k \in Key, GetMiss(k)
          PROVE  UNCHANGED entries /\ UsedBy(result') = {} /\ result'.op # "put"
      BY <3>1 DEF GetMiss, Return, UsedBy
    <3>2. CASE \/ \E k \in Key : \/ ContainsKey(k) \/ ValueSet(k)
                                 \/ ValueSetOfAbsentKey(k) \/ ValueRange(k)
               \/ \E v \in Value : GetKey(v) \/ ContainsValue(v)
               \/ EntrySet \/ Size \/ IsEmpty \/ IsFull
      <4>1. ASSUME NEW op, NEW args, NEW out, op \notin {"put", "get"}, Return(op, args, out)
            PROVE  UsedBy(result') = {} /\ result'.op # "put"
        BY <4>1 DEF Return, UsedBy
      <4>2. ASSUME NEW k \in Key, \/ ContainsKey(k) \/ ValueSet(k)
                                  \/ ValueSetOfAbsentKey(k) \/ ValueRange(k)
            PROVE  UNCHANGED entries /\ UsedBy(result') = {} /\ result'.op # "put"
        <5>1. CASE ContainsKey(k)
          BY <4>1, <5>1 DEF ContainsKey
        <5>2. CASE ValueSet(k)
          BY <4>1, <5>2 DEF ValueSet
        <5>3. CASE ValueSetOfAbsentKey(k)
          BY <4>1, <5>3 DEF ValueSetOfAbsentKey
        <5>4. CASE ValueRange(k)
          BY <4>1, <5>4 DEF ValueRange
        <5>5. QED
          BY <4>2, <5>1, <5>2, <5>3, <5>4
      <4>3. ASSUME NEW v \in Value, GetKey(v) \/ ContainsValue(v)
            PROVE  UNCHANGED entries /\ UsedBy(result') = {} /\ result'.op # "put"
        <5>1. CASE GetKey(v)
          BY <4>1, <5>1 DEF GetKey
        <5>2. CASE ContainsValue(v)
          BY <4>1, <5>2 DEF ContainsValue
        <5>3. QED
          BY <4>3, <5>1, <5>2
      <4>4. CASE EntrySet
        BY <4>1, <4>4 DEF EntrySet
      <4>5. CASE Size
        BY <4>1, <4>5 DEF Size
      <4>6. CASE IsEmpty
        BY <4>1, <4>6 DEF IsEmpty
      <4>7. CASE IsFull
        <5> DEFINE out == IF capacity = 0 THEN FALSE ELSE Len(entries) >= capacity
        <5>1. UNCHANGED entries /\ Return("isFull", <<>>, out)
          BY <4>7 DEF IsFull
        <5> HIDE DEF out
        <5>2. QED
          BY <4>1, <5>1
      <4>8. QED
        BY <3>2, <4>2, <4>3, <4>4, <4>5, <4>6, <4>7
    <3>3. QED
      BY <1>8, <3>1, <3>2
  <2>2. QED
    BY <1>1, <2>1, SublistReflexive DEF ErasesOnly
<1>9. ErasesOnly \/ \E p \in Pair : Appends(p)
  BY <1>2, <1>3, <1>4, <1>5, <1>6, <1>7, <1>8 DEF Next, Call
<1>10. ErasesOnly => result'.op # "put"
  BY DEF ErasesOnly
<1>11. result'.op = "put" => \E k \in Key, v \in Value : Put(k, v)
  BY <1>2, <1>4, <1>5, <1>6, <1>7, <1>8, <1>10 DEF Next, Call
<1>12. QED
  BY <1>9, <1>11

\* The pairs used since a pair's last use are finitely many, and the list is in
\* the order they tell.
HInv == /\ WellFormed
        /\ since = [p \in Pair |-> since[p]]
        /\ \A p \in Pair : IsFiniteSet(since[p])
        /\ RecencyOrder

\* Before the first call nothing was used.
LEMMA InitHInv == HInit => HInv
<1> SUFFICES ASSUME HInit PROVE HInv
  OBVIOUS
<1>1. WellFormed /\ entries = <<>>
  BY InitWellFormed DEF HInit, Init
<1>2. since = [p \in Pair |-> since[p]] /\ \A p \in Pair : IsFiniteSet(since[p])
  BY FS_EmptySet DEF HInit
<1>3. RecencyOrder
  BY <1>1 DEF RecencyOrder
<1>4. QED
  BY <1>1, <1>2, <1>3 DEF HInv

\* Every call keeps the order, whichever entries it erases or moves.
LEMMA NextHInv == HInv /\ [HNext]_hvars => HInv'
<1> SUFFICES ASSUME HInv, [HNext]_hvars PROVE HInv'
  OBVIOUS
<1>1. CASE UNCHANGED hvars
  BY <1>1 DEF hvars, HInv, WellFormed, TypeOK, NoDuplicatePairs, WithinCapacity,
              RecencyOrder
<1>2. CASE HNext
  <2>1. WellFormed' /\ entries \in Seq(Pair) /\ Ordered(entries, since)
    BY <1>2, NextWellFormed DEF HNext, HInv, WellFormed, TypeOK, RecencyOrder, Ordered
  <2>2. /\ since' = [q \in Pair |-> since'[q]]
        /\ \A q \in Pair : since'[q] = IF q \in UsedBy(result') THEN {}
                                       ELSE since[q] \cup UsedBy(result')
    BY <1>2 DEF HNext, Record
  <2>3. CASE ErasesOnly
    <3>1. \A q \in Pair : since'[q] = since[q]
      BY <2>2, <2>3 DEF ErasesOnly
    <3>2. Ordered(entries', since)
      BY <2>1, <2>3, OrderedSublist DEF ErasesOnly
    <3>3. \A i \in DOMAIN entries' : entries'[i] \in Pair
      BY <2>3, LenProperties DEF ErasesOnly
    <3>4. RecencyOrder'
      BY <3>1, <3>2, <3>3 DEF Ordered, RecencyOrder
    <3>5. QED
      BY <2>1, <2>2, <3>1, <3>4 DEF HInv
  <2>4. ASSUME NEW p \in Pair, Appends(p)
        PROVE  HInv'
    <3>1. PICK r \in Seq(Pair) : /\ Sublist(r, entries) /\ p \notin Range(r)
                                 /\ entries' = Append(r, p)
      BY <2>4 DEF Appends
    <3>2. Ordered(r, since)
      BY <2>1, <3>1, OrderedSublist
    <3>3. \A q \in Pair : since'[q] = IF q \in {p} THEN {} ELSE since[q] \cup {p}
      BY <2>2, <2>4 DEF Appends
    <3>4. Ordered(entries', since')
      <4> DEFINE w == since'
      <4>1. Later(w, since, p)
        BY <3>3 DEF Later
      <4> HIDE DEF w
      <4>2. Ordered(Append(r, p), w)
        BY <3>1, <3>2, <4>1, OrderedAppend
      <4>3. QED
        BY <3>1, <4>2 DEF w
    <3>5. ASSUME NEW q \in Pair
          PROVE  IsFiniteSet(since'[q])
      <4>1. IsFiniteSet(since[q]) /\ IsFiniteSet({})
        BY FS_EmptySet DEF HInv
      <4>2. IsFiniteSet(since[q] \cup {p})
        BY <4>1, FS_AddElement
      <4>3. QED
        BY <3>3, <4>1, <4>2
    <3>6. QED
      BY <2>1, <2>2, <3>4, <3>5 DEF HInv, RecencyOrder, Ordered
  <2>5. ErasesOnly \/ \E p \in Pair : Appends(p)
    BY <1>2, CallShapes DEF HInv, HNext
  <2>6. QED
    BY <2>3, <2>4, <2>5
<1>3. QED
  BY <1>1, <1>2

\* The invariant of the cache with its history holds.
LEMMA AlwaysHInv == HSpec => []HInv
BY InitHInv, NextHInv, PTL DEF HSpec

\* The list is always in the order of use.
THEOREM OrderOfUse == HSpec => []RecencyOrder
<1>1. HInv => RecencyOrder
  BY DEF HInv
<1>2. QED
  BY <1>1, AlwaysHInv, PTL

(***************************************************************************)
(* What a put evicts.                                                      *)
(***************************************************************************)

\* A put evicts nothing if its pair is there or there is room; otherwise it evicts
\* the first entry of the list.
LEMMA PutCases ==
  ASSUME WellFormed, NEW k \in Key, NEW v \in Value, Put(k, v)
  PROVE  \/ /\ <<k, v>> \in Range(entries) \/ capacity = 0 \/ Len(entries) < capacity
            /\ Range(entries') = Range(entries) \cup {<<k, v>>}
         \/ /\ <<k, v>> \notin Range(entries) /\ capacity # 0 /\ Len(entries) >= capacity
            /\ 1 \in DOMAIN entries /\ Len(entries') = Len(entries)
            /\ Range(entries') = (Range(entries) \ {entries[1]}) \cup {<<k, v>>}
<1>1. /\ entries \in Seq(Pair) /\ capacity \in Nat /\ IsInjective(entries)
      /\ capacity # 0 => Len(entries) <= capacity
      /\ <<k, v>> \in Pair
  BY DEF WellFormed, TypeOK, NoDuplicatePairs, WithinCapacity, Pair
<1>2. entries' = Inserted(entries, capacity, k, v)
  BY DEF Put
<1>3. QED
  BY <1>1, <1>2, InsertedCases

\* The first entry is the least recently used: all others were used after it.
LEMMA FirstIsOldest ==
  ASSUME HInv, 1 \in DOMAIN entries
  PROVE  entries[1] \in Pair /\ Range(entries) \ {entries[1]} \subseteq since[entries[1]]
<1>1. /\ DOMAIN entries = 1 .. Len(entries) /\ Len(entries) \in Nat
      /\ entries[1] \in Pair
  BY LenProperties DEF HInv, WellFormed, TypeOK
<1>2. ASSUME NEW x \in Range(entries), x # entries[1]
      PROVE  x \in since[entries[1]]
  <2>1. PICK j \in DOMAIN entries : x = entries[j]
    BY <1>2 DEF Range
  <2>2. 1 < j
    BY <1>1, <1>2, <2>1
  <2>3. QED
    BY <2>1, <2>2 DEF HInv, RecencyOrder
<1>3. QED
  BY <1>1, <1>2

\* Whatever the capacity, a put evicts an entry only after as many other pairs as
\* the cache has room for were used: a working set of that size stays.
THEOREM WorkingSetStays == HSpec => RetainsWorkingSet
<1>1. ASSUME HInv, HInv', HNext
      PROVE  RetentionStep
  <2> SUFFICES ASSUME result'.op = "put", NEW p \in Range(entries) \ Range(entries')
               PROVE  capacity # 0 /\ Cardinality(since'[p]) >= capacity
    BY DEF RetentionStep
  <2>1. PICK k \in Key, v \in Value : Put(k, v)
    BY <1>1, CallShapes DEF HInv, HNext
  <2> DEFINE q == <<k, v>>
  <2>2. /\ capacity # 0 /\ Len(entries) >= capacity /\ 1 \in DOMAIN entries
        /\ Len(entries') = Len(entries)
        /\ Range(entries') = (Range(entries) \ {entries[1]}) \cup {q}
        /\ p = entries[1]
    BY <1>1, <2>1, PutCases DEF HInv
  <2>3. UsedBy(result') = {q}
    BY <2>1 DEF Put, Return, UsedBy
  <2>4. p \in Pair /\ Range(entries) \ {p} \subseteq since[p]
    BY <1>1, <2>2, FirstIsOldest
  <2>5. since'[p] = since[p] \cup {q}
    BY <1>1, <2>2, <2>3, <2>4 DEF HNext, Record
  <2>6. Range(entries') \subseteq since'[p]
    BY <2>2, <2>4, <2>5
  <2>7. entries' \in Seq(Pair) /\ IsInjective(entries') /\ IsFiniteSet(since'[p])
    BY <1>1, <2>4 DEF HInv, WellFormed, TypeOK, NoDuplicatePairs
  <2>8. Cardinality(Range(entries')) = Len(entries')
    BY <2>7, RangeSize
  <2>9. Cardinality(Range(entries')) <= Cardinality(since'[p])
    BY <2>6, <2>7, FS_Subset
  <2>10. Cardinality(since'[p]) \in Nat /\ Len(entries) \in Nat /\ capacity \in Nat
    BY <1>1, <2>7, FS_CardinalityType, LenProperties DEF HInv, WellFormed, TypeOK
  <2>11. QED
    BY <2>2, <2>8, <2>9, <2>10
<1>2. HInv /\ HInv' /\ [HNext]_hvars => [RetentionStep]_hvars
  BY <1>1
<1>3. QED
  BY <1>2, AlwaysHInv, PTL DEF HSpec, RetainsWorkingSet

(***************************************************************************)
(* The cache implements LRUContract.                                       *)
(***************************************************************************)

\* A key's entries in the list are its pairs in the contract's set.
LEMMA PairsOfKey ==
  ASSUME HInv, NEW k
  PROVE  /\ Contract!PairsOf(k) = {entries[i] : i \in Positions(entries, k)}
         /\ Positions(entries, k) # {} <=> Contract!PairsOf(k) # {}
         /\ ValuesOf(entries, k) = {p[2] : p \in Contract!PairsOf(k)}
         /\ Cardinality(Positions(entries, k)) = Cardinality(Contract!PairsOf(k))
<1> DEFINE P == Positions(entries, k)
           A == Contract!PairsOf(k)
<1>1. /\ entries \in Seq(Pair) /\ IsInjective(entries)
      /\ DOMAIN entries = 1 .. Len(entries) /\ Len(entries) \in Nat
  BY LenProperties DEF HInv, WellFormed, TypeOK, NoDuplicatePairs
<1>2. P \subseteq 1 .. Len(entries) /\ P = {i \in DOMAIN entries : entries[i][1] = k}
  BY <1>1 DEF Positions
<1>3. A = {p \in Range(entries) : p[1] = k}
  BY DEF Contract!PairsOf
<1> HIDE DEF P, A
<1>4. A = {entries[i] : i \in P}
  BY <1>2, <1>3 DEF Range
<1>5. IsFiniteSet(P)
  <2>1. IsFiniteSet(1 .. Len(entries))
    BY <1>1, IntervalSize
  <2>2. QED
    BY <1>2, <2>1, FS_Subset
<1>6. Cardinality(P) = Cardinality(A)
  <2> DEFINE f == [i \in P |-> entries[i]]
  <2>1. f \in [P -> A] /\ \A x \in A : \E i \in P : f[i] = x
    BY <1>4
  <2>2. \A i, j \in P : f[i] = f[j] => i = j
    BY <1>1, <1>2 DEF IsInjective
  <2> HIDE DEF f
  <2>3. f \in Surjection(P, A) /\ f \in Injection(P, A)
    BY <2>1, <2>2 DEF Surjection, Injection, IsInjective
  <2>4. QED
    BY <1>5, <2>3, FS_Surjection
<1>7. ValuesOf(entries, k) = {p[2] : p \in A}
  BY <1>4 DEF ValuesOf, P
<1>8. QED
  BY <1>4, <1>6, <1>7 DEF P, A

\* The entry that get and pop take is the key's least recently used pair.
LEMMA TakesOldest ==
  ASSUME HInv, NEW k, HasKey(entries, k)
  PROVE  /\ LruPosition(entries, k) \in 1 .. Len(entries)
         /\ entries[LruPosition(entries, k)] \in Contract!Oldest(Contract!PairsOf(k))
<1> DEFINE i == LruPosition(entries, k)
<1>1. /\ entries \in Seq(Pair)
      /\ DOMAIN entries = 1 .. Len(entries) /\ Len(entries) \in Nat
  BY LenProperties DEF HInv, WellFormed, TypeOK
<1>2. /\ i \in 1 .. Len(entries) /\ i \in Positions(entries, k)
      /\ \A j \in Positions(entries, k) : i <= j
  BY <1>1, LruPositionProperties
<1>3. Contract!PairsOf(k) = {entries[j] : j \in Positions(entries, k)}
  BY PairsOfKey
<1> HIDE DEF i
<1>4. ASSUME NEW x \in Contract!PairsOf(k), x # entries[i]
      PROVE  x \in since[entries[i]]
  <2>1. PICK j \in Positions(entries, k) : x = entries[j]
    BY <1>3
  <2>2. j \in DOMAIN entries /\ i \in DOMAIN entries /\ i < j
    BY <1>1, <1>2, <1>4, <2>1 DEF Positions
  <2>3. QED
    BY <2>1, <2>2 DEF HInv, RecencyOrder
<1>5. entries[i] \in Contract!PairsOf(k)
  BY <1>2, <1>3
<1>6. QED
  BY <1>2, <1>4, <1>5 DEF Contract!Oldest, i

\* getKey names a key that holds the value, if one does.
LEMMA FoundKey ==
  ASSUME HInv, NEW v
  PROVE  \/ \E p \in Range(entries) : p[2] = v /\ KeyOf(entries, v) = {p[1]}
         \/ (\A p \in Range(entries) : p[2] # v) /\ KeyOf(entries, v) = {}
<1> DEFINE P == {j \in DOMAIN entries : entries[j][2] = v}
<1>1. DOMAIN entries = 1 .. Len(entries) /\ Len(entries) \in Nat
  BY LenProperties DEF HInv, WellFormed, TypeOK
<1>2. CASE P = {}
  <2>1. \A p \in Range(entries) : p[2] # v
    BY <1>2 DEF Range
  <2>2. KeyOf(entries, v) = {}
    BY <1>2 DEF KeyOf
  <2>3. QED
    BY <2>1, <2>2
<1>3. CASE P # {}
  <2>1. P \subseteq Nat
    BY <1>1
  <2>2. PICK i \in P : \A j \in P : i <= j
    BY <1>3, <2>1, LeastPosition
  <2>3. \A h \in 1 .. (i - 1) : entries[h][2] # v
    BY <1>1, <2>2
  <2>4. ASSUME NEW j \in P, \A h \in 1 .. (j - 1) : entries[h][2] # v
        PROVE  j = i
    <3>1. i \in Nat /\ j \in Nat /\ i <= j /\ i >= 1
      BY <1>1, <2>2
    <3>2. ~(i < j)
      BY <2>2, <2>4, <3>1
    <3>3. QED
      BY <3>1, <3>2
  <2>5. KeyOf(entries, v) = {entries[i][1]}
    BY <2>2, <2>3, <2>4 DEF KeyOf
  <2>6. entries[i] \in Range(entries) /\ entries[i][2] = v
    BY <2>2 DEF Range
  <2>7. QED
    BY <2>5, <2>6
<1>4. QED
  BY <1>2, <1>3

\* A call that uses nothing keeps the history.
LEMMA QueryKeepsHistory ==
  ASSUME HInv, Record, UsedBy(result') = {}
  PROVE  since' = since
<1>1. since' = [p \in Pair |-> since[p]]
  BY DEF Record
<1>2. QED
  BY <1>1 DEF HInv

\* A call that uses p.
LEMMA UseIsRecorded ==
  ASSUME NEW p, Record, UsedBy(result') = {p}
  PROVE  Contract!Use(p)
<1>1. since' = [q \in Pair |-> IF q = p THEN {} ELSE since[q] \cup {p}]
  BY DEF Record
<1>2. QED
  BY <1>1 DEF Contract!Use, Contract!Pair, Pair

\* get answers as the contract's get.
LEMMA GetImplements ==
  ASSUME HInv, Record, NEW k \in Key, GetHit(k) \/ GetMiss(k)
  PROVE  Contract!Get(k)
<1>1. entries \in Seq(Pair) /\ IsInjective(entries)
  BY DEF HInv, WellFormed, TypeOK, NoDuplicatePairs
<1>2. CASE GetHit(k)
  <2> DEFINE i == LruPosition(entries, k)
             p == entries[i]
  <2>1. HasKey(entries, k) /\ result' = [op |-> "get", args |-> <<k>>, out |-> {p[2]}]
        /\ entries' = Relocated(entries, i)
    BY <1>2 DEF GetHit, Return
  <2>2. i \in 1 .. Len(entries) /\ p \in Contract!Oldest(Contract!PairsOf(k))
    BY <2>1, TakesOldest
  <2> HIDE DEF i
  <2>3. Range(entries') = Range(entries)
    BY <1>1, <2>1, <2>2, RelocatedKeeps
  <2>4. p \in Pair /\ p[1] = k
    BY <1>1, <2>2, LenProperties DEF Contract!Oldest, Contract!PairsOf
  <2>5. p = <<k, p[2]>>
    BY <2>4 DEF Pair
  <2> HIDE DEF p
  <2>6. UsedBy(result') = {<<k, v>> : v \in {p[2]}}
    BY <2>1 DEF UsedBy
  <2>7. Contract!Use(p)
    BY <2>5, <2>6, UseIsRecorded
  <2>8. QED
    BY <2>1, <2>2, <2>3, <2>7 DEF Contract!Get, Contract!Return
<1>3. CASE GetMiss(k)
  <2>1. /\ ~HasKey(entries, k) /\ UNCHANGED entries
        /\ result' = [op |-> "get", args |-> <<k>>, out |-> {}]
    BY <1>3 DEF GetMiss, Return
  <2>2. Contract!PairsOf(k) = {}
    BY <2>1, PairsOfKey DEF HasKey
  <2>3. UsedBy(result') = {}
    BY <2>1 DEF UsedBy
  <2>4. QED
    BY <2>1, <2>2, <2>3, QueryKeepsHistory DEF Contract!Get, Contract!Return
<1>4. QED
  BY <1>2, <1>3

\* pop takes what the contract's pop takes.
LEMMA PopImplements ==
  ASSUME HInv, Record, NEW k \in Key, Pop(k)
  PROVE  Contract!Pop(k)
<1>1. entries \in Seq(Pair) /\ IsInjective(entries)
  BY DEF HInv, WellFormed, TypeOK, NoDuplicatePairs
<1>2. since' = since
  <2>1. UsedBy(result') = {}
    BY DEF Pop, Return, UsedBy
  <2>2. QED
    BY <2>1, QueryKeepsHistory
<1>3. CASE HasKey(entries, k)
  <2> DEFINE i == LruPosition(entries, k)
  <2>1. /\ result' = [op |-> "pop", args |-> <<k>>, out |-> {entries[i][2]}]
        /\ entries' = RemoveAt(entries, i)
    BY <1>3 DEF Pop, Return
  <2>2. i \in 1 .. Len(entries) /\ entries[i] \in Contract!Oldest(Contract!PairsOf(k))
    BY <1>3, TakesOldest
  <2> HIDE DEF i
  <2>3. Range(entries') = Range(entries) \ {entries[i]}
    BY <1>1, <2>1, <2>2, RemoveAtRange
  <2>4. QED
    BY <1>2, <2>1, <2>2, <2>3 DEF Contract!Pop, Contract!Return
<1>4. CASE ~HasKey(entries, k)
  <2>1. UNCHANGED entries /\ result' = [op |-> "pop", args |-> <<k>>, out |-> {}]
    BY <1>4 DEF Pop, Return
  <2>2. Contract!PairsOf(k) = {}
    BY <1>4, PairsOfKey DEF HasKey
  <2>3. QED
    BY <1>2, <2>1, <2>2 DEF Contract!Pop, Contract!Return
<1>5. QED
  BY <1>3, <1>4

\* The contract counts as the cache does.
LEMMA SameCardinality ==
  ASSUME NEW S
  PROVE  Contract!Cardinality(S) = Cardinality(S)
BY DEF Contract!Cardinality, Cardinality

\* put drops what the contract lets it drop.
LEMMA PutImplements ==
  ASSUME HInv, Record, NEW k \in Key, NEW v \in Value, Put(k, v)
  PROVE  Contract!Put(k, v)
<1> DEFINE p == <<k, v>>
<1>1. result' = [op |-> "put", args |-> p, out |-> {}]
  BY DEF Put, Return
<1>2. Contract!Use(p)
  <2>1. UsedBy(result') = {p}
    BY <1>1 DEF UsedBy
  <2>2. QED
    BY <2>1, UseIsRecorded
<1>3. Contract!HasRoom <=> capacity = 0 \/ Len(entries) < capacity
  <2>1. Cardinality(Range(entries)) = Len(entries)
    BY RangeSize DEF HInv, WellFormed, TypeOK, NoDuplicatePairs
  <2>2. QED
    BY <2>1, SameCardinality DEF Contract!HasRoom
<1>4. CASE /\ p \in Range(entries) \/ capacity = 0 \/ Len(entries) < capacity
           /\ Range(entries') = Range(entries) \cup {p}
  BY <1>1, <1>2, <1>3, <1>4 DEF Contract!Put, Contract!Return
<1>5. CASE /\ p \notin Range(entries) /\ capacity # 0 /\ Len(entries) >= capacity
           /\ 1 \in DOMAIN entries
           /\ Range(entries') = (Range(entries) \ {entries[1]}) \cup {p}
  <2>1. Range(entries) \ {entries[1]} \subseteq since[entries[1]]
    BY <1>5, FirstIsOldest
  <2>2. entries[1] \in Contract!Oldest(Range(entries))
    BY <1>5, <2>1 DEF Contract!Oldest, Range
  <2>3. Len(entries) \in Nat /\ capacity \in Nat
    BY LenProperties DEF HInv, WellFormed, TypeOK
  <2>4. ~Contract!HasRoom
    BY <1>3, <1>5, <2>3
  <2>5. QED
    BY <1>1, <1>2, <1>5, <2>2, <2>4 DEF Contract!Put, Contract!Return
<1>6. QED
  BY <1>4, <1>5, PutCases DEF HInv

\* remove(key) takes the key's pairs.
LEMMA RemoveKeyImplements ==
  ASSUME HInv, Record, NEW k \in Key, RemoveKey(k)
  PROVE  Contract!RemoveKey(k)
<1>1. /\ entries' \in Without(entries, Positions(entries, k))
      /\ result' = [op |-> "removeKey", args |-> <<k>>, out |-> ValuesOf(entries, k)]
  BY DEF RemoveKey, Return
<1>2. since' = since
  <2>1. UsedBy(result') = {}
    BY <1>1 DEF UsedBy
  <2>2. QED
    BY <2>1, QueryKeepsHistory
<1>3. Range(entries') = {entries[i] : i \in DOMAIN entries \ Positions(entries, k)}
  BY <1>1, WithoutRange DEF HInv, WellFormed, TypeOK
<1>4. Range(entries') = Range(entries) \ Contract!PairsOf(k)
  BY <1>3 DEF Positions, Contract!PairsOf, Range
<1>5. QED
  BY <1>1, <1>2, <1>4, PairsOfKey DEF Contract!RemoveKey, Contract!Return

\* remove(key, value) takes the pair.
LEMMA RemovePairImplements ==
  ASSUME HInv, Record, NEW k \in Key, NEW v \in Value, RemovePair(k, v)
  PROVE  Contract!RemovePair(k, v)
<1> DEFINE p == <<k, v>>
<1>1. entries \in Seq(Pair) /\ IsInjective(entries)
  BY DEF HInv, WellFormed, TypeOK, NoDuplicatePairs
<1>2. /\ entries' = ErasePair(entries, k, v)
      /\ result' = [op |-> "removePair", args |-> p,
                    out |-> IF p \in Range(entries) THEN {v} ELSE {}]
  BY DEF RemovePair, Return, HasPair
<1>3. since' = since
  <2>1. UsedBy(result') = {}
    BY <1>2 DEF UsedBy
  <2>2. QED
    BY <2>1, QueryKeepsHistory
<1>4. Range(entries') = Range(entries) \ {p}
  BY <1>1, <1>2, ErasePairRange
<1>5. QED
  BY <1>2, <1>3, <1>4 DEF Contract!RemovePair, Contract!Return

\* clear takes all.
LEMMA ClearImplements ==
  ASSUME HInv, Record, Clear
  PROVE  Contract!Clear
<1>1. entries' = <<>> /\ result' = [op |-> "clear", args |-> <<>>, out |-> {}]
  BY DEF Clear, Return
<1>2. UsedBy(result') = {}
  BY <1>1 DEF UsedBy
<1>3. Range(entries') = {}
  BY <1>1 DEF Range
<1>4. QED
  BY <1>1, <1>2, <1>3, QueryKeepsHistory DEF Contract!Clear, Contract!Return

\* The queries about a key.
LEMMA KeyQueriesImplement ==
  ASSUME HInv, Record, NEW k \in Key,
         ContainsKey(k) \/ ValueSet(k) \/ ValueSetOfAbsentKey(k) \/ ValueRange(k)
  PROVE  Contract!Query
<1> DEFINE A == Contract!PairsOf(k)
<1>1. ASSUME NEW op, NEW out, op \notin {"put", "get"}, Return(op, <<k>>, out),
             UNCHANGED entries
      PROVE  UNCHANGED <<Range(entries), since>>
  <2>1. UsedBy(result') = {}
    BY <1>1 DEF Return, UsedBy
  <2>2. QED
    BY <1>1, <2>1, QueryKeepsHistory
<1>2. CASE ContainsKey(k)
  <2>1. HasKey(entries, k) = (A # {})
    BY PairsOfKey DEF HasKey
  <2>2. Return("containsKey", <<k>>, A # {}) /\ UNCHANGED entries
    BY <1>2, <2>1 DEF ContainsKey
  <2>3. Contract!Return("containsKey", <<k>>, A # {})
    BY <2>2 DEF Return, Contract!Return
  <2>4. QED
    BY <1>1, <2>2, <2>3 DEF Contract!Query
<1>3. CASE ValueRange(k)
  <2>1. Return("valueRange", <<k>>, Contract!Cardinality(A)) /\ UNCHANGED entries
    BY <1>3, PairsOfKey, SameCardinality DEF ValueRange
  <2>2. Contract!Return("valueRange", <<k>>, Contract!Cardinality(A))
    BY <2>1 DEF Return, Contract!Return
  <2>3. UNCHANGED <<Range(entries), since>>
    BY <1>1, <2>1
  <2>4. QED
    BY <2>2, <2>3 DEF Contract!Query
<1>4. CASE ValueSet(k)
  <2>1. /\ A # {} /\ UNCHANGED entries
        /\ Return("valueSet", <<k>>, {p[2] : p \in A})
    BY <1>4, PairsOfKey DEF ValueSet, HasKey
  <2>2. Contract!Return("valueSet", <<k>>, {p[2] : p \in A})
    BY <2>1 DEF Return, Contract!Return
  <2>3. UNCHANGED <<Range(entries), since>>
    BY <1>1, <2>1
  <2>4. QED
    BY <2>1, <2>2, <2>3 DEF Contract!Query
<1>5. CASE ValueSetOfAbsentKey(k)
  <2>1. A = {} /\ UNCHANGED entries
    BY <1>5, PairsOfKey DEF ValueSetOfAbsentKey, HasKey
  <2>2. PICK garbage \in SUBSET Value : Return("valueSet", <<k>>, garbage)
    BY <1>5 DEF ValueSetOfAbsentKey
  <2>3. Contract!Return("valueSet", <<k>>, garbage)
    BY <2>2 DEF Return, Contract!Return
  <2>4. QED
    BY <1>1, <2>1, <2>2, <2>3 DEF Contract!Query
<1>6. QED
  BY <1>2, <1>3, <1>4, <1>5

\* The queries about a value.
LEMMA ValueQueriesImplement ==
  ASSUME HInv, Record, NEW v \in Value, GetKey(v) \/ ContainsValue(v)
  PROVE  Contract!Query
<1> DEFINE C == Range(entries)
<1>1. ASSUME NEW op, NEW out, op \notin {"put", "get"}, Return(op, <<v>>, out),
             UNCHANGED entries
      PROVE  UNCHANGED <<C, since>>
  <2>1. UsedBy(result') = {}
    BY <1>1 DEF Return, UsedBy
  <2>2. QED
    BY <1>1, <2>1, QueryKeepsHistory
<1>2. \/ \E p \in C : p[2] = v /\ KeyOf(entries, v) = {p[1]}
      \/ (\A p \in C : p[2] # v) /\ KeyOf(entries, v) = {}
  BY FoundKey
<1>3. CASE GetKey(v)
  <2>1. Return("getKey", <<v>>, KeyOf(entries, v)) /\ UNCHANGED entries
    BY <1>3 DEF GetKey
  <2>2. Contract!Return("getKey", <<v>>, KeyOf(entries, v))
    BY <2>1 DEF Return, Contract!Return
  <2>3. UNCHANGED <<C, since>>
    BY <1>1, <2>1
  <2>4. CASE \E p \in C : p[2] = v /\ KeyOf(entries, v) = {p[1]}
    <3>1. PICK p \in C : p[2] = v /\ KeyOf(entries, v) = {p[1]}
      BY <2>4
    <3>2. Contract!Return("getKey", <<v>>, {p[1]})
      BY <2>2, <3>1
    <3>3. QED
      BY <2>3, <3>1, <3>2 DEF Contract!Query
  <2>5. CASE (\A p \in C : p[2] # v) /\ KeyOf(entries, v) = {}
    <3>1. Contract!Return("getKey", <<v>>, {})
      BY <2>2, <2>5
    <3>2. QED
      BY <2>3, <2>5, <3>1 DEF Contract!Query
  <2>6. QED
    BY <1>2, <2>4, <2>5
<1>4. CASE ContainsValue(v)
  <2>1. (KeyOf(entries, v) # {}) = (\E p \in C : p[2] = v)
    BY <1>2
  <2>2. Return("containsValue", <<v>>, \E p \in C : p[2] = v) /\ UNCHANGED entries
    BY <1>4, <2>1 DEF ContainsValue
  <2>3. Contract!Return("containsValue", <<v>>, \E p \in C : p[2] = v)
    BY <2>2 DEF Return, Contract!Return
  <2>4. QED
    BY <1>1, <2>2, <2>3 DEF Contract!Query
<1>5. QED
  BY <1>3, <1>4

\* The queries about the whole cache.
LEMMA CacheQueriesImplement ==
  ASSUME HInv, Record, EntrySet \/ Size \/ IsEmpty \/ IsFull
  PROVE  Contract!Query
<1> DEFINE C == Range(entries)
<1>1. ASSUME NEW op, NEW out, op \notin {"put", "get"}, Return(op, <<>>, out),
             UNCHANGED entries
      PROVE  UNCHANGED <<C, since>>
  <2>1. UsedBy(result') = {}
    BY <1>1 DEF Return, UsedBy
  <2>2. QED
    BY <1>1, <2>1, QueryKeepsHistory
<1>2. /\ Len(entries) = Contract!Cardinality(C) /\ Len(entries) \in Nat /\ capacity \in Nat
      /\ DOMAIN entries = 1 .. Len(entries)
  BY RangeSize, SameCardinality, LenProperties
     DEF HInv, WellFormed, TypeOK, NoDuplicatePairs
<1>3. CASE EntrySet
  <2>1. Return("entrySet", <<>>, C) /\ UNCHANGED entries
    BY <1>3 DEF EntrySet
  <2>2. Contract!Return("entrySet", <<>>, C)
    BY <2>1 DEF Return, Contract!Return
  <2>3. QED
    BY <1>1, <2>1, <2>2 DEF Contract!Query
<1>4. CASE Size
  <2>1. Return("size", <<>>, Contract!Cardinality(C)) /\ UNCHANGED entries
    BY <1>2, <1>4 DEF Size
  <2>2. Contract!Return("size", <<>>, Contract!Cardinality(C))
    BY <2>1 DEF Return, Contract!Return
  <2>3. QED
    BY <1>1, <2>1, <2>2 DEF Contract!Query
<1>5. CASE IsEmpty
  <2>1. (Len(entries) = 0) = (C = {})
    <3>1. ASSUME Len(entries) = 0 PROVE C = {}
      <4>1. DOMAIN entries = {}
        BY <1>2, <3>1
      <4>2. QED
        BY <4>1 DEF Range
    <3>2. ASSUME C = {} PROVE Len(entries) = 0
      <4>1. ~(1 \in DOMAIN entries)
        BY <3>2 DEF Range
      <4>2. QED
        BY <1>2, <4>1
    <3>3. QED
      BY <3>1, <3>2
  <2>2. Return("isEmpty", <<>>, C = {}) /\ UNCHANGED entries
    BY <1>5, <2>1 DEF IsEmpty
  <2>3. Contract!Return("isEmpty", <<>>, C = {})
    BY <2>2 DEF Return, Contract!Return
  <2>4. QED
    BY <1>1, <2>2, <2>3 DEF Contract!Query
<1>6. CASE IsFull
  <2> DEFINE full == IF capacity = 0 THEN FALSE ELSE Len(entries) >= capacity
  <2>1. full = ~Contract!HasRoom
    <3>1. Contract!HasRoom <=> capacity = 0 \/ Len(entries) < capacity
      BY <1>2 DEF Contract!HasRoom
    <3>2. full = ~(capacity = 0 \/ Len(entries) < capacity)
      <4>1. CASE capacity = 0
        BY <4>1
      <4>2. CASE capacity # 0
        <5>1. (Len(entries) >= capacity) = ~(Len(entries) < capacity)
          BY <1>2
        <5>2. QED
          BY <4>2, <5>1
      <4>3. QED
        BY <4>1, <4>2
    <3>3. (~Contract!HasRoom) = ~(capacity = 0 \/ Len(entries) < capacity)
      BY <3>1
    <3> HIDE DEF full
    <3>4. QED
      BY <3>2, <3>3
  <2>2. Return("isFull", <<>>, full) /\ UNCHANGED entries
    BY <1>6 DEF IsFull
  <2> HIDE DEF full
  <2>3. Return("isFull", <<>>, ~Contract!HasRoom)
    BY <2>1, <2>2
  <2>4. Contract!Return("isFull", <<>>, ~Contract!HasRoom)
    BY <2>3 DEF Return, Contract!Return
  <2>5. QED
    BY <1>1, <2>2, <2>3, <2>4 DEF Contract!Query
<1>7. QED
  BY <1>3, <1>4, <1>5, <1>6

\* The new cache is the contract's.
LEMMA InitImplements == HInit => Contract!Init
<1> SUFFICES ASSUME HInit PROVE Contract!Init
  OBVIOUS
<1>1. Range(entries) = {}
  BY DEF HInit, Init, Range
<1>2. QED
  BY <1>1 DEF HInit, Init, Contract!Init, Contract!Pair, Pair

\* Every call is a call of the contract.
LEMMA NextImplements == HInv /\ [HNext]_hvars => [Contract!Next]_(Contract!vars)
<1>1. ASSUME HInv, HNext
      PROVE  Contract!Next
  <2>1. Record /\ UNCHANGED capacity /\ Call
    BY <1>1 DEF HNext, Next
  <2>2. ASSUME NEW k \in Key, GetHit(k) \/ GetMiss(k) \/ Pop(k) \/ RemoveKey(k)
        PROVE  Contract!Get(k) \/ Contract!Pop(k) \/ Contract!RemoveKey(k)
    BY <1>1, <2>1, <2>2, GetImplements, PopImplements, RemoveKeyImplements
  <2>3. ASSUME NEW k \in Key, NEW v \in Value, Put(k, v) \/ RemovePair(k, v)
        PROVE  Contract!Put(k, v) \/ Contract!RemovePair(k, v)
    BY <1>1, <2>1, <2>3, PutImplements, RemovePairImplements
  <2>4. ASSUME Clear PROVE Contract!Clear
    BY <1>1, <2>1, <2>4, ClearImplements
  <2>5. ASSUME \/ \E k \in Key : \/ ContainsKey(k) \/ ValueSet(k)
                                 \/ ValueSetOfAbsentKey(k) \/ ValueRange(k)
               \/ \E v \in Value : GetKey(v) \/ ContainsValue(v)
               \/ EntrySet \/ Size \/ IsEmpty \/ IsFull
        PROVE  Contract!Query
    BY <1>1, <2>1, <2>5, KeyQueriesImplement, ValueQueriesImplement, CacheQueriesImplement
  <2>6. QED
    BY <2>1, <2>2, <2>3, <2>4, <2>5 DEF Call, Contract!Next
<1>2. ASSUME UNCHANGED hvars
      PROVE  UNCHANGED Contract!vars
  BY <1>2 DEF hvars, Contract!vars
<1>3. QED
  BY <1>1, <1>2

\* For every capacity and all keys and values the cache does what the contract
\* says, call by call.
THEOREM Implements == HSpec => ImplementsContract
<1>1. QED
  BY InitImplements, NextImplements, AlwaysHInv, PTL
     DEF HSpec, ImplementsContract, Contract!Spec
=============================================================================
