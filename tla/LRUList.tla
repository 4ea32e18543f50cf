------------------------------- MODULE LRUList -------------------------------
(***************************************************************************)
(* The container of an LRUCache<K, V> and the bodies of its critical       *)
(* sections, as operators on a list.                                       *)
(*                                                                         *)
(* The code keeps a Boost bimap with two views of the same nodes: a hashed *)
(* multimap from keys (_cache.left) and a list (_cache.right), which is in *)
(* recency order: begin() is the least recently used entry, an insertion   *)
(* or a relocation puts an entry at end().  The model keeps the list, a    *)
(* sequence of pairs <<key, value>>; the multimap view of a key is the set *)
(* of its positions in the list.                                           *)
(*                                                                         *)
(* A boost::optional<T> is a set with at most one element.                 *)
(***************************************************************************)
EXTENDS Integers, FiniteSets, SequencesExt

(***************************************************************************)
(* The left view.                                                          *)
(***************************************************************************)

\* _cache.left.equal_range(k)
Positions(s, k) == {i \in DOMAIN s : s[i][1] = k}

HasKey(s, k) == Positions(s, k) # {}

ValuesOf(s, k) == {s[i][2] : i \in Positions(s, k)}

\* findEntry(k, v).  The order of a range of the hashed view is unspecified:
\* which of several equal pairs is found is not defined.  NoDuplicatePairs says
\* there is never more than one.
HasPair(s, k, v) == <<k, v>> \in Range(s)

PairPosition(s, k, v) == CHOOSE i \in DOMAIN s : s[i] = <<k, v>>

\* getLruEntry(k): the entry of k's range that is nearest to the list's begin.
\* Mutant: the comparison of the two distances is the wrong way round.
MruPosition(s, k) == CHOOSE i \in Positions(s, k) :
                        \A j \in Positions(s, k) : i >= j

LruPosition(s, k) == CHOOSE i \in Positions(s, k) :
                        \A j \in Positions(s, k) : i <= j

\* The key getKey(v) finds: that of the first entry in list order with value v.
KeyOf(s, v) == {s[i][1] : i \in {j \in DOMAIN s :
                   s[j][2] = v /\ \A h \in 1 .. (j - 1) : s[h][2] # v}}

(***************************************************************************)
(* The operations that change the list.                                    *)
(***************************************************************************)

\* Mutant: get does not relocate what it returns.
NotRelocated(s, i) == s

\* _cache.right.relocate(end, i)
Relocated(s, i) == Append(RemoveAt(s, i), s[i])

\* The list after put(k, v): an equal pair is erased, then, if the list is still
\* at a non-zero capacity, the entry at begin(), then the pair goes to the end.
ErasePair(s, k, v) == IF HasPair(s, k, v) THEN RemoveAt(s, PairPosition(s, k, v)) ELSE s

\* Mutants: an off-by-one in the test, and eviction at the wrong end.
EvictIfOver(s, cap) == IF cap # 0 /\ Len(s) > cap THEN Tail(s) ELSE s
EvictNewest(s, cap) == IF cap # 0 /\ Len(s) >= cap THEN Front(s) ELSE s

EvictIfFull(s, cap) == IF cap # 0 /\ Len(s) >= cap THEN Tail(s) ELSE s

\* Mutants: put forgets to erase an equal pair; it evicts before it erases one; it
\* builds the entry from (value, key).
InsertedTwice(s, cap, k, v) == Append(EvictIfFull(s, cap), <<k, v>>)
EvictedThenErased(s, cap, k, v) == Append(ErasePair(EvictIfFull(s, cap), k, v), <<k, v>>)
InsertedSwapped(s, cap, k, v) == Append(EvictIfFull(ErasePair(s, k, v), cap), <<v, k>>)

Inserted(s, cap, k, v) == Append(EvictIfFull(ErasePair(s, k, v), cap), <<k, v>>)

\* The list without the positions in gone, in the same order: the subsequence
\* along the increasing enumeration of the positions kept (there is exactly one,
\* so the set below is a singleton).  left.erase(key) with gone the key's range.
Without(s, gone) ==
  LET kept == DOMAIN s \ gone
      n    == Cardinality(kept)
  IN  {[j \in 1 .. n |-> s[f[j]]] :
         f \in {g \in [1 .. n -> kept] : \A a, b \in 1 .. n : a < b => g[a] < g[b]}}

\* The order of the list, without its positions: which of the elements of S stands
\* before which.
Before(s, S) == {p \in S \X S : \E i, j \in DOMAIN s : i < j /\ p = <<s[i], s[j]>>}
==============================================================================
