------------------------------ MODULE LRUCache ------------------------------
(***************************************************************************)
(* LRUCache<K, V>: a bounded multimap from keys to values that drops its   *)
(* least recently used entry when a put finds it full.                     *)
(*                                                                         *)
(* Every public method takes the cache's mutex once, for all of its reads  *)
(* and writes of the container (isEmpty and isFull through size()), so a   *)
(* call is one atomic action whichever thread makes it.  LRUTimedCache,    *)
(* whose methods take the mutex more than once, models the threads.        *)
(***************************************************************************)
EXTENDS LRUList

CONSTANTS Key,       \* K
          Value,     \* V
          Capacities \* the arguments the constructor may be given, 0 for no limit

ASSUME CapacitiesAssumption == Capacities \subseteq Nat

VARIABLES capacity,  \* _capacity
          entries,   \* _cache, as its right view
          result     \* the last call that returned: its name, arguments, value

vars == <<capacity, entries, result>>

Pair == Key \X Value

Return(op, args, out) == result' = [op |-> op, args |-> args, out |-> out]

Init == /\ capacity \in Capacities
        /\ entries = <<>>
        /\ result = [op |-> "LRUCache", args |-> <<capacity>>, out |-> {}]

(***************************************************************************)
(* Calls that change the cache.                                            *)
(***************************************************************************)
GetHit(k) ==
  /\ HasKey(entries, k)
  /\ entries' = Relocated(entries, LruPosition(entries, k))
  /\ Return("get", <<k>>, {entries[LruPosition(entries, k)][2]})

GetMiss(k) ==
  /\ ~HasKey(entries, k)
  /\ Return("get", <<k>>, {})
  /\ UNCHANGED entries

Pop(k) ==
  \/ /\ HasKey(entries, k)
     /\ entries' = RemoveAt(entries, LruPosition(entries, k))
     /\ Return("pop", <<k>>, {entries[LruPosition(entries, k)][2]})
  \/ /\ ~HasKey(entries, k)
     /\ Return("pop", <<k>>, {})
     /\ UNCHANGED entries

Put(k, v) ==
  /\ entries' = Inserted(entries, capacity, k, v)
  /\ Return("put", <<k, v>>, {})

\* remove(key).  The list returned is in the order of the hashed view, which is
\* unspecified: the model returns its elements.
RemoveKey(k) ==
  /\ entries' \in Without(entries, Positions(entries, k))
  /\ Return("removeKey", <<k>>, ValuesOf(entries, k))

\* remove(key, value)
RemovePair(k, v) ==
  /\ entries' = ErasePair(entries, k, v)
  /\ Return("removePair", <<k, v>>, IF HasPair(entries, k, v) THEN {v} ELSE {})

Clear ==
  /\ entries' = <<>>
  /\ Return("clear", <<>>, {})

(***************************************************************************)
(* Calls that only read it.                                                *)
(***************************************************************************)
ContainsKey(k) == Return("containsKey", <<k>>, HasKey(entries, k)) /\ UNCHANGED entries

GetKey(v) == Return("getKey", <<v>>, KeyOf(entries, v)) /\ UNCHANGED entries

ContainsValue(v) == Return("containsValue", <<v>>, KeyOf(entries, v) # {}) /\ UNCHANGED entries

EntrySet == Return("entrySet", <<>>, Range(entries)) /\ UNCHANGED entries

ValueSet(k) ==
  /\ HasKey(entries, k)
  /\ Return("valueSet", <<k>>, ValuesOf(entries, k))
  /\ UNCHANGED entries

\* The do-while loop of valueSet reads the first entry of the key's range before
\* it tests for the end of the range.  With no entry for the key it reads through
\* the end iterator, which is undefined: the call may return anything.  (It may
\* also end the process; a behaviour that stops here is one that only stutters.)
ValueSetOfAbsentKey(k) ==
  /\ ~HasKey(entries, k)
  /\ \E garbage \in SUBSET Value : Return("valueSet", <<k>>, garbage)
  /\ UNCHANGED entries

Size == Return("size", <<>>, Len(entries)) /\ UNCHANGED entries

IsEmpty == Return("isEmpty", <<>>, Len(entries) = 0) /\ UNCHANGED entries

IsFull ==
  /\ Return("isFull", <<>>, IF capacity = 0 THEN FALSE ELSE Len(entries) >= capacity)
  /\ UNCHANGED entries

ValueRange(k) ==
  /\ Return("valueRange", <<k>>, Cardinality(Positions(entries, k)))
  /\ UNCHANGED entries

Call ==
  \/ \E k \in Key : GetHit(k) \/ GetMiss(k) \/ Pop(k) \/ RemoveKey(k)
  \/ \E k \in Key, v \in Value : Put(k, v) \/ RemovePair(k, v)
  \/ \E k \in Key : ContainsKey(k) \/ ValueSet(k) \/ ValueSetOfAbsentKey(k) \/ ValueRange(k)
  \/ \E v \in Value : GetKey(v) \/ ContainsValue(v)
  \/ Clear \/ EntrySet \/ Size \/ IsEmpty \/ IsFull

Next == Call /\ UNCHANGED capacity

Spec == Init /\ [][Next]_vars

-----------------------------------------------------------------------------

\* The container is a list of pairs of a key and a value, in that order.
TypeOK == capacity \in Nat /\ entries \in Seq(Pair)

\* The container never holds the same key-value pair twice: put relies on
\* findEntry finding the only copy of what it replaces, remove(key, value) and
\* the expunging of LRUTimedCache on erasing the only copy of what they remove.
NoDuplicatePairs == IsInjective(entries)

\* A cache with a capacity never exceeds it, although put evicts at most one
\* entry: it must never be over capacity before, and a put of a pair that is
\* there already must make its own room.
WithinCapacity == capacity # 0 => Len(entries) <= capacity

\* What valueSet's comment promises: "a copy set of values that map to the
\* specified key", whatever the key (LRUCache.h:133-140).  The code does not
\* deliver it for a key that is not in the cache.
ValueSetIsExact ==
  result.op = "valueSet" => result.out = ValuesOf(entries, result.args[1])
=============================================================================
