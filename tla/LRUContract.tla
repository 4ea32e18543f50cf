---------------------------- MODULE LRUContract ----------------------------
(***************************************************************************)
(* What an LRU cache promises its users, with no list and no multimap: a   *)
(* set of key-value pairs and, for every pair, the pairs used since it was *)
(* last used itself (a pair is used when it is put and when get returns    *)
(* its value).  "Least recently used" is defined by that history alone.    *)
(***************************************************************************)
EXTENDS Integers, FiniteSets

CONSTANTS Key, Value, Capacities

VARIABLES capacity,  \* 0 for no limit
          content,   \* the pairs in the cache
          since,     \* since[p]: the pairs used after p's last use
          result     \* the last call that returned

vars == <<capacity, content, since, result>>

Pair == Key \X Value

PairsOf(k) == {p \in content : p[1] = k}

\* The least recently used pairs of S: all the others were used after them.
Oldest(S) == {p \in S : S \ {p} \subseteq since[p]}

HasRoom == capacity = 0 \/ Cardinality(content) < capacity

Return(op, args, out) == result' = [op |-> op, args |-> args, out |-> out]

Use(p) == since' = [q \in Pair |-> IF q = p THEN {} ELSE since[q] \cup {p}]

Init == /\ capacity \in Capacities
        /\ content = {}
        /\ since = [p \in Pair |-> {}]
        /\ result = [op |-> "LRUCache", args |-> <<capacity>>, out |-> {}]

\* get returns the key's least recently used value and uses it.
Get(k) ==
  \/ \E p \in Oldest(PairsOf(k)) : /\ Return("get", <<k>>, {p[2]})
                                   /\ Use(p)
                                   /\ UNCHANGED content
  \/ /\ PairsOf(k) = {}
     /\ Return("get", <<k>>, {})
     /\ UNCHANGED <<content, since>>

Pop(k) ==
  /\ \/ \E p \in Oldest(PairsOf(k)) : /\ Return("pop", <<k>>, {p[2]})
                                      /\ content' = content \ {p}
     \/ /\ PairsOf(k) = {}
        /\ Return("pop", <<k>>, {})
        /\ UNCHANGED content
  /\ UNCHANGED since

\* put drops a pair only when a new pair finds no room, and then one that is
\* least recently used.
Put(k, v) ==
  /\ \/ /\ <<k, v>> \in content \/ HasRoom
        /\ content' = content \cup {<<k, v>>}
     \/ /\ <<k, v>> \notin content /\ ~HasRoom
        /\ \E p \in Oldest(content) : content' = (content \ {p}) \cup {<<k, v>>}
  /\ Use(<<k, v>>)
  /\ Return("put", <<k, v>>, {})

RemoveKey(k) ==
  /\ content' = content \ PairsOf(k)
  /\ Return("removeKey", <<k>>, {p[2] : p \in PairsOf(k)})
  /\ UNCHANGED since

RemovePair(k, v) ==
  /\ content' = content \ {<<k, v>>}
  /\ Return("removePair", <<k, v>>, IF <<k, v>> \in content THEN {v} ELSE {})
  /\ UNCHANGED since

Clear ==
  /\ content' = {}
  /\ Return("clear", <<>>, {})
  /\ UNCHANGED since

\* The queries answer about the set of pairs.  valueSet promises nothing about a
\* key that is not there; getKey may name any key that holds the value.
Query ==
  /\ \/ \E k \in Key :
          \/ Return("containsKey", <<k>>, PairsOf(k) # {})
          \/ Return("valueRange", <<k>>, Cardinality(PairsOf(k)))
          \/ /\ PairsOf(k) # {}
             /\ Return("valueSet", <<k>>, {p[2] : p \in PairsOf(k)})
          \/ /\ PairsOf(k) = {}
             /\ \E any \in SUBSET Value : Return("valueSet", <<k>>, any)
     \/ \E v \in Value :
          \/ Return("containsValue", <<v>>, \E p \in content : p[2] = v)
          \/ \E p \in content : p[2] = v /\ Return("getKey", <<v>>, {p[1]})
          \/ (\A p \in content : p[2] # v) /\ Return("getKey", <<v>>, {})
     \/ Return("entrySet", <<>>, content)
     \/ Return("size", <<>>, Cardinality(content))
     \/ Return("isEmpty", <<>>, content = {})
     \/ Return("isFull", <<>>, ~HasRoom)
  /\ UNCHANGED <<content, since>>

Next ==
  /\ \/ \E k \in Key : Get(k) \/ Pop(k) \/ RemoveKey(k)
     \/ \E k \in Key, v \in Value : Put(k, v) \/ RemovePair(k, v)
     \/ Clear
     \/ Query
  /\ UNCHANGED capacity

Spec == Init /\ [][Next]_vars
=============================================================================
