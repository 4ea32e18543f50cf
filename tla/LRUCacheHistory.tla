-------------------------- MODULE LRUCacheHistory --------------------------
(***************************************************************************)
(* LRUCache with a history variable: for every pair, the pairs used since  *)
(* it was last used.  The variable is a function of the calls alone and    *)
(* constrains nothing.  It is what "least recently used" means, so that    *)
(* the list's order can be compared with it.                               *)
(***************************************************************************)
EXTENDS LRUCache

VARIABLE since   \* history: since[p] is the set of pairs used after p's last use

hvars == <<capacity, entries, result, since>>

\* The pair a call has used: the one it put, or the one whose value it got.
UsedBy(call) ==
  CASE call.op = "put" -> {call.args}
    [] call.op = "get" -> {<<call.args[1], v>> : v \in call.out}
    [] OTHER           -> {}

Record == since' = [p \in Pair |-> IF p \in UsedBy(result') THEN {}
                                   ELSE since[p] \cup UsedBy(result')]

HInit == Init /\ since = [p \in Pair |-> {}]
HNext == Next /\ Record
HSpec == HInit /\ [][HNext]_hvars

-----------------------------------------------------------------------------

\* The list's order is the order of use: what stands behind an entry in the list
\* was used after it and what stands before it was not, however gets, puts,
\* replacements and removals have moved the nodes.
RecencyOrder ==
  \A i, j \in DOMAIN entries :
     i < j => /\ entries[j] \in since[entries[i]]
              /\ entries[i] \notin since[entries[j]]

\* The cache is an LRU multimap as LRUContract defines one: every call returns
\* what the contract allows, put evicts only a least recently used pair and only
\* for want of room, get and pop choose the key's least recently used value, and
\* the queries answer about the set of pairs.
Contract == INSTANCE LRUContract WITH content <- Range(entries)

ImplementsContract == Contract!Spec

\* A put never evicts an entry before as many other pairs as the cache has room
\* for were used after it: a working set no larger than the capacity stays.
RetentionStep ==
  result'.op = "put" =>
    \A p \in Range(entries) \ Range(entries') :
       capacity # 0 /\ Cardinality(since'[p]) >= capacity

RetainsWorkingSet == [][RetentionStep]_hvars
=============================================================================
