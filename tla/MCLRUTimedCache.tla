--------------------------- MODULE MCLRUTimedCache ---------------------------
(***************************************************************************)
(* LRUTimedCache on small instances.                                *)
(***************************************************************************)
EXTENDS LRUTimedCache

CONSTANTS t1, t2, k1, k2, v1, v2

TwoThreads == {t1, t2}
OneThread  == {t1}
TwoKeys    == {k1, k2}
OneKey     == {k1}
TwoValues  == {v1, v2}
OneValue   == {v1}

\* Nothing distinguishes the threads, nor the keys, nor the values.
Interchangeable ==
  Permutations(Thread) \cup Permutations(Key) \cup Permutations(Value)
=============================================================================
