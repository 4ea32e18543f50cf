----------------------------- MODULE MCLRUCache -----------------------------
(***************************************************************************)
(* LRUCacheHistory on small instances.                                     *)
(***************************************************************************)
EXTENDS LRUCacheHistory

CONSTANTS k1, k2, v1, v2

MCKey   == {k1, k2}
MCValue == {v1, v2}

\* No limit, a cache smaller than the working set, and one larger than it.
MCCapacities == {0, 2, 3}

\* Keys are interchangeable, and so are values.
Interchangeable == Permutations(MCKey) \cup Permutations(MCValue)
=============================================================================
