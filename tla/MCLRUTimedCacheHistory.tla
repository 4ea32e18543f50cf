----------------------- MODULE MCLRUTimedCacheHistory -----------------------
(***************************************************************************)
(* LRUTimedCacheHistory on the instances of MCLRUTimedCache.               *)
(***************************************************************************)
EXTENDS MCLRUTimedCache, LRUTimedCacheHistory
=============================================================================
