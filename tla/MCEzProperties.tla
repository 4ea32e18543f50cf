--------------------------- MODULE MCEzProperties ---------------------------
(***************************************************************************)
(* EzPropertiesHistory on small instances.                                 *)
(***************************************************************************)
EXTENDS EzPropertiesHistory, TLC

CONSTANTS t1, t2, k1, k2, v1, v2, f1, f2

OneThread  == {t1}
TwoThreads == {t1, t2}
OneKey     == {k1}
TwoKeys    == {k1, k2}
OneValue   == {v1}
TwoValues  == {v1, v2}
OneFile    == {f1}
TwoFiles   == {f1, f2}

\* Nothing distinguishes the threads, the keys, the values or the files.
Interchangeable == Permutations(Thread) \cup Permutations(Key)
                     \cup Permutations(Value) \cup Permutations(File)
=============================================================================
