------------------------ MODULE MCEzPropertiesCrypto ------------------------
(***************************************************************************)
(* EzPropertiesCrypto on small instances.                                  *)
(***************************************************************************)
EXTENDS EzPropertiesCrypto, TLC

CONSTANTS t1, t2, k1, w1, p1, p2

OneThread    == {t1}
TwoThreads   == {t1, t2}
OneKey       == {k1}
OneWord      == {w1}
OneProvider  == {p1}
TwoProviders == {p1, p2}
NoBlanks     == {FALSE}
SomeBlanks   == BOOLEAN

\* Nothing distinguishes the threads, nor the providers.
Interchangeable == Permutations(Thread) \cup Permutations(Provider)
=============================================================================
