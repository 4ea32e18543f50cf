--------------------------- MODULE MCSSLContextUtil ---------------------------
(***************************************************************************)
(* SSLContextUtilHistory on a small instance.                              *)
(***************************************************************************)
EXTENDS SSLContextUtilHistory

CONSTANTS rel, root, bare,  \* a path, the same with a slash, and another with one
          c1, c2, torn,     \* two key stores, and one cut off
          w1, w2, jks, odd

MCPath    == {rel, root, bare}
MCSlashed == [p \in MCPath |-> IF p = bare THEN bare ELSE root]

\* One loader finds nothing at all and the other a store, at one place.
MCSystem == [p \in MCPath |-> Absent]
MCOwn    == [p \in MCPath |-> IF p = root THEN c2 ELSE Absent]

\* All there is of each store, with either path, and what may be missing or wrong.
Arg(p, w, t) == [path |-> p, password |-> w, type |-> t]
MCGiven == {Arg(rel, w1, jks), Arg(bare, w1, jks), Arg(rel, w2, jks), Arg(rel, NULL, jks),
            Arg(rel, w1, odd), Arg(rel, w1, NULL), Arg(NULL, w1, jks), Arg(NULL, NULL, NULL)}

\* Both open with one password, one also has keys that open with it.
MCOpens    == {<<c1, w1, jks>>, <<c2, w1, jks>>}
MCRecovers == {<<c1, w1>>}
=============================================================================
