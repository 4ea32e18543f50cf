------------------------ MODULE SSLContextUtilHistory ------------------------
(***************************************************************************)
(* SSLContextUtil with a history: what each of the two paths has named     *)
(* since the call began.                                                   *)
(***************************************************************************)
EXTENDS SSLContextUtil

VARIABLE named   \* of each store, the contents its path named during the call

hvars == <<vars, named>>

\* What a path names: the file, or else the resource.
Names(fs, path) ==
  IF path = NULL THEN Absent
  ELSE IF fs[path] # Absent THEN fs[path]
  ELSE GetResource(Slashed[path])

HInit == Init /\ named = [w \in Which |-> {}]

HNext ==
  /\ Next
  /\ named' = [w \in Which |-> {Names(files', args'[w].path)} \cup
                                  IF pc = "idle" THEN {} ELSE named[w]]

HSpec == HInit /\ [][HNext]_hvars

\* Every store of a context is what its path named at some moment during the call: a
\* file before a resource, even if the file comes, goes, or is written over meanwhile,
\* and never a torn one.
StoresAreCurrent ==
  [][(pc = "init" /\ outcome' = "context") =>
        \A w \in Which : stores[w] # NULL => stores[w] \in named[w] \ Damaged]_hvars
=============================================================================
