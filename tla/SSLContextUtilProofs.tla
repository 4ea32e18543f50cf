------------------------- MODULE SSLContextUtilProofs -------------------------
(***************************************************************************)
(* What is proved of SSLContextUtil: no context comes out of stores that   *)
(* were not all asked for, loaded and opened, nor of any that their paths  *)
(* did not name during the call.                                           *)
(***************************************************************************)
EXTENDS SSLContextUtilHistory, TLAPS

(***************************************************************************)
(* The inductive invariant: a store that is loaded was asked for and       *)
(* opens, and the call comes to the trust store, and to the context, only  *)
(* when what was asked for before is loaded.                               *)
(***************************************************************************)
IsLoaded(w) ==
  /\ args[w].path # NULL /\ args[w].type \in Supported
  /\ <<stores[w], args[w].password, args[w].type>> \in Opens

Typed ==
  /\ which \in Which /\ stores \in [Which -> Content \cup {NULL}]
  /\ args \in [Which -> Arguments]

LoadedOpen == \A w \in Which : stores[w] # NULL => IsLoaded(w)

InOrder ==
  /\ pc \in {"open", "resource", "load"} =>
       /\ args[which].path # NULL
       /\ which = "trust" /\ args["key"].path # NULL => stores["key"] # NULL
  /\ pc = "init" => \A w \in Which : args[w].path # NULL => stores[w] # NULL
  /\ outcome # "none" => pc = "idle"

IInv == Typed /\ LoadedOpen /\ InOrder /\ ContextIsComplete

\* The types of the arguments.
LEMMA ArgumentsAreTyped == NoArgument \in Arguments /\ Given \subseteq Arguments
  BY StoreAssumption DEF NoArgument, Arguments

\* At first there is nothing.
LEMMA InitHolds == Init => IInv
  BY ArgumentsAreTyped DEF Init, IInv, Typed, LoadedOpen, InOrder, ContextIsComplete, Which

\* A call begins with no store.
LEMMA CallBegins == IInv /\ GetSSLContext => IInv'
<1> SUFFICES ASSUME IInv, GetSSLContext
             PROVE  IInv'
  OBVIOUS
<1>1. /\ stores' = [w \in Which |-> NULL] /\ outcome' = "none"
      /\ args' \in [Which -> Arguments] /\ GoOn(Begin(args'))
  BY ArgumentsAreTyped DEF GetSSLContext, Which
<1>2. /\ pc' \in {"open", "init"} /\ which' \in Which
      /\ pc' = "open" => args'[which'].path # NULL
      /\ which' = "trust" => args'["key"].path = NULL
      /\ pc' = "init" => \A w \in Which : args'[w].path = NULL
  BY <1>1 DEF GoOn, Begin, AfterKey, Which
<1>3. QED
  BY <1>1, <1>2 DEF IInv, Typed, LoadedOpen, InOrder, ContextIsComplete, Which

\* An end without a context, from wherever.
LEMMA EndsBadly ==
  ASSUME IInv, NEW what, what # "context", Ends(what)
  PROVE  IInv'
  BY DEF IInv, Typed, LoadedOpen, IsLoaded, InOrder, ContextIsComplete, Ends, Goto

\* Within a call, before it has loaded what it is at.
LEMMA Opening == IInv /\ (OpenFile \/ OpenFails \/ OpenResource) => IInv'
<1> SUFFICES ASSUME IInv, OpenFile \/ OpenFails \/ OpenResource
             PROVE  IInv'
  OBVIOUS
<1>1. CASE Ends("IOException")
  BY <1>1, EndsBadly
<1>2. CASE /\ pc \in {"open", "resource"} /\ pc' \in {"resource", "load"}
           /\ UNCHANGED <<args, which, stores, outcome>>
  BY <1>2 DEF IInv, Typed, LoadedOpen, IsLoaded, InOrder, ContextIsComplete
<1>3. QED
  BY <1>1, <1>2 DEF OpenFile, OpenFails, OpenResource, Goto

\* A store is loaded, or the call ends.
LEMMA Loading == IInv /\ LoadKeystore => IInv'
<1> SUFFICES ASSUME IInv, LoadKeystore
             PROVE  IInv'
  OBVIOUS
<1>1. PICK content : LoadFails(content) \/ LoadSucceeds(content)
  BY DEF LoadKeystore
<1>2. CASE LoadFails(content)
  <2>1. PICK what \in {"NullPointerException", "SSLContextException", "IOException"} : Ends(what)
    BY <1>2 DEF LoadFails
  <2>2. QED
    BY <2>1, EndsBadly
<1>3. CASE LoadSucceeds(content)
  <2>1. /\ pc = "load" /\ which \in Which /\ args[which].path # NULL
        /\ outcome = "none" /\ outcome' = outcome /\ args' = args
    BY <1>3 DEF LoadKeystore, LoadSucceeds, IInv, Typed, InOrder
  <2>2. /\ content \in Content /\ content # NULL
        /\ <<content, args[which].password, args[which].type>> \in Opens
        /\ args[which].type \in Supported
    BY <1>3, StoreAssumption DEF LoadSucceeds, StorePassword
  <2>3. stores' = [stores EXCEPT ![which] = content] /\ stores \in [Which -> Content \cup {NULL}]
    BY <1>3 DEF LoadSucceeds, IInv, Typed
  <2>4. /\ stores'[which] = content
        /\ \A w \in Which : w # which => stores'[w] = stores[w]
        /\ stores' \in [Which -> Content \cup {NULL}]
    BY <2>1, <2>2, <2>3
  <2>5. /\ which' = "trust" /\ pc' \in {"open", "init"}
        /\ pc' = "open" => which = "key" /\ args["trust"].path # NULL
        /\ pc' = "init" => which = "trust" \/ args["trust"].path = NULL
    BY <1>3, <2>1 DEF LoadSucceeds, GoOn, AfterKey, Which
  <2>6. LoadedOpen'
    BY <2>1, <2>2, <2>4 DEF IInv, LoadedOpen, IsLoaded
  <2>7. InOrder'
    BY <2>1, <2>2, <2>4, <2>5 DEF IInv, InOrder, Which
  <2>8. Typed' /\ ContextIsComplete'
    BY <2>1, <2>4, <2>5 DEF IInv, Typed, ContextIsComplete, Which
  <2>9. QED
    BY <2>6, <2>7, <2>8 DEF IInv
<1>4. QED
  BY <1>1, <1>2, <1>3

\* The context is made of what is loaded.
LEMMA Finishing == IInv /\ InitContext => IInv'
<1> SUFFICES ASSUME IInv, InitContext
             PROVE  IInv'
  OBVIOUS
<1>1. CASE Ends("NullPointerException") \/ Ends("SSLContextException")
  BY <1>1, EndsBadly
<1>2. CASE /\ Ends("context")
           /\ stores["key"] # NULL => <<stores["key"], args["key"].password>> \in Recovers
  <2>1. /\ UNCHANGED <<args, which, stores>> /\ pc' = "idle" /\ outcome' = "context"
        /\ pc = "init"
    BY <1>2 DEF Ends, Goto, InitContext
  <2>2. \A w \in Which : (args[w].path # NULL <=> stores[w] # NULL)
                         /\ (stores[w] # NULL => IsLoaded(w))
    BY <2>1 DEF IInv, InOrder, LoadedOpen, IsLoaded
  <2>3. ContextIsComplete'
    BY <1>2, <2>1, <2>2 DEF ContextIsComplete, IsLoaded, Which
  <2>4. QED
    BY <2>1, <2>3 DEF IInv, Typed, LoadedOpen, IsLoaded, InOrder
<1>3. QED
  BY <1>1, <1>2 DEF InitContext

\* For every class path, every behaviour of the files and every set of arguments, a
\* context is made of all the stores asked for, each opened with its own password.
THEOREM Complete == Spec => []ContextIsComplete
<1>1. IInv /\ [Next]_vars => IInv'
  <2> SUFFICES ASSUME IInv, [Next]_vars
               PROVE  IInv'
    OBVIOUS
  <2>1. CASE UNCHANGED <<pc, which, args, stores, outcome>>
    BY <2>1 DEF IInv, Typed, LoadedOpen, IsLoaded, InOrder, ContextIsComplete
  <2>2. QED
    BY <2>1, CallBegins, Opening, Loading, Finishing DEF Next, ChangeFile, vars
<1>2. IInv => ContextIsComplete
  BY DEF IInv
<1>3. QED
  BY <1>1, <1>2, InitHolds, PTL DEF Spec

\* An end of the call keeps the types.
LEMMA EndsTyped ==
  ASSUME TypeOK, NEW what \in {"context", "IOException", "NullPointerException",
                                 "SSLContextException"},
         Ends(what)
  PROVE  TypeOK'
  BY DEF TypeOK, Ends, Goto

\* A store that has a path has one that names something.
LEMMA PathsAreTyped ==
  ASSUME TypeOK, pc \in {"open", "resource", "load"}
  PROVE  args[which].path \in Path
  BY ArgumentsAreTyped DEF TypeOK, Arguments

\* For every class path, every behaviour of the files and every set of arguments, what
\* is opened is a key store, also where neither the file nor the resource is there.
THEOREM TypeCorrect == Spec => []TypeOK
<1>1. Init => TypeOK
  BY DEF Init, TypeOK, Which
<1>2. TypeOK /\ [Next]_vars => TypeOK'
  <2> SUFFICES ASSUME TypeOK, [Next]_vars PROVE TypeOK'
    OBVIOUS
  <2>1. CASE UNCHANGED vars
    BY <2>1 DEF TypeOK, vars
  <2>2. CASE GetSSLContext
    <3>1. /\ args' \in [Which -> Given \cup {NoArgument}] /\ GoOn(Begin(args'))
          /\ stores' = [w \in Which |-> NULL] /\ outcome' = "none" /\ UNCHANGED files
      BY <2>2 DEF GetSSLContext
    <3>2. /\ pc' \in {"open", "init"} /\ which' \in Which
          /\ pc' = "open" => args'[which'].path # NULL
      BY <3>1 DEF GoOn, Begin, AfterKey, Which
    <3>3. QED
      BY <3>1, <3>2 DEF TypeOK
  <2>3. CASE OpenFile
    <3>1. args[which].path \in Path /\ files[args[which].path] \in Content
      BY <2>3, PathsAreTyped DEF OpenFile, FileAt, TypeOK
    <3>2. stream' \in [is : Content, file : Path \cup {NULL}]
      BY <2>3, <3>1 DEF OpenFile, FileAt
    <3>3. QED
      BY <2>3, <3>2 DEF OpenFile, Goto, TypeOK
  <2>4. CASE OpenFails
    BY <2>4 DEF OpenFails, Goto, TypeOK
  <2>5. CASE OpenResource
    <3>1. CASE Ends("IOException")
      BY <3>1, EndsTyped
    <3>2. CASE /\ Found(Slashed[args[which].path])
               /\ stream' = [is |-> GetResource(Slashed[args[which].path]), file |-> NULL]
               /\ Goto("load") /\ UNCHANGED <<which, stores, outcome>>
      <4>1. Slashed[args[which].path] \in Path
        BY <2>5, PathsAreTyped, StoreAssumption DEF OpenResource
      <4>2. GetResource(Slashed[args[which].path]) \in Content
        BY <3>2, <4>1, StoreAssumption DEF GetResource, Found
      <4>3. stream' \in [is : Content, file : Path \cup {NULL}]
        BY <3>2, <4>2
      <4>4. args[which].path # NULL
        BY <2>5 DEF OpenResource, TypeOK
      <4>5. QED
        BY <3>2, <4>3, <4>4 DEF Goto, TypeOK
    <3>3. QED
      BY <2>5, <3>1, <3>2 DEF OpenResource
  <2>6. CASE LoadKeystore
    <3>1. PICK content : LoadFails(content) \/ LoadSucceeds(content)
      BY <2>6 DEF LoadKeystore
    <3>2. CASE LoadFails(content)
      <4>1. PICK what \in {"NullPointerException", "SSLContextException", "IOException"} :
               Ends(what)
        BY <3>2 DEF LoadFails
      <4>2. QED
        BY <4>1, EndsTyped
    <3>3. CASE LoadSucceeds(content)
      <4>1. content \in Content
        BY <3>3, StoreAssumption DEF LoadSucceeds
      <4>2. stores' \in [Which -> Content \cup {NULL}]
        BY <3>3, <4>1 DEF LoadSucceeds, TypeOK
      <4>3. /\ pc' \in {"open", "init"} /\ which' = "trust"
            /\ pc' = "open" => args'[which'].path # NULL
        BY <2>6, <3>3 DEF LoadSucceeds, LoadKeystore, GoOn, AfterKey, TypeOK, Which
      <4>4. QED
        BY <3>3, <4>2, <4>3 DEF LoadSucceeds, TypeOK, Which
    <3>4. QED
      BY <3>1, <3>2, <3>3
  <2>7. CASE InitContext
    BY <2>7, EndsTyped DEF InitContext
  <2>8. CASE ChangeFile
    BY <2>8 DEF ChangeFile, TypeOK
  <2>9. QED
    BY <2>1, <2>2, <2>3, <2>4, <2>5, <2>6, <2>7, <2>8 DEF Next
<1>3. QED
  BY <1>1, <1>2, PTL DEF Spec

(***************************************************************************)
(* With the history: what is open, and what is loaded, has been named, and *)
(* where the class path is to be searched its resource has been, because   *)
(* there was no file.                                                      *)
(***************************************************************************)
NamesNow == \A w \in Which : Names(files, args[w].path) \in named[w]

StoresNamed == \A w \in Which : stores[w] # NULL => stores[w] \in named[w] \ Damaged

StreamNamed ==
  /\ pc = "resource" => GetResource(Slashed[args[which].path]) \in named[which]
  /\ pc = "load" => /\ stream.is \in named[which]
                    /\ stream.file \in {NULL, args[which].path}

HInv == TypeOK /\ (pc # "idle" => NamesNow /\ StoresNamed /\ StreamNamed)

\* What was named once in a call stays so to its end, and what is named now is added.
LEMMA NamesAreKept ==
  ASSUME HInv, HNext
  PROVE  /\ NamesNow'
         /\ pc # "idle" => \A w \in Which : named[w] \subseteq named'[w]
  BY DEF HNext, NamesNow

\* The step that loads a store.
LEMMA LoadsWhatWasNamed ==
  ASSUME HInv, HNext, pc = "load", NEW content \in Read, LoadSucceeds(content)
  PROVE  content \in named[which] \ Damaged
<1>1. content \notin Damaged
  BY StoreAssumption DEF LoadSucceeds
<1>2. which \in Which /\ args[which].path # NULL /\ NamesNow /\ StreamNamed
  BY DEF HInv, TypeOK
<1>3. CASE content = stream.is
  BY <1>1, <1>2, <1>3 DEF StreamNamed
<1>4. CASE content # stream.is
  <2>1. /\ stream.file = args[which].path
        /\ content = files[args[which].path] /\ content # Absent
    BY <1>1, <1>2, <1>4 DEF Read, StreamNamed
  <2>2. content = Names(files, args[which].path)
    BY <1>2, <2>1 DEF Names
  <2>3. QED
    BY <1>1, <1>2, <2>2 DEF NamesNow
<1>5. QED
  BY <1>3, <1>4

\* Every step keeps the invariant.
LEMMA NextHInv == HInv /\ TypeOK' /\ [HNext]_hvars => HInv'
<1> SUFFICES ASSUME HInv, TypeOK', [HNext]_hvars PROVE HInv'
  OBVIOUS
<1>1. CASE UNCHANGED hvars
  BY <1>1 DEF HInv, NamesNow, StoresNamed, StreamNamed, hvars, vars
<1>2. CASE HNext
  <2>1. NamesNow' /\ (pc # "idle" => \A w \in Which : named[w] \subseteq named'[w])
    BY <1>2, NamesAreKept
  <2>2. ASSUME NEW what, Ends(what) PROVE HInv'
    BY <2>2 DEF HInv, Ends, Goto
  <2>3. CASE GetSSLContext
    <3>1. stores' = [w \in Which |-> NULL] /\ pc' \in {"open", "init"}
      BY <2>3 DEF GetSSLContext, GoOn, Begin, AfterKey
    <3>2. QED
      BY <2>1, <3>1 DEF HInv, StoresNamed, StreamNamed
  <2>4. ASSUME pc # "idle", UNCHANGED stores PROVE StoresNamed'
    BY <2>1, <2>4 DEF HInv, StoresNamed
  <2>5. CASE OpenFile
    <3>1. /\ which \in Which /\ which' = which /\ args[which].path # NULL /\ args' = args
          /\ pc = "open" /\ pc' = "load" /\ UNCHANGED stores
          /\ stream' = [is |-> files[args[which].path], file |-> args[which].path]
          /\ files[args[which].path] # Absent
      BY <2>5 DEF OpenFile, FileAt, Goto, HInv, TypeOK
    <3>2. stream'.is = Names(files, args[which].path)
      BY <3>1 DEF Names
    <3>3. stream'.is \in named'[which]
      BY <2>1, <3>1, <3>2 DEF HInv, NamesNow
    <3>4. StreamNamed'
      BY <3>1, <3>3 DEF StreamNamed
    <3>5. QED
      BY <2>1, <2>4, <3>1, <3>4 DEF HInv
  <2>6. CASE OpenFails
    <3>1. /\ which \in Which /\ which' = which /\ args[which].path # NULL /\ args' = args
          /\ pc = "open" /\ pc' = "resource" /\ UNCHANGED stores
          /\ files[args[which].path] = Absent
      BY <2>6 DEF OpenFails, FileAt, Goto, HInv, TypeOK
    <3>2. GetResource(Slashed[args[which].path]) = Names(files, args[which].path)
      BY <3>1 DEF Names
    <3>3. GetResource(Slashed[args[which].path]) \in named'[which]
      BY <2>1, <3>1, <3>2 DEF HInv, NamesNow
    <3>4. StreamNamed'
      BY <3>1, <3>3 DEF StreamNamed, GetResource
    <3>5. QED
      BY <2>1, <2>4, <3>1, <3>4 DEF HInv
  <2>7. CASE OpenResource
    <3>1. CASE /\ stream' = [is |-> GetResource(Slashed[args[which].path]), file |-> NULL]
               /\ Goto("load") /\ UNCHANGED <<which, stores, outcome>>
      <4>1. pc = "resource" /\ pc' = "load" /\ which \in Which
        BY <2>7, <3>1 DEF OpenResource, Goto, HInv, TypeOK
      <4>2. StreamNamed'
        BY <2>1, <3>1, <4>1 DEF HInv, StreamNamed
      <4>3. QED
        BY <2>1, <2>4, <3>1, <4>1, <4>2 DEF HInv
    <3>2. QED
      BY <2>2, <2>7, <3>1 DEF OpenResource
  <2>8. CASE LoadKeystore
    <3>1. PICK content \in Read : LoadFails(content) \/ LoadSucceeds(content)
      BY <2>8 DEF LoadKeystore
    <3>2. CASE LoadFails(content)
      BY <2>2, <3>2 DEF LoadFails
    <3>3. CASE LoadSucceeds(content)
      <4>1. pc = "load" /\ pc' \in {"open", "init"}
        BY <2>8, <3>3 DEF LoadKeystore, LoadSucceeds, GoOn, AfterKey
      <4>2. content \in named[which] \ Damaged
        BY <1>2, <3>3, <4>1, LoadsWhatWasNamed
      <4>3. stores' = [stores EXCEPT ![which] = content] /\ which \in Which
        BY <3>3 DEF LoadSucceeds, HInv, TypeOK
      <4>4. StoresNamed'
        BY <2>1, <4>1, <4>2, <4>3 DEF HInv, TypeOK, StoresNamed
      <4>5. QED
        BY <2>1, <4>1, <4>4 DEF HInv, StreamNamed
    <3>4. QED
      BY <3>1, <3>2, <3>3
  <2>9. CASE InitContext
    BY <2>2, <2>9 DEF InitContext
  <2>10. CASE ChangeFile
    <3>1. UNCHANGED <<pc, which, args, stream, stores>> /\ which \in Which
      BY <2>10 DEF ChangeFile, HInv, TypeOK
    <3>2. pc # "idle" => StreamNamed'
      BY <2>1, <3>1 DEF HInv, StreamNamed, GetResource
    <3>3. QED
      BY <2>1, <2>4, <3>1, <3>2 DEF HInv
  <2>11. QED
    BY <1>2, <2>3, <2>5, <2>6, <2>7, <2>8, <2>9, <2>10 DEF HNext, Next
<1>3. QED
  BY <1>1, <1>2

\* For every class path and every behaviour of the files, each store of a context is
\* what its path named at some moment during the call, and not torn.
THEOREM Current == HSpec => StoresAreCurrent
<1>1. HInit => Init /\ HInv
  BY DEF HInit, Init, HInv, TypeOK, Which
<1>2. [HNext]_hvars => [Next]_vars
  BY DEF HNext, hvars
<1>3. HSpec => Spec
  BY <1>1, <1>2, PTL DEF HSpec, Spec
<1>4. HSpec => []HInv
  BY <1>1, <1>3, TypeCorrect, NextHInv, PTL DEF HSpec
<1>5. HInv /\ [HNext]_hvars =>
        [(pc = "init" /\ outcome' = "context") =>
            \A w \in Which : stores[w] # NULL => stores[w] \in named[w] \ Damaged]_hvars
  BY DEF HInv, StoresNamed
<1>6. QED
  BY <1>4, <1>5, PTL DEF HSpec, StoresAreCurrent
=============================================================================
