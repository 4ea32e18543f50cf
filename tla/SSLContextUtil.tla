--------------------------- MODULE SSLContextUtil ---------------------------
(***************************************************************************)
(* SSLContextUtil.getSSLContext and ClasspathResources.getResource: where  *)
(* a key store and a trust store are looked for, how they are loaded, and  *)
(* the context that is made of them, while others replace the files.       *)
(*                                                                         *)
(* The methods are static and share nothing: one call at a time is enough. *)
(* What a key store says is a member of Content; whether it opens, and     *)
(* whether its keys do, is the JDK's affair.                               *)
(***************************************************************************)
EXTENDS Naturals, FiniteSets

CONSTANTS Path,
          Slashed,      \* the path with a slash before it, if it has none
          Empty,        \* the path without a character
          Content,      \* of key stores
          Absent,
          System, Own,  \* the resources that two class loaders find
          Password, Type,
          NULL,
          Given,        \* the arguments considered: a path, a password and a type
          Supported,    \* the types of key store there are
          Opens,        \* content, password and type go together
          Damaged,      \* contents, not even well-formed
          Recovers      \* the content's keys open with the password

Arguments == [path : Path \cup {NULL}, password : Password \cup {NULL}, type : Type \cup {NULL}]

ASSUME StoreAssumption ==
  /\ Given \subseteq Arguments
  /\ Slashed \in [Path -> Path] /\ \A p \in Path : Slashed[p] # Empty
  /\ System \in [Path -> Content \cup {Absent}] /\ Own \in [Path -> Content \cup {Absent}]
  /\ Absent \notin Content
  /\ NULL \notin Path \cup Password \cup Type \cup Content
  /\ Supported \subseteq Type
  /\ Opens \subseteq (Content \ Damaged) \X Password \X Type
  /\ Recovers \subseteq Content \X Password

Which == {"key", "trust"}

VARIABLES files,    \* what is at each path
          pc, which,
          args,     \* the path, password and type of each store
          stream,   \* what was opened: a content, and the path if it is a file
          stores,   \* the stores loaded
          outcome   \* how the call ended

vars == <<files, pc, which, args, stream, stores, outcome>>

NoArgument == [path |-> NULL, password |-> NULL, type |-> NULL]
NoStream  == [is |-> NULL, file |-> NULL]

Init ==
  /\ files \in [Path -> Content \cup {Absent}]
  /\ pc = "idle" /\ which = "key"
  /\ args = [w \in Which |-> NoArgument]
  /\ stream = NoStream
  /\ stores = [w \in Which |-> NULL]
  /\ outcome = "none"

Goto(l)    == pc' = l /\ UNCHANGED <<files, args>>
Ends(what) == Goto("idle") /\ outcome' = what /\ UNCHANGED <<which, stream, stores>>

\* What the thread's context class loader finds is overwritten by what the system
\* class loader finds; the loader of this class is the last resort.
GetResource(path) ==
  IF path = Empty THEN Absent
  ELSE IF System[path] # Absent THEN System[path]
  ELSE Own[path]

(***************************************************************************)
(* getSSLContext(keystore, keystorePass, keystoreType, truststore, ...).   *)
(***************************************************************************)
\* Where the call goes on: to a store that was asked for, or to the context.
AfterKey(as) == <<IF as["trust"].path # NULL THEN "open" ELSE "init", "trust">>
Begin(as)    == IF as["key"].path # NULL THEN <<"open", "key">> ELSE AfterKey(as)

GoOn(place) == pc' = place[1] /\ which' = place[2]

GetSSLContext ==
  /\ pc = "idle"
  /\ \E key, trust \in Given : args' = [w \in Which |-> IF w = "key" THEN key ELSE trust]
  /\ GoOn(Begin(args'))
  /\ stream' = NoStream
  /\ stores' = [w \in Which |-> NULL]
  /\ outcome' = "none"
  /\ UNCHANGED files

\* getInputStream: the file, if there is one, at the path as it was given.
\* Mutant: with the slash that the class path wants.
RootedFileAt(path) == files[Slashed[path]]
FileAt(path) == files[path]

OpenFile ==
  /\ pc = "open" /\ FileAt(args[which].path) # Absent
  /\ stream' = [is |-> FileAt(args[which].path), file |-> args[which].path]
  /\ Goto("load") /\ UNCHANGED <<which, stores, outcome>>

OpenFails ==
  /\ pc = "open" /\ FileAt(args[which].path) = Absent
  /\ Goto("resource") /\ UNCHANGED <<which, stream, stores, outcome>>

\* Otherwise the class path, from its root.  Mutant: whatever comes of it.
Anything(path) == TRUE
Found(path) == GetResource(path) # Absent

OpenResource ==
  /\ pc = "resource"
  /\ LET path == Slashed[args[which].path] IN
        \/ /\ Found(path)
           /\ stream' = [is |-> GetResource(path), file |-> NULL]
           /\ Goto("load") /\ UNCHANGED <<which, stores, outcome>>
        \/ ~Found(path) /\ Ends("IOException")

(***************************************************************************)
(* loadKeystore(stream, password, type).  A file that is replaced keeps    *)
(* its old content for those who have it open; one that is written over    *)
(* has the new content, or as long as that takes, neither.                 *)
(***************************************************************************)
Read ==
  {stream.is} \cup
  IF stream.file = NULL \/ files[stream.file] = stream.is THEN {}
  ELSE Damaged \cup ({files[stream.file]} \ {Absent})

\* The password of a store.  Mutant: the one of the key store for both.
KeyPassword(w) == args["key"].password
StorePassword(w) == args[w].password

LoadFails(content) ==
  LET a == args[which] IN
  \/ NULL \in {a.password, a.type} /\ Ends("NullPointerException")
  \/ /\ NULL \notin {a.password, a.type}
     /\ a.type \notin Supported
     /\ Ends("SSLContextException")
  \/ /\ NULL \notin {a.password, a.type} /\ a.type \in Supported
     /\ <<content, StorePassword(which), a.type>> \notin Opens
     /\ \E what \in {"IOException"} \cup IF content \in Damaged THEN {"SSLContextException"} ELSE {} :
           Ends(what)

LoadSucceeds(content) ==
  /\ args[which].type \in Supported
  /\ <<content, StorePassword(which), args[which].type>> \in Opens
  /\ stores' = [stores EXCEPT ![which] = content]
  /\ GoOn(IF which = "key" THEN AfterKey(args) ELSE <<"init", "trust">>)
  /\ stream' = NoStream
  /\ UNCHANGED <<files, args, outcome>>

LoadKeystore ==
  /\ pc = "load"
  /\ \E content \in Read : LoadFails(content) \/ LoadSucceeds(content)

\* The key managers want a password even if there is no key store.
InitContext ==
  /\ pc = "init"
  /\ LET password == args["key"].password IN
        \/ password = NULL /\ Ends("NullPointerException")
        \/ /\ password # NULL
           /\ stores["key"] # NULL /\ <<stores["key"], password>> \notin Recovers
           /\ Ends("SSLContextException")
        \/ /\ password # NULL
           /\ stores["key"] # NULL => <<stores["key"], password>> \in Recovers
           /\ Ends("context")

\* Somebody puts a file at a path, replaces it, or takes it away.
ChangeFile ==
  /\ \E p \in Path, c \in Content \cup {Absent} : files' = [files EXCEPT ![p] = c]
  /\ UNCHANGED <<pc, which, args, stream, stores, outcome>>

Next ==
  \/ GetSSLContext \/ OpenFile \/ OpenFails \/ OpenResource \/ LoadKeystore
  \/ InitContext \/ ChangeFile

Spec == Init /\ [][Next]_vars

-----------------------------------------------------------------------------

\* What is opened, and what is loaded, is a key store: a path that names nothing ends
\* the call.
TypeOK ==
  /\ files \in [Path -> Content \cup {Absent}]
  /\ pc \in {"idle", "open", "resource", "load", "init"} /\ which \in Which
  /\ args \in [Which -> Given \cup {NoArgument}]
  /\ pc \in {"open", "resource", "load"} => args[which].path # NULL
  /\ pc = "load" => stream \in [is : Content, file : Path \cup {NULL}]
  /\ stores \in [Which -> Content \cup {NULL}]
  /\ outcome \in {"none", "context", "IOException", "NullPointerException",
                   "SSLContextException"}

\* A context is made of the stores that were asked for, all of them and no other: each
\* is one its own password and type open, and the keys open with the key store's
\* password.  A failure at any step leaves no context.
ContextIsComplete ==
  outcome = "context" =>
     /\ \A w \in Which :
           \/ args[w].path = NULL /\ stores[w] = NULL
           \/ /\ args[w].path # NULL /\ args[w].type \in Supported
              /\ <<stores[w], args[w].password, args[w].type>> \in Opens
     /\ args["key"].path # NULL => <<stores["key"], args["key"].password>> \in Recovers
=============================================================================
