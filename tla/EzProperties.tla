---------------------------- MODULE EzProperties ----------------------------
(***************************************************************************)
(* EzProperties as a store: a java.util.Properties (a hash table and a     *)
(* reference to the Properties that serve as its defaults) into which      *)
(* other properties, the files of a directory or a class path resource are *)
(* merged, with a check for keys that are there already unless the caller  *)
(* asks to override.                                                       *)
(*                                                                         *)
(* The methods of the hash table are synchronized, those of EzProperties   *)
(* that call them are not: getCollisions reads the names of this object in *)
(* one call and those of the other one in a second, mergeProperties copies *)
(* in a third, and a load is one such merge per file.  The threads below   *)
(* interleave there.  EzPropertiesCrypto models what getProperty and       *)
(* setProperty do with encrypted values.                                   *)
(*                                                                         *)
(* A table maps every key to a set with its value, or to the empty set.    *)
(***************************************************************************)
EXTENDS Integers, FiniteSets

CONSTANTS Thread,
          Key, Value,
          File,              \* the names of files in a directory
          DefaultsMayChange  \* does anybody change the defaults after construction?

VARIABLES own,       \* the object's own table
          defaults,  \* the table of the object's defaults, held by reference
          pc,        \* pc[t]: where t is in its call
          job,       \* job[t]: what t's call has in local variables
          outcome    \* outcome[t]: how t's last merge or load ended

vars == <<own, defaults, pc, job, outcome>>

Optional == {S \in SUBSET Value : Cardinality(S) <= 1}
Table    == [Key -> Optional]
Empty    == [k \in Key |-> {}]

\* A Properties object: its own table and its defaults.
Properties == [own : Table, defaults : Table]

Names(table) == {k \in Key : table[k] # {}}

\* Hashtable.putAll: the values of new replace those of old.
\* Mutant: they are added to them.
AddAll(old, new) == [k \in Key |-> old[k] \cup new[k]]
PutAll(old, new) == [k \in Key |-> IF new[k] # {} THEN new[k] ELSE old[k]]

\* What getProperty finds: the own value, or else the defaults'.
Effective(table, dflt) == PutAll(dflt, table)

\* stringPropertyNames() includes the names of the defaults, which it reads while it
\* holds the monitor of the object.  Mutant: it does not include them.
OwnNames(table, dflt) == Names(table)
StringPropertyNames(table, dflt) == Names(table) \cup Names(dflt)

\* getCollisions(toCheck), when it has read the names of this object.
GetCollisions(known, toCheck) == known \cap StringPropertyNames(toCheck.own, toCheck.defaults)

NoFiles == [f \in {} |-> Empty]
NoJob   == [files |-> NoFiles, todo |-> {}, toMerge |-> {}, override |-> FALSE,
            known |-> {}]    \* the names of this object, as getCollisions read them

Job == [files : UNION {[fs -> Table] : fs \in SUBSET File}, todo : SUBSET File,
        toMerge : SUBSET Properties, override : BOOLEAN, known : SUBSET Key]

Ok          == [is |-> "ok", keys |-> {}]
Duplicate(K) == [is |-> "DuplicatePropertyException", keys |-> K]
IOFailure   == [is |-> "IOException", keys |-> {}]
Illegal     == [is |-> "IllegalArgumentException", keys |-> {}]
Concurrent  == [is |-> "ConcurrentModificationException", keys |-> {}]

\* The constructor copies the own table of props, or keeps props as defaults.
Init ==
  /\ \E props \in Properties :
        \/ own = props.own /\ defaults = Empty
        \/ own = Empty /\ defaults = Effective(props.own, props.defaults)
  /\ pc = [t \in Thread |-> "idle"]
  /\ job = [t \in Thread |-> NoJob]
  /\ outcome = [t \in Thread |-> Ok]

Goto(t, from, to) == pc[t] = from /\ pc' = [pc EXCEPT ![t] = to]

Begin(t, to, call) ==
  /\ Goto(t, "idle", to)
  /\ job' = [job EXCEPT ![t] = call]
  /\ outcome' = [outcome EXCEPT ![t] = Ok]

End(t, from, how) ==
  /\ Goto(t, from, "idle")
  /\ job' = [job EXCEPT ![t] = NoJob]
  /\ outcome' = [outcome EXCEPT ![t] = how]

\* Where mergeProperties begins.  Mutant: it never checks.
Unchecked(override) == "put"
MergeEntry(override) == IF override THEN "put" ELSE "check"

\* mergeProperties(toMerge, shouldOverride), called directly
Merge(t) ==
  /\ \E props \in Properties, override \in BOOLEAN :
       Begin(t, MergeEntry(override),
             [NoJob EXCEPT !.toMerge = {props}, !.override = override])
  /\ UNCHANGED <<own, defaults>>

\* getCollisions(toMerge) reads the names of this object under its monitor, which it
\* releases,
Check(t) ==
  /\ Goto(t, "check", "compare")
  /\ job' = [job EXCEPT ![t].known = StringPropertyNames(own, defaults)]
  /\ UNCHANGED <<own, defaults, outcome>>

\* and then those of toMerge, under the monitor of that object.
Compare(t) ==
  /\ \E props \in job[t].toMerge :
       LET collisions == GetCollisions(job[t].known, props)
       IN  \/ /\ collisions = {}
              /\ Goto(t, "compare", "put")
              /\ UNCHANGED <<job, outcome>>
           \/ /\ collisions # {}
              /\ End(t, "compare", Duplicate(collisions))
  /\ UNCHANGED <<own, defaults>>

\* putAll(toMerge) copies toMerge's own table.  Then the call returns, or the load
\* goes on with the next file.
Put(t) ==
  /\ \E props \in job[t].toMerge : own' = PutAll(own, props.own)
  /\ IF DOMAIN job[t].files = {}
     THEN End(t, "put", Ok)
     ELSE /\ Goto(t, "put", "load")
          /\ job' = [job EXCEPT ![t].toMerge = {}, ![t].known = {}]
          /\ UNCHANGED outcome
  /\ UNCHANGED defaults

\* The properties to merge are the caller's, not a copy: others change them, or their
\* defaults, before the check, within it, and between it and the copy.  Those of a file
\* are the load's own.
Shared(t) == DOMAIN job[t].files = {}

ChangeToMerge(t) ==
  /\ pc[t] \in {"check", "compare", "put"} /\ Shared(t)
  /\ \E props \in job[t].toMerge, k \in Key, S \in Optional :
       \E changed \in {[props EXCEPT !.own[k] = S], [props EXCEPT !.defaults[k] = S]} :
          job' = [job EXCEPT ![t].toMerge = {changed}]
  /\ UNCHANGED <<own, defaults, pc, outcome>>

\* They are changed while they are copied: the keys that were copied stay.
PutFails(t) ==
  /\ Shared(t)
  /\ \E props \in job[t].toMerge, K \in SUBSET Key :
       own' = PutAll(own, [k \in Key |-> IF k \in K THEN props.own[k] ELSE {}])
  /\ End(t, "put", Concurrent)
  /\ UNCHANGED defaults

(***************************************************************************)
(* loadFromDirectory: the directory stream yields the matching files in no *)
(* particular order.  loadFromClassPath is the same with one resource.     *)
(***************************************************************************)
LoadFromDirectory(t) ==
  /\ \E fs \in SUBSET File : \E contents \in [fs -> Table], override \in BOOLEAN :
       Begin(t, "load", [NoJob EXCEPT !.files = contents, !.todo = fs,
                                      !.override = override])
  /\ UNCHANGED <<own, defaults>>

LoadFromClassPath(t) ==
  /\ \E f \in File, content \in Table, override \in BOOLEAN :
       Begin(t, "load", [NoJob EXCEPT !.files = [g \in {f} |-> content], !.todo = {f},
                                      !.override = override])
  /\ UNCHANGED <<own, defaults>>

\* A directory or a resource that is not there.
LoadNothing(t) ==
  /\ pc[t] = "idle"
  /\ outcome' = [outcome EXCEPT ![t] = Illegal]
  /\ UNCHANGED <<own, defaults, pc, job>>

LoadFile(t) ==
  /\ \E f \in job[t].todo :
       job' = [job EXCEPT ![t].toMerge = {[own |-> job[t].files[f], defaults |-> Empty]},
                          ![t].todo = @ \ {f}]
  /\ Goto(t, "load", MergeEntry(job[t].override))
  /\ UNCHANGED <<own, defaults, outcome>>

\* The directory cannot be listed or a file cannot be opened, read or parsed.
\* What the load has merged stays.
LoadFails(t) ==
  /\ \E how \in {IOFailure, Illegal} : End(t, "load", how)
  /\ UNCHANGED <<own, defaults>>

LoadDone(t) ==
  /\ job[t].todo = {}
  /\ End(t, "load", Ok)
  /\ UNCHANGED <<own, defaults>>

\* The inherited setProperty(key, value) and remove(key).
SetProperty(t, k, S) ==
  /\ pc[t] = "idle"
  /\ own' = [own EXCEPT ![k] = S]
  /\ UNCHANGED <<defaults, pc, job, outcome>>

\* Somebody else who holds the Properties given to the constructor changes it.
ChangeDefaults ==
  /\ DefaultsMayChange
  /\ \E k \in Key, S \in Optional : defaults' = [defaults EXCEPT ![k] = S]
  /\ UNCHANGED <<own, pc, job, outcome>>

Next ==
  \/ \E t \in Thread :
       \/ Merge(t) \/ Check(t) \/ Compare(t) \/ Put(t) \/ ChangeToMerge(t) \/ PutFails(t)
       \/ LoadFromDirectory(t) \/ LoadFromClassPath(t) \/ LoadNothing(t)
       \/ LoadFile(t) \/ LoadFails(t) \/ LoadDone(t)
       \/ \E k \in Key, S \in Optional : SetProperty(t, k, S)
  \/ ChangeDefaults

Spec == Init /\ [][Next]_vars

-----------------------------------------------------------------------------

\* The tables hold values, whatever the merges copy, and a call names only keys.
TypeOK ==
  /\ own \in Table /\ defaults \in Table
  /\ pc \in [Thread -> {"idle", "check", "compare", "put", "load"}]
  /\ job \in [Thread -> Job]
  /\ \A t \in Thread : outcome[t].keys \subseteq Key
=============================================================================
