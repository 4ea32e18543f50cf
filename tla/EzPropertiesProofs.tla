-------------------------- MODULE EzPropertiesProofs --------------------------
(***************************************************************************)
(* What holds of EzProperties for any number of threads, keys, values and  *)
(* files.                                                                  *)
(***************************************************************************)
EXTENDS EzPropertiesHistory, FiniteSetTheorems, TLAPS

\* What a call has in local variables, where it matters for the copy: at most one
\* object to merge, and, when a load has found no collision, none of the names that the
\* object had at the first reading in the file to copy, which nobody else changes.
Prepared(t) ==
  /\ \A p, q \in job[t].toMerge : p = q
  /\ job[t].todo \subseteq DOMAIN job[t].files
  /\ pc[t] = "put" /\ ~job[t].override /\ ~Shared(t) =>
        \A p \in job[t].toMerge : Names(p.own) \cap job[t].known = {}

Typed ==
  /\ pc \in [Thread -> {"idle", "check", "compare", "put", "load"}]
  /\ job \in [Thread -> Job]

IInv == Typed /\ \A t \in Thread : Prepared(t)

\* What a thread has between its calls.
LEMMA NoJobIsAJob ==
  /\ NoJob \in Job
  /\ NoJob.toMerge = {} /\ NoJob.todo = {}
<1>1. {} \in SUBSET File /\ NoFiles \in [{} -> Table]
  BY DEF NoFiles
<1>2. NoFiles \in UNION {[fs -> Table] : fs \in SUBSET File}
  BY <1>1
<1>3. QED
  BY <1>2 DEF NoJob, Job

\* Nobody is in a call at first.
LEMMA InitIInv == Init => IInv
<1> SUFFICES ASSUME Init PROVE IInv
  OBVIOUS
<1>1. Typed
  BY NoJobIsAJob DEF Init, Typed
<1>2. ASSUME NEW t \in Thread PROVE Prepared(t)
  BY NoJobIsAJob DEF Init, Prepared
<1>3. QED
  BY <1>1, <1>2 DEF IInv

\* What one thread does leaves the calls of the others alone.
LEMMA OthersStayPrepared ==
  ASSUME IInv, NEW t \in Thread,
         \A u \in Thread \ {t} : pc'[u] = pc[u] /\ job'[u] = job[u],
         Typed', Prepared(t)'
  PROVE  IInv'
<1>1. ASSUME NEW u \in Thread PROVE Prepared(u)'
  <2>1. CASE u = t
    BY <2>1
  <2>2. CASE u # t
    BY <2>2 DEF IInv, Prepared, Shared
  <2>3. QED
    BY <2>1, <2>2
<1>2. QED
  BY <1>1 DEF IInv

\* A call that begins has nothing to merge yet, or is to override or to check.
LEMMA BeginningKeepsIInv ==
  ASSUME IInv, NEW t \in Thread, NEW to \in {"check", "put", "load"}, NEW call \in Job,
         Begin(t, to, call), to = "put" => call.override,
         \A p, q \in call.toMerge : p = q,
         call.todo \subseteq DOMAIN call.files
  PROVE  IInv'
<1>1. /\ pc' = [pc EXCEPT ![t] = to]
      /\ job' = [job EXCEPT ![t] = call]
  BY DEF Begin, Goto
<1>2. Typed' /\ \A u \in Thread \ {t} : pc'[u] = pc[u] /\ job'[u] = job[u]
  BY <1>1 DEF IInv, Typed
<1>3. Prepared(t)'
  BY <1>1 DEF IInv, Typed, Prepared
<1>4. QED
  BY <1>2, <1>3, OthersStayPrepared

\* A call that ends leaves the others as they are.
LEMMA EndingKeepsIInv ==
  ASSUME IInv, NEW t \in Thread, NEW from, NEW how, End(t, from, how)
  PROVE  IInv'
<1>1. /\ pc' = [pc EXCEPT ![t] = "idle"]
      /\ job' = [job EXCEPT ![t] = NoJob]
  BY DEF End, Goto
<1>2. Typed' /\ \A u \in Thread \ {t} : pc'[u] = pc[u] /\ job'[u] = job[u]
  BY <1>1, NoJobIsAJob DEF IInv, Typed
<1>3. Prepared(t)'
  BY <1>1, NoJobIsAJob DEF IInv, Typed, Prepared
<1>4. QED
  BY <1>2, <1>3, OthersStayPrepared

\* Every step keeps the invariant.
LEMMA NextIInv == IInv /\ [Next]_vars => IInv'
<1> SUFFICES ASSUME IInv, [Next]_vars PROVE IInv'
  OBVIOUS
<1>1. Typed
  BY DEF IInv
<1>2. CASE UNCHANGED <<pc, job>>
  BY <1>2 DEF IInv, Typed, Prepared, Shared
<1>3. ASSUME NEW t \in Thread, Merge(t) PROVE IInv'
  <2>1. PICK props \in Properties, override \in BOOLEAN :
           Begin(t, MergeEntry(override),
                 [NoJob EXCEPT !.toMerge = {props}, !.override = override])
    BY <1>3 DEF Merge
  <2> DEFINE call == [NoJob EXCEPT !.toMerge = {props}, !.override = override]
  <2>2. call \in Job /\ call.toMerge = {props} /\ call.override = override
        /\ call.todo = {}
    BY NoJobIsAJob DEF Job
  <2>3. Begin(t, MergeEntry(override), call)
    BY <2>1
  <2> HIDE DEF call
  <2>4. MergeEntry(override) \in {"check", "put", "load"}
        /\ (MergeEntry(override) = "put" => override)
    BY DEF MergeEntry
  <2>5. QED
    BY <2>2, <2>3, <2>4, BeginningKeepsIInv
<1>4. ASSUME NEW t \in Thread, Check(t) PROVE IInv'
  <2>1. /\ pc' = [pc EXCEPT ![t] = "compare"]
        /\ job' = [job EXCEPT ![t].known = StringPropertyNames(own, defaults)]
    BY <1>4 DEF Check, Goto
  <2>2. job[t] \in Job /\ StringPropertyNames(own, defaults) \in SUBSET Key
    BY <1>1 DEF Typed, StringPropertyNames, Names
  <2>3. /\ job'[t] \in Job /\ job'[t].toMerge = job[t].toMerge
        /\ job'[t].todo = job[t].todo /\ job'[t].files = job[t].files
    BY <1>1, <2>1, <2>2 DEF Typed, Job
  <2>4. Typed' /\ \A u \in Thread \ {t} : pc'[u] = pc[u] /\ job'[u] = job[u]
    BY <1>1, <2>1, <2>3 DEF Typed
  <2>5. Prepared(t)'
    BY <1>1, <2>1, <2>3 DEF IInv, Prepared, Typed
  <2>6. QED
    BY <2>4, <2>5, OthersStayPrepared
<1>5. ASSUME NEW t \in Thread, Compare(t) PROVE IInv'
  <2>1. PICK props \in job[t].toMerge :
          \/ /\ GetCollisions(job[t].known, props) = {}
             /\ Goto(t, "compare", "put")
             /\ job' = job
          \/ End(t, "compare", Duplicate(GetCollisions(job[t].known, props)))
    BY <1>5 DEF Compare
  <2>2. CASE /\ GetCollisions(job[t].known, props) = {}
             /\ Goto(t, "compare", "put")
             /\ job' = job
    <3>1. Typed' /\ \A u \in Thread \ {t} : pc'[u] = pc[u] /\ job'[u] = job[u]
      BY <1>1, <2>2 DEF Typed, Goto
    <3>2. \A p \in job[t].toMerge : Names(p.own) \cap job[t].known = {}
      <4>1. \A p \in job[t].toMerge : p = props
        BY DEF IInv, Prepared
      <4>2. QED
        BY <2>2, <4>1 DEF GetCollisions, StringPropertyNames
    <3>3. Prepared(t)'
      BY <2>2, <3>2 DEF IInv, Prepared, Names
    <3>4. QED
      BY <3>1, <3>3, OthersStayPrepared
  <2>3. QED
    BY <2>1, <2>2, EndingKeepsIInv
<1>6. ASSUME NEW t \in Thread, Put(t) PROVE IInv'
  <2>1. CASE /\ Goto(t, "put", "load")
             /\ job' = [job EXCEPT ![t].toMerge = {}, ![t].known = {}]
    <3>1. job[t] \in Job
      BY <1>1 DEF Typed
    <3>2. /\ job'[t] \in Job /\ job'[t].toMerge = {}
          /\ job'[t].todo = job[t].todo /\ job'[t].files = job[t].files
      BY <1>1, <2>1, <3>1 DEF Typed, Job
    <3>3. Typed' /\ \A u \in Thread \ {t} : pc'[u] = pc[u] /\ job'[u] = job[u]
      BY <1>1, <2>1, <3>2 DEF Typed, Goto
    <3>4. Prepared(t)'
      BY <1>1, <2>1, <3>2 DEF IInv, Prepared, Typed, Goto
    <3>5. QED
      BY <3>3, <3>4, OthersStayPrepared
  <2>2. QED
    BY <1>6, <2>1, EndingKeepsIInv DEF Put
<1>7. ASSUME NEW t \in Thread, LoadFromDirectory(t) PROVE IInv'
  <2>1. PICK fs \in SUBSET File : \E contents \in [fs -> Table], override \in BOOLEAN :
          Begin(t, "load", [NoJob EXCEPT !.files = contents, !.todo = fs,
                                         !.override = override])
    BY <1>7 DEF LoadFromDirectory
  <2>2. PICK contents \in [fs -> Table], override \in BOOLEAN :
          Begin(t, "load", [NoJob EXCEPT !.files = contents, !.todo = fs,
                                         !.override = override])
    BY <2>1
  <2> DEFINE call == [NoJob EXCEPT !.files = contents, !.todo = fs, !.override = override]
  <2>3. call \in Job /\ call.toMerge = {} /\ call.todo = DOMAIN call.files
    BY NoJobIsAJob DEF Job
  <2>4. Begin(t, "load", call)
    BY <2>2
  <2> HIDE DEF call
  <2>5. QED
    BY <2>3, <2>4, BeginningKeepsIInv
<1>8. ASSUME NEW t \in Thread, LoadFromClassPath(t) PROVE IInv'
  <2>1. PICK f \in File, content \in Table, override \in BOOLEAN :
          Begin(t, "load", [NoJob EXCEPT !.files = [g \in {f} |-> content], !.todo = {f},
                                         !.override = override])
    BY <1>8 DEF LoadFromClassPath
  <2> DEFINE call == [NoJob EXCEPT !.files = [g \in {f} |-> content], !.todo = {f},
                                   !.override = override]
  <2>2. {f} \in SUBSET File /\ [g \in {f} |-> content] \in [{f} -> Table]
    OBVIOUS
  <2>3. call \in Job /\ call.toMerge = {} /\ call.todo = DOMAIN call.files
    BY <2>2, NoJobIsAJob DEF Job
  <2>4. Begin(t, "load", call)
    BY <2>1
  <2> HIDE DEF call
  <2>5. QED
    BY <2>3, <2>4, BeginningKeepsIInv
<1>9. ASSUME NEW t \in Thread, LoadFile(t) PROVE IInv'
  <2>1. PICK f \in job[t].todo :
          job' = [job EXCEPT ![t].toMerge = {[own |-> job[t].files[f], defaults |-> Empty]},
                             ![t].todo = @ \ {f}]
    BY <1>9 DEF LoadFile
  <2> DEFINE props == [own |-> job[t].files[f], defaults |-> Empty]
  <2>2. job[t] \in Job /\ job[t].todo \subseteq DOMAIN job[t].files
    BY <1>1 DEF Typed, IInv, Prepared
  <2>3. PICK fs \in SUBSET File : job[t].files \in [fs -> Table]
    BY <2>2 DEF Job
  <2>4. job[t].files[f] \in Table
    BY <2>2, <2>3
  <2>5. props \in Properties
    BY <2>4, FS_EmptySet DEF Properties, Empty, Table, Optional
  <2>6. /\ job'[t] \in Job
        /\ job'[t].toMerge = {props}
        /\ job'[t].override = job[t].override
        /\ job'[t].todo \subseteq DOMAIN job'[t].files
    BY <1>1, <2>1, <2>2, <2>5 DEF Typed, Job
  <2>7. pc' = [pc EXCEPT ![t] = MergeEntry(job[t].override)]
    BY <1>9 DEF LoadFile, Goto
  <2>8. MergeEntry(job[t].override) \in {"check", "put"}
        /\ (MergeEntry(job[t].override) = "put" => job[t].override)
    BY DEF MergeEntry
  <2>9. Typed' /\ \A u \in Thread \ {t} : pc'[u] = pc[u] /\ job'[u] = job[u]
    BY <1>1, <2>1, <2>6, <2>7, <2>8 DEF Typed
  <2>10. Prepared(t)'
    BY <1>1, <2>6, <2>7, <2>8 DEF Prepared, Typed
  <2>11. QED
    BY <2>9, <2>10, OthersStayPrepared
<1>10. ASSUME NEW t \in Thread, LoadFails(t) PROVE IInv'
  BY <1>10, EndingKeepsIInv DEF LoadFails
<1>11. ASSUME NEW t \in Thread, LoadDone(t) PROVE IInv'
  BY <1>11, EndingKeepsIInv DEF LoadDone
<1>12. ASSUME NEW t \in Thread, ChangeToMerge(t) PROVE IInv'
  <2>1. PICK props \in job[t].toMerge, k \in Key, S \in Optional :
           \E changed \in {[props EXCEPT !.own[k] = S], [props EXCEPT !.defaults[k] = S]} :
              job' = [job EXCEPT ![t].toMerge = {changed}]
    BY <1>12 DEF ChangeToMerge
  <2>2. PICK changed \in {[props EXCEPT !.own[k] = S], [props EXCEPT !.defaults[k] = S]} :
           job' = [job EXCEPT ![t].toMerge = {changed}]
    BY <2>1
  <2>3. job[t] \in Job /\ changed \in Properties
    <3>1. job[t] \in Job /\ props \in Properties
      BY <1>1, <2>1 DEF Typed, Job
    <3>2. QED
      BY <2>1, <2>2, <3>1 DEF Properties, Table
  <2>4. /\ job'[t] \in Job /\ job'[t].toMerge = {changed}
        /\ job'[t].todo = job[t].todo /\ job'[t].files = job[t].files
    BY <1>1, <2>2, <2>3 DEF Typed, Job
  <2>5. Typed' /\ \A u \in Thread \ {t} : pc'[u] = pc[u] /\ job'[u] = job[u]
    BY <1>1, <1>12, <2>2, <2>4 DEF Typed, ChangeToMerge
  <2>6. Prepared(t)'
    BY <1>12, <2>4 DEF IInv, Prepared, Shared, ChangeToMerge
  <2>7. QED
    BY <2>5, <2>6, OthersStayPrepared
<1>13. ASSUME NEW t \in Thread, PutFails(t) PROVE IInv'
  BY <1>13, EndingKeepsIInv DEF PutFails
<1>14. CASE \/ \E t \in Thread : \/ LoadNothing(t)
                                 \/ \E k \in Key, S \in Optional : SetProperty(t, k, S)
            \/ ChangeDefaults
            \/ UNCHANGED vars
  BY <1>2, <1>14 DEF LoadNothing, SetProperty, ChangeDefaults, vars
<1>15. QED
  BY <1>3, <1>4, <1>5, <1>6, <1>7, <1>8, <1>9, <1>10, <1>11, <1>12, <1>13, <1>14 DEF Next

\* No step but t's put moves t from there.
LEMMA OnlyPutLeavesPut ==
  ASSUME IInv, Next, NEW t \in Thread, pc[t] = "put", pc'[t] # "put"
  PROVE  Put(t) \/ PutFails(t)
<1>1. ASSUME NEW u \in Thread, NEW from, NEW to, Goto(u, from, to)
      PROVE  u = t /\ from = "put"
  BY <1>1 DEF Goto, IInv, Typed
<1>2. pc' # pc
  OBVIOUS
<1>3. ASSUME NEW u \in Thread,
             \/ Merge(u) \/ Check(u) \/ Compare(u) \/ LoadFromDirectory(u)
             \/ LoadFromClassPath(u) \/ LoadFile(u) \/ LoadFails(u) \/ LoadDone(u)
      PROVE  FALSE
  <2>1. \E from \in {"idle", "check", "compare", "load"} : \E to : Goto(u, from, to)
    <3>1. Merge(u) => \E to : Goto(u, "idle", to)
      BY DEF Merge, Begin
    <3>2. /\ Check(u) => \E to : Goto(u, "check", to)
          /\ Compare(u) => \E to : Goto(u, "compare", to)
      BY DEF Check, Compare, End
    <3>3. LoadFromDirectory(u) => \E to : Goto(u, "idle", to)
      BY DEF LoadFromDirectory, Begin
    <3>4. LoadFromClassPath(u) => \E to : Goto(u, "idle", to)
      BY DEF LoadFromClassPath, Begin
    <3>5. LoadFile(u) \/ LoadFails(u) \/ LoadDone(u) => \E to : Goto(u, "load", to)
      BY DEF LoadFile, LoadFails, LoadDone, End
    <3>6. QED
      BY <1>3, <3>1, <3>2, <3>3, <3>4, <3>5
  <2>2. QED
    BY <1>1, <2>1
<1>4. ASSUME NEW u \in Thread, Put(u) \/ PutFails(u)
      PROVE  u = t
  BY <1>1, <1>4 DEF Put, PutFails, End
<1>5. ~ \/ \E u \in Thread : \/ LoadNothing(u) \/ ChangeToMerge(u)
                            \/ \E k \in Key, S \in Optional : SetProperty(u, k, S)
        \/ ChangeDefaults
  BY <1>2 DEF LoadNothing, ChangeToMerge, SetProperty, ChangeDefaults
<1>6. QED
  BY <1>3, <1>4, <1>5 DEF Next

\* The invariant holds.
LEMMA AlwaysIInv == Spec => []IInv
BY InitIInv, NextIInv, PTL DEF Spec

Ending == [is : {"ok", "DuplicatePropertyException", "IOException",
                 "IllegalArgumentException", "ConcurrentModificationException"}, keys : SUBSET Key]

\* The tables hold at most one value for a key, and what a call names are keys.
Tables ==
  /\ own \in Table /\ defaults \in Table
  /\ outcome \in [Thread -> Ending]

\* Copying keeps a table a table.
LEMMA PutAllIsATable ==
  ASSUME NEW old \in Table, NEW new \in Table PROVE PutAll(old, new) \in Table
BY DEF PutAll, Table

\* There is nothing in an empty table.
LEMMA EmptyIsATable == Empty \in Table
BY FS_EmptySet DEF Empty, Table, Optional

\* However a call ends, it names keys.
LEMMA EndingsAreTyped ==
  /\ Ok \in Ending /\ IOFailure \in Ending /\ Illegal \in Ending /\ Concurrent \in Ending
  /\ \A known \in SUBSET Key, props \in Properties :
        Duplicate(GetCollisions(known, props)) \in Ending
<1>1. \A K \in SUBSET Key : Duplicate(K) \in Ending
  BY DEF Duplicate, Ending
<1>2. Ok \in Ending
  BY DEF Ok, Ending
<1>3. IOFailure \in Ending
  BY DEF IOFailure, Ending
<1>4. Illegal \in Ending
  BY DEF Illegal, Ending
<1>5. Concurrent \in Ending
  BY DEF Concurrent, Ending
<1>6. \A known \in SUBSET Key, props \in Properties : GetCollisions(known, props) \in SUBSET Key
  BY DEF GetCollisions
<1>7. QED
  BY <1>1, <1>2, <1>3, <1>4, <1>5, <1>6

\* Every step keeps the tables.
LEMMA NextTables == IInv /\ Tables /\ [Next]_vars => Tables'
<1> SUFFICES ASSUME IInv, Tables, [Next]_vars PROVE Tables'
  OBVIOUS
<1> USE DEF Tables
<1>1. ASSUME NEW t \in Thread
      PROVE  job[t].toMerge \subseteq Properties /\ job[t].known \subseteq Key
  BY DEF IInv, Typed, Job
<1>2. CASE UNCHANGED vars
  BY <1>2 DEF vars
<1>3. ASSUME NEW t \in Thread, Merge(t) \/ LoadFromDirectory(t) \/ LoadFromClassPath(t)
      PROVE  Tables'
  BY <1>3, EndingsAreTyped DEF Merge, LoadFromDirectory, LoadFromClassPath, Begin
<1>4. ASSUME NEW t \in Thread, Compare(t) PROVE Tables'
  <2>1. PICK props \in job[t].toMerge :
           \/ outcome' = outcome
           \/ End(t, "compare", Duplicate(GetCollisions(job[t].known, props)))
    BY <1>4 DEF Compare
  <2>2. Duplicate(GetCollisions(job[t].known, props)) \in Ending
    BY <1>1, <2>1, EndingsAreTyped
  <2>3. QED
    BY <1>4, <2>1, <2>2 DEF Compare, End
<1>5. ASSUME NEW t \in Thread, Put(t) PROVE Tables'
  <2>1. PICK props \in job[t].toMerge : own' = PutAll(own, props.own)
    BY <1>5 DEF Put
  <2>2. own' \in Table
    BY <1>1, <2>1, PutAllIsATable DEF Properties
  <2>3. outcome' = outcome \/ outcome' = [outcome EXCEPT ![t] = Ok]
    BY <1>5 DEF Put, End
  <2>4. QED
    BY <1>5, <2>2, <2>3, EndingsAreTyped DEF Put
<1>6. ASSUME NEW t \in Thread,
             Check(t) \/ LoadNothing(t) \/ LoadFile(t) \/ ChangeToMerge(t)
      PROVE  Tables'
  BY <1>6, EndingsAreTyped DEF Check, LoadNothing, LoadFile, ChangeToMerge
<1>7. ASSUME NEW t \in Thread, LoadFails(t) \/ LoadDone(t) PROVE Tables'
  BY <1>7, EndingsAreTyped DEF LoadFails, LoadDone, End
<1>8. ASSUME NEW t \in Thread, NEW k \in Key, NEW S \in Optional, SetProperty(t, k, S)
      PROVE  Tables'
  BY <1>8 DEF SetProperty, Table
<1>9. CASE ChangeDefaults
  BY <1>9 DEF ChangeDefaults, Table
<1>10. ASSUME NEW t \in Thread, PutFails(t) PROVE Tables'
  <2>1. PICK props \in job[t].toMerge, K \in SUBSET Key :
           own' = PutAll(own, [k \in Key |-> IF k \in K THEN props.own[k] ELSE {}])
    BY <1>10 DEF PutFails
  <2>2. [k \in Key |-> IF k \in K THEN props.own[k] ELSE {}] \in Table
    BY <1>1, FS_EmptySet DEF Properties, Table, Optional
  <2>3. QED
    BY <1>10, <2>1, <2>2, PutAllIsATable, EndingsAreTyped DEF PutFails, End
<1>11. QED
  BY <1>2, <1>3, <1>4, <1>5, <1>6, <1>7, <1>8, <1>9, <1>10 DEF Next

\* The tables are tables at first.
LEMMA InitTables == Init => Tables
<1> SUFFICES ASSUME Init PROVE Tables
  OBVIOUS
<1>1. PICK props \in Properties : \/ own = props.own /\ defaults = Empty
                                  \/ own = Empty /\ defaults = Effective(props.own, props.defaults)
  BY DEF Init
<1>2. own \in Table /\ defaults \in Table
  BY <1>1, EmptyIsATable, PutAllIsATable DEF Properties, Effective
<1>3. QED
  BY <1>2, EndingsAreTyped DEF Init, Tables

\* For any number of threads, keys, values and files, and however the defaults change,
\* a table never comes to hold two values for a key, and an exception names only keys.
THEOREM TypeCorrect == Spec => []TypeOK
<1>1. IInv /\ Tables => TypeOK
  BY DEF IInv, Typed, Tables, TypeOK, Ending
<1>2. QED
  BY <1>1, InitTables, NextTables, AlwaysIInv, PTL DEF Spec

-----------------------------------------------------------------------------

\* What the files of a set hold is in the object.
Holds(files, fs) == \A f \in fs : \A k \in Names(files[f]) : own[k] = files[f][k]

\* A load that must not override and that nobody has disturbed: the files it is done
\* with are in the object, but for the one that it is merging; and the check knew all
\* the names the object has, so that the copy replaces none of them.
Loads(t) ==
  LET files == job[t].files
      taken == DOMAIN files \ job[t].todo
  IN  /\ pc[t] = "load" => Holds(files, taken)
      /\ pc[t] \in {"check", "compare", "put"} /\ DOMAIN files # {} =>
            \E g \in taken : /\ job[t].toMerge = {[own |-> files[g], defaults |-> Empty]}
                             /\ Holds(files, taken \ {g})
      /\ pc[t] \in {"compare", "put"} => Names(own) \subseteq job[t].known

Gathered(t) == t \in alone /\ pc[t] # "idle" /\ ~job[t].override => Loads(t)

LInv == \A t \in Thread : Gathered(t)

\* Who is alone in a call after a step was so before it, or begins the call.
LEMMA AloneBefore ==
  ASSUME Record, NEW t \in Thread, t \in alone'
  PROVE  /\ pc'[t] # "idle"
         /\ pc[t] # "idle" => t \in alone
         /\ job'[t] = job[t] => own' = own
BY DEF Record, Disturbs

\* What one thread does ends the solitude of the others, or leaves their files there.
LEMMA OthersStayGathered ==
  ASSUME LInv, Record, NEW t \in Thread,
         \A u \in Thread \ {t} : pc'[u] = pc[u] /\ job'[u] = job[u],
         Gathered(t)'
  PROVE  LInv'
<1>1. ASSUME NEW u \in Thread PROVE Gathered(u)'
  <2>1. CASE u = t
    BY <2>1
  <2>2. CASE u # t
    <3> SUFFICES ASSUME u \in alone', ~job'[u].override PROVE Loads(u)'
      BY DEF Gathered
    <3>1. pc'[u] = pc[u] /\ job'[u] = job[u]
      BY <2>2
    <3>2. own' = own /\ pc[u] # "idle" /\ u \in alone
      BY <3>1, AloneBefore
    <3>3. Loads(u)
      BY <3>1, <3>2 DEF LInv, Gathered
    <3>4. QED
      BY <3>1, <3>2, <3>3 DEF Loads, Holds, Names
  <2>3. QED
    BY <2>1, <2>2
<1>2. QED
  BY <1>1 DEF LInv

\* A call that begins has merged nothing yet.
LEMMA BeginningGathers ==
  ASSUME Typed, LInv, Record, NEW t \in Thread, NEW to, NEW call, Begin(t, to, call),
         call.todo = DOMAIN call.files, to = "load" \/ DOMAIN call.files = {},
         to \in {"compare", "put"} => call.override
  PROVE  LInv'
<1>1. /\ pc' = [pc EXCEPT ![t] = to]
      /\ job' = [job EXCEPT ![t] = call]
  BY DEF Begin, Goto
<1>2. pc'[t] = to /\ job'[t] = call
  BY <1>1 DEF Typed
<1>3. \A u \in Thread \ {t} : pc'[u] = pc[u] /\ job'[u] = job[u]
  BY <1>1 DEF Typed
<1>4. Gathered(t)'
  <2> SUFFICES ASSUME ~call.override PROVE Loads(t)'
    BY <1>2 DEF Gathered
  <2>1. to \notin {"compare", "put"}
    OBVIOUS
  <2>2. CASE DOMAIN call.files = {}
    BY <1>2, <2>1, <2>2 DEF Loads, Holds
  <2>3. CASE to = "load"
    BY <1>2, <2>3 DEF Loads, Holds
  <2>4. QED
    BY <2>2, <2>3
<1>5. QED
  BY <1>3, <1>4, OthersStayGathered

\* The check begins by reading all the names the object has.
LEMMA CheckGathers ==
  ASSUME Typed, LInv, Record, NEW t \in Thread, Check(t) PROVE LInv'
<1>1. \A u \in Thread \ {t} : pc'[u] = pc[u] /\ job'[u] = job[u]
  BY DEF Typed, Check, Goto
<1>2. Gathered(t)'
  <2> SUFFICES ASSUME t \in alone', pc'[t] # "idle", ~job'[t].override PROVE Loads(t)'
    BY DEF Gathered
  <2>1. /\ pc[t] = "check" /\ pc' = [pc EXCEPT ![t] = "compare"]
        /\ job' = [job EXCEPT ![t].known = StringPropertyNames(own, defaults)]
    BY DEF Check, Goto
  <2>2. job[t] \in Job /\ pc'[t] = "compare"
    BY <2>1 DEF Typed
  <2>3. /\ job'[t].known = StringPropertyNames(own, defaults)
        /\ job'[t].toMerge = job[t].toMerge /\ job'[t].override = job[t].override
        /\ job'[t].todo = job[t].todo /\ job'[t].files = job[t].files
    BY <2>1, <2>2 DEF Typed, Job
  <2>4. own' = own /\ Names(own) \subseteq job'[t].known
    BY <2>3 DEF Check, StringPropertyNames
  <2>5. Loads(t)
    BY <2>1, <2>3, AloneBefore DEF LInv, Gathered
  <2>6. pc[t] = "check"
    BY <2>1
  <2>7. QED
    BY <2>2, <2>3, <2>4, <2>5, <2>6 DEF Loads, Holds, Names
<1>3. QED
  BY <1>1, <1>2, OthersStayGathered

\* When no collision is found, what it has read still covers all that the object has.
LEMMA CompareGathers ==
  ASSUME Typed, LInv, Record, NEW t \in Thread, Compare(t) PROVE LInv'
<1>1. \A u \in Thread \ {t} : pc'[u] = pc[u] /\ job'[u] = job[u]
  BY DEF Typed, Compare, Goto, End
<1>2. Gathered(t)'
  <2> SUFFICES ASSUME t \in alone', pc'[t] # "idle", ~job'[t].override PROVE Loads(t)'
    BY DEF Gathered
  <2>1. pc[t] = "compare" /\ pc'[t] = "put" /\ job' = job /\ own' = own
    BY DEF Typed, Compare, Goto, End
  <2>2. Loads(t)
    BY <2>1, AloneBefore DEF LInv, Gathered
  <2>3. QED
    BY <2>1, <2>2 DEF Loads, Holds, Names
<1>3. QED
  BY <1>1, <1>2, OthersStayGathered

\* The copy of a file adds what the file holds and replaces nothing, because the check
\* found no name of the file's among those the object has.
LEMMA PutGathers ==
  ASSUME IInv, LInv, Record, NEW t \in Thread, Put(t) PROVE LInv'
<1>1. Typed /\ Prepared(t)
  BY DEF IInv
<1>2. \A u \in Thread \ {t} : pc'[u] = pc[u] /\ job'[u] = job[u]
  BY <1>1 DEF Typed, Put, Goto, End
<1>3. Gathered(t)'
  <2> SUFFICES ASSUME t \in alone', pc'[t] # "idle", ~job'[t].override PROVE Loads(t)'
    BY DEF Gathered
  <2>1. /\ pc[t] = "put" /\ pc' = [pc EXCEPT ![t] = "load"] /\ DOMAIN job[t].files # {}
        /\ job' = [job EXCEPT ![t].toMerge = {}, ![t].known = {}]
    BY <1>1 DEF Typed, Put, Goto, End
  <2>2. job[t] \in Job /\ pc'[t] = "load"
    BY <1>1, <2>1 DEF Typed
  <2>3. /\ job'[t].override = job[t].override
        /\ job'[t].todo = job[t].todo /\ job'[t].files = job[t].files
    BY <1>1, <2>1, <2>2 DEF Typed, Job
  <2> DEFINE files == job[t].files
             taken == DOMAIN files \ job[t].todo
  <2>4. Loads(t)
    BY <2>1, <2>3, AloneBefore DEF LInv, Gathered
  <2>5. PICK g \in taken : /\ job[t].toMerge = {[own |-> files[g], defaults |-> Empty]}
                           /\ Holds(files, taken \ {g})
    BY <2>1, <2>4 DEF Loads
  <2>6. own' = PutAll(own, files[g])
    BY <2>5 DEF Put
  <2>7. Names(own) \cap Names(files[g]) = {}
    BY <1>1, <2>1, <2>3, <2>4, <2>5 DEF Loads, Prepared, Shared
  <2>8. ASSUME NEW f \in taken, NEW k \in Names(files[f]) PROVE own'[k] = files[f][k]
    <3>1. k \in Key /\ files[f][k] # {}
      BY DEF Names
    <3>2. CASE f = g
      BY <2>6, <3>1, <3>2 DEF PutAll
    <3>3. CASE f # g
      <4>1. own[k] = files[f][k]
        BY <2>5, <3>3 DEF Holds
      <4>2. files[g][k] = {}
        BY <2>7, <3>1, <4>1 DEF Names
      <4>3. QED
        BY <2>6, <3>1, <4>1, <4>2 DEF PutAll
    <3>4. QED
      BY <3>2, <3>3
  <2>9. QED
    BY <2>2, <2>3, <2>8 DEF Loads, Holds, Names
<1>4. QED
  BY <1>2, <1>3, OthersStayGathered

\* A file that is read is the one to merge, and is taken.
LEMMA LoadFileGathers ==
  ASSUME IInv, LInv, Record, NEW t \in Thread, LoadFile(t) PROVE LInv'
<1> USE DEF IInv
<1>1. PICK f \in job[t].todo :
         job' = [job EXCEPT ![t].toMerge = {[own |-> job[t].files[f], defaults |-> Empty]},
                            ![t].todo = @ \ {f}]
  BY DEF LoadFile
<1>2. pc[t] = "load" /\ pc' = [pc EXCEPT ![t] = MergeEntry(job[t].override)]
  BY DEF LoadFile, Goto
<1>3. job[t] \in Job
  BY DEF Typed
<1>4. /\ job'[t].toMerge = {[own |-> job[t].files[f], defaults |-> Empty]}
      /\ job'[t].todo = job[t].todo \ {f}
      /\ job'[t].override = job[t].override /\ job'[t].files = job[t].files
  BY <1>1, <1>3 DEF Typed, Job
<1>5. \A u \in Thread \ {t} : pc'[u] = pc[u] /\ job'[u] = job[u]
  BY <1>1, <1>2 DEF Typed
<1>6. Gathered(t)'
  <2> SUFFICES ASSUME t \in alone', ~job'[t].override PROVE Loads(t)'
    BY DEF Gathered
  <2>1. pc'[t] = "check"
    BY <1>2, <1>4 DEF Typed, MergeEntry
  <2>2. Holds(job[t].files, DOMAIN job[t].files \ job[t].todo)
    BY <1>2, <1>4, AloneBefore DEF LInv, Gathered, Loads
  <2>3. f \in DOMAIN job'[t].files \ job'[t].todo
    BY <1>4 DEF Prepared
  <2>4. own' = own
    BY DEF LoadFile
  <2>5. Holds(job[t].files, (DOMAIN job'[t].files \ job'[t].todo) \ {f})
    BY <1>4, <2>2 DEF Holds
  <2>6. QED
    BY <1>4, <2>1, <2>3, <2>4, <2>5 DEF Loads, Holds, Names
<1>7. QED
  BY <1>5, <1>6, OthersStayGathered

\* Every step keeps what the loads have gathered.
LEMMA NextLInv == IInv /\ LInv /\ [HNext]_hvars => LInv'
<1> SUFFICES ASSUME IInv, LInv, [HNext]_hvars PROVE LInv'
  OBVIOUS
<1>1. Typed
  BY DEF IInv
<1>2. CASE UNCHANGED hvars
  BY <1>2 DEF hvars, LInv, Gathered, Loads, Holds, Names
<1> SUFFICES ASSUME Next, Record PROVE LInv'
  BY <1>2 DEF HNext
<1>3. ASSUME NEW t \in Thread, Merge(t) PROVE LInv'
  <2>1. PICK props \in Properties, override \in BOOLEAN :
           Begin(t, MergeEntry(override),
                 [NoJob EXCEPT !.toMerge = {props}, !.override = override])
    BY <1>3 DEF Merge
  <2> DEFINE call == [NoJob EXCEPT !.toMerge = {props}, !.override = override]
  <2>2. call.files = NoFiles /\ call.todo = {} /\ call.override = override
    BY DEF NoJob
  <2>3. DOMAIN call.files = {}
    BY <2>2 DEF NoFiles
  <2>4. MergeEntry(override) \in {"compare", "put"} => override
    BY DEF MergeEntry
  <2>5. Begin(t, MergeEntry(override), call)
    BY <2>1
  <2> HIDE DEF call
  <2>6. QED
    BY <1>1, <2>2, <2>3, <2>4, <2>5, BeginningGathers
<1>4. ASSUME NEW t \in Thread, LoadFromDirectory(t) \/ LoadFromClassPath(t) PROVE LInv'
  <2> DEFINE Call(fs, contents, override) ==
               [NoJob EXCEPT !.files = contents, !.todo = fs, !.override = override]
  <2>1. PICK fs, contents, override :
           contents \in [fs -> Table] /\ Begin(t, "load", Call(fs, contents, override))
    <3>1. CASE LoadFromDirectory(t)
      BY <3>1 DEF LoadFromDirectory
    <3>2. CASE LoadFromClassPath(t)
      <4>1. PICK f \in File, content \in Table, override \in BOOLEAN :
               Begin(t, "load", Call({f}, [g \in {f} |-> content], override))
        BY <3>2 DEF LoadFromClassPath
      <4>2. [g \in {f} |-> content] \in [{f} -> Table]
        OBVIOUS
      <4>3. QED
        BY <4>1, <4>2
    <3>3. QED
      BY <1>4, <3>1, <3>2
  <2>2. LET call == Call(fs, contents, override) IN call.todo = DOMAIN call.files
    BY <2>1 DEF NoJob
  <2> HIDE DEF Call
  <2>3. QED
    BY <1>1, <2>1, <2>2, BeginningGathers
<1>5. ASSUME NEW t \in Thread, LoadFails(t) \/ LoadDone(t) PROVE LInv'
  <2>1. PICK how : End(t, "load", how)
    BY <1>5 DEF LoadFails, LoadDone
  <2>2. pc'[t] = "idle" /\ \A u \in Thread \ {t} : pc'[u] = pc[u] /\ job'[u] = job[u]
    BY <1>1, <2>1 DEF End, Goto, Typed
  <2>3. QED
    BY <2>2, OthersStayGathered DEF Gathered
<1>6. ASSUME NEW t \in Thread, PutFails(t) PROVE LInv'
  <2>1. pc'[t] = "idle" /\ \A u \in Thread \ {t} : pc'[u] = pc[u] /\ job'[u] = job[u]
    BY <1>1, <1>6 DEF PutFails, End, Goto, Typed
  <2>2. QED
    BY <2>1, OthersStayGathered DEF Gathered
<1>7. ASSUME NEW t \in Thread, ChangeToMerge(t) PROVE LInv'
  <2>1. /\ pc' = pc /\ own' = own /\ pc[t] \in {"check", "compare", "put"}
        /\ \A u \in Thread \ {t} : job'[u] = job[u]
    BY <1>1, <1>7 DEF ChangeToMerge, Typed
  <2>2. /\ job'[t].override = job[t].override /\ job'[t].known = job[t].known
        /\ DOMAIN job'[t].files = {}
    <3>1. job[t] \in Job
      BY <1>1 DEF Typed
    <3>2. QED
      BY <1>1, <1>7, <3>1 DEF ChangeToMerge, Shared, Typed, Job
  <2>3. Gathered(t)'
    BY <2>1, <2>2, AloneBefore DEF LInv, Gathered, Loads, Names
  <2>4. QED
    BY <2>1, <2>3, OthersStayGathered
<1>8. ASSUME NEW t \in Thread,
             LoadNothing(t) \/ \E k \in Key, S \in Optional : SetProperty(t, k, S)
      PROVE  LInv'
  <2>1. pc[t] = "idle" /\ pc' = pc /\ job' = job
    BY <1>8 DEF LoadNothing, SetProperty
  <2>2. QED
    BY <2>1, OthersStayGathered DEF Gathered
<1>9. CASE ChangeDefaults
  <2>1. pc' = pc /\ job' = job /\ own' = own
    BY <1>9 DEF ChangeDefaults
  <2>2. QED
    BY <2>1, AloneBefore DEF LInv, Gathered, Loads, Holds, Names
<1>10. \A t \in Thread : LoadFile(t) => LInv'
  BY LoadFileGathers
<1>11. QED
  BY <1>1, <1>3, <1>4, <1>5, <1>6, <1>7, <1>8, <1>9, <1>10, CheckGathers, CompareGathers,
     PutGathers DEF Next

\* A load that returns normally, must not override and was not disturbed has put every
\* key of every file into the object with that file's value, for any number of files,
\* keys and threads and in whatever order it met the files.
THEOREM LoadsComplete == HSpec => LoadIsComplete
<1>1. HInit => Init /\ LInv
  BY DEF HInit, LInv, Gathered
<1>2. [HNext]_hvars => [Next]_vars
  BY DEF HNext, hvars, vars
<1>3. IInv /\ Tables /\ LInv /\ [HNext]_hvars => [\A t \in Thread : LoadsAll(t)]_hvars
  <2> SUFFICES ASSUME IInv, Tables, LInv, Next, NEW t \in Thread,
                      pc[t] = "load", pc'[t] = "idle", outcome'[t] = Ok,
                      ~job[t].override, t \in alone
               PROVE  Holds(job[t].files, DOMAIN job[t].files)
    BY DEF HNext, LoadsAll, Holds
  <2>1. LoadDone(t)
    <3>1. IOFailure # Ok /\ Illegal # Ok
      BY DEF IOFailure, Illegal, Ok
    <3>2. ~LoadFails(t)
      BY <3>1 DEF LoadFails, End, Tables
    <3>3. QED
      BY <3>2 DEF Next, IInv, Typed, Merge, Check, Compare, Put, ChangeToMerge,
                  PutFails, LoadFromDirectory, LoadFromClassPath, LoadNothing, LoadFile, LoadFails,
                  LoadDone, SetProperty, ChangeDefaults, Begin, End, Goto, MergeEntry
  <2>2. Holds(job[t].files, DOMAIN job[t].files \ job[t].todo)
    BY DEF LInv, Gathered, Loads
  <2>3. QED
    BY <2>1, <2>2 DEF LoadDone
<1>4. QED
  BY <1>1, <1>2, <1>3, InitIInv, NextIInv, InitTables, NextTables, NextLInv, PTL
     DEF HSpec, LoadIsComplete

-----------------------------------------------------------------------------

\* What the object has had since a call began, and what the call has compared: the first
\* reading of a check saw all that it has had until now; and when no collision was found,
\* what was compared has none of it, and all that a file holds was compared.
Remembers(t) ==
  /\ kept[t] \subseteq Found(own, defaults)
  /\ pc[t] = "compare" => kept[t] \subseteq job[t].known
  /\ pc[t] = "put" /\ ~job[t].override =>
        /\ kept[t] \cap checked[t] = {}
        /\ ~Shared(t) => OwnIn(t) \subseteq checked[t]

MInv == \A t \in Thread : Remembers(t)

\* What a table and its defaults have a value for is what stringPropertyNames answers.
LEMMA FoundAreNames ==
  \A table, dflt : Found(table, dflt) = StringPropertyNames(table, dflt)
BY DEF Found, Effective, PutAll, StringPropertyNames, Names

\* What is recorded of a thread.
LEMMA Recorded ==
  ASSUME Record, NEW t \in Thread
  PROVE  /\ kept'[t] = IF pc'[t] = "idle" THEN {} ELSE Had(t) \cap Found(own', defaults')
         /\ checked'[t] = CASE pc[t] = "compare" /\ pc'[t] = "put" -> FoundIn(t)
                            [] pc[t] = "put" /\ pc'[t] = "put"     -> checked[t]
                            [] OTHER                               -> {}
BY DEF Record

\* Who does not move, and whose call stays as it is, forgets nothing it needs.
LEMMA StayingRemembers ==
  ASSUME MInv, Record, NEW t \in Thread, pc'[t] = pc[t],
         job'[t].known = job[t].known, job'[t].override = job[t].override,
         Shared(t)' \/ job'[t] = job[t]
  PROVE  Remembers(t)'
<1>1. kept'[t] \subseteq Found(own', defaults')
  BY Recorded
<1>2. CASE pc[t] \notin {"compare", "put"}
  BY <1>1, <1>2 DEF Remembers
<1>3. CASE pc[t] \in {"compare", "put"}
  <2>1. kept'[t] \subseteq kept[t]
    BY <1>3, Recorded DEF Had
  <2>2. pc[t] = "put" => checked'[t] = checked[t]
    BY Recorded
  <2>3. Remembers(t)
    BY DEF MInv
  <2>4. CASE pc[t] = "compare"
    BY <1>1, <2>1, <2>3, <2>4 DEF Remembers
  <2>5. CASE pc[t] = "put"
    <3>1. ASSUME ~job'[t].override
          PROVE  /\ kept'[t] \cap checked'[t] = {}
                 /\ ~Shared(t)' => OwnIn(t)' \subseteq checked'[t]
      BY <2>1, <2>2, <2>3, <2>5, <3>1 DEF Remembers, Shared, OwnIn
    <3>2. QED
      BY <1>1, <2>5, <3>1 DEF Remembers
  <2>6. QED
    BY <1>3, <2>4, <2>5
<1>4. QED
  BY <1>2, <1>3

\* What one thread does leaves what the others remember.
LEMMA OthersRemember ==
  ASSUME MInv, Record, NEW t \in Thread,
         \A u \in Thread \ {t} : pc'[u] = pc[u] /\ job'[u] = job[u],
         Remembers(t)'
  PROVE  MInv'
<1>1. ASSUME NEW u \in Thread, u # t PROVE Remembers(u)'
  BY <1>1, StayingRemembers
<1>2. QED
  BY <1>1 DEF MInv

\* Elsewhere than within a merge that must not override there is nothing to remember.
LEMMA ElsewhereRemembers ==
  ASSUME Record, NEW t \in Thread,
         pc'[t] # "compare", pc'[t] = "put" => job'[t].override
  PROVE  Remembers(t)'
BY Recorded DEF Remembers

\* The check begins by reading all the names that getProperty finds.
LEMMA CheckRemembers ==
  ASSUME Typed, MInv, Record, NEW t \in Thread, Check(t) PROVE MInv'
<1>1. /\ pc' = [pc EXCEPT ![t] = "compare"]
      /\ job' = [job EXCEPT ![t].known = StringPropertyNames(own, defaults)]
      /\ own' = own /\ defaults' = defaults
  BY DEF Check, Goto
<1>2. job[t] \in Job /\ pc'[t] = "compare"
  BY <1>1 DEF Typed
<1>3. job'[t].known = StringPropertyNames(own, defaults)
  BY <1>1, <1>2 DEF Typed, Job
<1>4. kept'[t] \subseteq Found(own, defaults)
  BY <1>1, Recorded
<1>5. Remembers(t)'
  BY <1>1, <1>2, <1>3, <1>4, FoundAreNames DEF Remembers
<1>6. QED
  BY <1>1, <1>5, OthersRemember DEF Typed

\* What was compared, when no collision was found, has nothing of what was read first.
LEMMA CompareRemembers ==
  ASSUME IInv, MInv, Record, NEW t \in Thread, Compare(t) PROVE MInv'
<1>1. Typed /\ Prepared(t) /\ Remembers(t)
  BY DEF IInv, MInv
<1>2. \A u \in Thread \ {t} : pc'[u] = pc[u] /\ job'[u] = job[u]
  BY <1>1 DEF Typed, Compare, Goto, End
<1>3. PICK props \in job[t].toMerge :
        \/ /\ GetCollisions(job[t].known, props) = {}
           /\ Goto(t, "compare", "put")
           /\ job' = job
        \/ End(t, "compare", Duplicate(GetCollisions(job[t].known, props)))
  BY DEF Compare
<1>4. CASE End(t, "compare", Duplicate(GetCollisions(job[t].known, props)))
  <2>1. pc'[t] = "idle"
    BY <1>1, <1>4 DEF End, Goto, Typed
  <2>2. Remembers(t)'
    BY <2>1, ElsewhereRemembers
  <2>3. QED
    BY <1>2, <2>2, OthersRemember
<1>5. CASE /\ GetCollisions(job[t].known, props) = {}
           /\ Goto(t, "compare", "put")
           /\ job' = job
  <2>1. pc[t] = "compare" /\ pc'[t] = "put" /\ job'[t] = job[t]
    BY <1>1, <1>5 DEF Goto, Typed
  <2>2. /\ kept'[t] \subseteq Found(own', defaults')
        /\ kept'[t] \subseteq kept[t]
        /\ checked'[t] = FoundIn(t)
    BY <2>1, Recorded DEF Had
  <2>3. kept[t] \subseteq job[t].known
    BY <1>1, <2>1 DEF Remembers
  <2>4. FoundIn(t) = Found(props.own, props.defaults)
    <3>1. \A p \in job[t].toMerge : p = props
      BY <1>1 DEF Prepared
    <3>2. QED
      BY <3>1 DEF FoundIn, Found
  <2>5. job[t].known \cap FoundIn(t) = {}
    BY <1>5, <2>4, FoundAreNames DEF GetCollisions
  <2>6. OwnIn(t) \subseteq FoundIn(t)
    BY DEF OwnIn, FoundIn, Found, Effective, PutAll
  <2>7. OwnIn(t)' = OwnIn(t)
    BY <2>1 DEF OwnIn
  <2>8. Remembers(t)'
    BY <2>1, <2>2, <2>3, <2>5, <2>6, <2>7 DEF Remembers
  <2>9. QED
    BY <1>2, <2>8, OthersRemember
<1>6. QED
  BY <1>3, <1>4, <1>5

\* Every step leaves each call with what it must remember.
LEMMA NextMInv == IInv /\ MInv /\ [HNext]_hvars => MInv'
<1> SUFFICES ASSUME IInv, MInv, [HNext]_hvars PROVE MInv'
  OBVIOUS
<1>1. Typed
  BY DEF IInv
<1>2. CASE UNCHANGED hvars
  BY <1>2 DEF hvars, MInv, Remembers, Shared, OwnIn
<1> SUFFICES ASSUME Next, Record PROVE MInv'
  BY <1>2 DEF HNext
<1>3. ASSUME NEW t \in Thread, Merge(t) PROVE MInv'
  <2>1. PICK props \in Properties, override \in BOOLEAN :
           Begin(t, MergeEntry(override),
                 [NoJob EXCEPT !.toMerge = {props}, !.override = override])
    BY <1>3 DEF Merge
  <2> DEFINE call == [NoJob EXCEPT !.toMerge = {props}, !.override = override]
  <2>2. call.override = override
    BY DEF NoJob
  <2>3. /\ pc' = [pc EXCEPT ![t] = MergeEntry(override)]
        /\ job' = [job EXCEPT ![t] = call]
    BY <2>1 DEF Begin, Goto
  <2> HIDE DEF call
  <2>4. pc'[t] = MergeEntry(override) /\ job'[t] = call
        /\ \A u \in Thread \ {t} : pc'[u] = pc[u] /\ job'[u] = job[u]
    BY <1>1, <2>3 DEF Typed
  <2>5. Remembers(t)'
    BY <2>2, <2>4, ElsewhereRemembers DEF MergeEntry
  <2>6. QED
    BY <2>4, <2>5, OthersRemember
<1>4. ASSUME NEW t \in Thread, LoadFromDirectory(t) \/ LoadFromClassPath(t) PROVE MInv'
  <2>1. \E call : Begin(t, "load", call)
    BY <1>4 DEF LoadFromDirectory, LoadFromClassPath
  <2>2. pc'[t] = "load" /\ \A u \in Thread \ {t} : pc'[u] = pc[u] /\ job'[u] = job[u]
    BY <1>1, <2>1 DEF Begin, Goto, Typed
  <2>3. QED
    BY <2>2, ElsewhereRemembers, OthersRemember
<1>5. ASSUME NEW t \in Thread, LoadFile(t) PROVE MInv'
  <2>1. PICK f \in job[t].todo :
          job' = [job EXCEPT ![t].toMerge = {[own |-> job[t].files[f], defaults |-> Empty]},
                             ![t].todo = @ \ {f}]
    BY <1>5 DEF LoadFile
  <2>2. pc' = [pc EXCEPT ![t] = MergeEntry(job[t].override)] /\ job[t] \in Job
    BY <1>1, <1>5 DEF LoadFile, Goto, Typed
  <2>3. /\ pc'[t] = MergeEntry(job[t].override) /\ job'[t].override = job[t].override
        /\ \A u \in Thread \ {t} : pc'[u] = pc[u] /\ job'[u] = job[u]
    BY <1>1, <2>1, <2>2 DEF Typed, Job
  <2>4. Remembers(t)'
    BY <2>3, ElsewhereRemembers DEF MergeEntry
  <2>5. QED
    BY <2>3, <2>4, OthersRemember
<1>6. ASSUME NEW t \in Thread, Put(t) \/ PutFails(t) \/ LoadFails(t) \/ LoadDone(t)
      PROVE  MInv'
  <2>1. /\ pc'[t] \in {"idle", "load"}
        /\ \A u \in Thread \ {t} : pc'[u] = pc[u] /\ job'[u] = job[u]
    BY <1>1, <1>6 DEF Put, PutFails, LoadFails, LoadDone, End, Goto, Typed
  <2>2. QED
    BY <2>1, ElsewhereRemembers, OthersRemember
<1>7. ASSUME NEW t \in Thread, ChangeToMerge(t) PROVE MInv'
  <2>1. /\ pc' = pc /\ \A u \in Thread \ {t} : job'[u] = job[u]
        /\ job'[t].override = job[t].override /\ job'[t].known = job[t].known
        /\ job'[t].files = job[t].files /\ Shared(t)
    <3>1. job[t] \in Job
      BY <1>1 DEF Typed
    <3>2. QED
      BY <1>1, <1>7, <3>1 DEF ChangeToMerge, Typed, Job
  <2>2. Shared(t)'
    BY <2>1 DEF Shared
  <2>3. Remembers(t)'
    BY <2>1, <2>2, StayingRemembers
  <2>4. QED
    BY <2>1, <2>3, OthersRemember
<1>8. CASE \/ \E t \in Thread : \/ LoadNothing(t)
                                \/ \E k \in Key, S \in Optional : SetProperty(t, k, S)
           \/ ChangeDefaults
  <2>1. pc' = pc /\ job' = job
    BY <1>8 DEF LoadNothing, SetProperty, ChangeDefaults
  <2>2. \A t \in Thread : Remembers(t)'
    BY <2>1, StayingRemembers
  <2>3. QED
    BY <2>2 DEF MInv
<1>9. QED
  BY <1>1, <1>3, <1>4, <1>5, <1>6, <1>7, <1>8, CheckRemembers, CompareRemembers DEF Next

\* The put of thread t, or what was done of it, keeps every key that the object has had
\* since the call began and that what is merged has not gained since it was compared.
LEMMA PutKeepsKnown ==
  ASSUME IInv, MInv, NEW t \in Thread, Put(t) \/ PutFails(t), ~job[t].override
  PROVE  \A k \in kept[t] \ Gained(t) :
            Effective(own', defaults')[k] = Effective(own, defaults)[k]
<1> SUFFICES ASSUME NEW k \in kept[t] \ Gained(t)
             PROVE  Effective(own', defaults')[k] = Effective(own, defaults)[k]
  OBVIOUS
<1>1. PICK props \in job[t].toMerge, K \in SUBSET Key :
         own' = PutAll(own, [j \in Key |-> IF j \in K THEN props.own[j] ELSE {}])
  <2>1. CASE Put(t)
    <3>1. PICK props \in job[t].toMerge : own' = PutAll(own, props.own)
      BY <2>1 DEF Put
    <3>2. PutAll(own, props.own)
            = PutAll(own, [j \in Key |-> IF j \in Key THEN props.own[j] ELSE {}])
      BY DEF PutAll
    <3>3. QED
      BY <3>1, <3>2
  <2>2. CASE PutFails(t)
    BY <2>2 DEF PutFails
  <2>3. QED
    BY <2>1, <2>2
<1>2. Remembers(t)
  BY DEF MInv
<1>3. k \in Key /\ pc[t] = "put" /\ defaults' = defaults
  BY <1>2 DEF Remembers, Found, Put, PutFails, End, Goto
<1>4. props.own[k] = {}
  <2>1. kept[t] \cap checked[t] = {} /\ (~Shared(t) => OwnIn(t) \subseteq checked[t])
    BY <1>2, <1>3 DEF Remembers
  <2>2. k \notin OwnIn(t)
    BY <2>1 DEF Gained
  <2>3. QED
    BY <1>1, <1>3, <2>2 DEF OwnIn
<1>5. own'[k] = own[k]
  BY <1>1, <1>3, <1>4 DEF PutAll
<1>6. QED
  BY <1>3, <1>5 DEF Effective, PutAll

\* For any number of threads, keys, values and files: whatever others do before, between
\* and after the two readings of a check, a merge (alone or in a load) that must not
\* override changes no key that the object has had since the call began, but for those
\* that others have added to what it merges after it was compared.
THEOREM MergeKeepsKnown == HSpec => KeepsWhatItChecked
<1>1. HInit => Init /\ MInv
  BY DEF HInit, Init, MInv, Remembers
<1>2. [HNext]_hvars => [Next]_vars
  BY DEF HNext, hvars, vars
<1>3. IInv /\ MInv /\ [HNext]_hvars => [\A t \in Thread : KeepsKnown(t)]_hvars
  <2> SUFFICES ASSUME IInv, MInv, Next, NEW t \in Thread PROVE KeepsKnown(t)
    BY DEF HNext
  <2>1. QED
    BY OnlyPutLeavesPut, PutKeepsKnown DEF KeepsKnown
<1>4. QED
  BY <1>1, <1>2, <1>3, InitIInv, NextIInv, NextMInv, PTL DEF HSpec, KeepsWhatItChecked
=============================================================================
