------------------------- MODULE LRUTimedCacheProofs -------------------------
(***************************************************************************)
(* What holds of LRUTimedCache for any number of threads, all keys and     *)
(* values, every capacity and expiration, and a clock that may be set back.*)
(***************************************************************************)
EXTENDS LRUTimedCacheHistory, LRUListProofs

\* The part of ScanIsSound about one thread.
Sound(t) ==
  /\ pc[t] \in InSection <=> mutex = t
  /\ pc[t] \in InSection => held[t] \subseteq Range(entries)
  /\ pc[t] = "scan" =>
       /\ scan.pos <= Len(entries) + 1
       /\ \A i \in 1 .. (scan.pos - 1) :
             entries[i][2].value \in scan.value => entries[i] \in held[t]

\* What getKey has found and collected.  While it walks it has found nothing and has
\* collected entries it passed; when it sweeps it has a key that it will not sweep, or
\* else it sweeps all entries with its value.
Collected(t) ==
  /\ pc[t] = "scan" =>
       /\ scan.found = {}
       /\ \A e \in held[t] : \E i \in 1 .. (scan.pos - 1) : entries[i] = e
  /\ pc[t] = "sweep" =>
       IF scan.found = {}
       THEN \A e \in Range(entries) : e[2].value \in scan.value => e \in held[t]
       ELSE \E e \in Range(entries) \ held[t] :
               e[2].value \in scan.value /\ e[1] \in scan.found

AtRest(t) == pc[t] = "idle" => held[t] = {}

Good(t) == Sound(t) /\ Collected(t) /\ AtRest(t)

IInv == TypeOK /\ WellFormed /\ \A t \in Thread : Good(t)

Container == entries \in Seq(Entry) /\ WellFormed

\* Where a thread can be.
Place == {"idle", "put", "get", "expunge", "pop", "answer", "scan", "sweep", "remove"}

\* Only thread t does something.
Only(t) == \A u \in Thread \ {t} : pc'[u] = pc[u] /\ held'[u] = held[u]

\* Nobody has the container at first.
LEMMA InitIInv == Init => IInv
<1> SUFFICES ASSUME Init PROVE IInv
  OBVIOUS
<1>1. /\ entries \in Seq(Entry) /\ Len(entries) = 0 /\ DOMAIN entries = {}
      /\ IsInjective(entries)
  <2>1. entries = <<>>
    BY DEF Init
  <2>2. entries \in Seq(Entry) /\ Len(entries) = 0
    BY <2>1, EmptySeq
  <2>3. DOMAIN entries = {}
    BY <2>2, LenProperties
  <2>4. QED
    BY <2>2, <2>3 DEF IsInjective
<1>2. WellFormed
  BY <1>1, TimedCacheAssumption DEF WellFormed
<1>3. TypeOK
  BY <1>1, TimedCacheAssumption DEF TypeOK, Init, NoScan
<1>4. ASSUME NEW t \in Thread PROVE Good(t)
  <2>1. pc[t] = "idle" /\ held[t] = {} /\ mutex # t
    BY TimedCacheAssumption DEF Init
  <2>2. QED
    BY <2>1 DEF Good, Sound, Collected, AtRest, InSection
<1>5. QED
  BY <1>2, <1>3, <1>4 DEF IInv

(***************************************************************************)
(* The container.                                                          *)
(***************************************************************************)

\* Erasing keeps it.
LEMMA ErasingKeepsContainer ==
  ASSUME Container, entries' \in Seq(Entry), Sublist(entries', entries)
  PROVE  Container'
<1>1. /\ IsInjective(entries) => IsInjective(entries')
      /\ Len(entries') <= Len(entries)
  BY SublistKeeps DEF Container
<1>2. Len(entries) \in Nat /\ Len(entries') \in Nat /\ Capacity \in Nat
  BY LenProperties, TimedCacheAssumption DEF Container
<1>3. QED
  BY <1>1, <1>2 DEF Container, WellFormed

\* Erase takes its entry out and nothing else.
LEMMA EraseProperties ==
  ASSUME Container, NEW e \in Entry, Erase(e)
  PROVE  Container' /\ Range(entries') = Range(entries) \ {e}
<1>1. e = <<e[1], e[2]>>
  BY DEF Entry
<1>2. entries' = ErasePair(entries, e[1], e[2])
  BY DEF Erase
<1>3. entries' \in Seq(Entry) /\ Sublist(entries', entries)
  BY <1>2, ErasePairProperties DEF Container
<1>4. Range(entries') = Range(entries) \ {<<e[1], e[2]>>}
  BY <1>2, ErasePairRange DEF Container, WellFormed
<1>5. QED
  BY <1>1, <1>3, <1>4, ErasingKeepsContainer

\* A put makes its own room.
LEMMA InsertingKeepsContainer ==
  ASSUME Container, NEW e \in Entry, entries' = Inserted(entries, Capacity, e[1], e[2])
  PROVE  Container'
<1>1. <<e[1], e[2]>> \in Entry /\ Capacity \in Nat
  BY TimedCacheAssumption DEF Entry
<1>2. QED
  BY <1>1, InsertedProperties DEF Container, WellFormed

\* A get moves an entry.
LEMMA RelocatingKeepsContainer ==
  ASSUME Container, NEW i \in 1 .. Len(entries), entries' = Relocated(entries, i)
  PROVE  Container'
BY RelocatedProperties, RelocatedKeeps DEF Container, WellFormed

\* A clear leaves nothing.
LEMMA ClearingKeepsContainer ==
  ASSUME entries' = <<>>
  PROVE  Container'
<1>1. entries' \in Seq(Entry) /\ Len(entries') = 0
  BY EmptySeq
<1>2. IsInjective(entries')
  BY <1>1, LenProperties DEF IsInjective
<1>3. QED
  BY <1>1, <1>2, TimedCacheAssumption DEF Container, WellFormed

(***************************************************************************)
(* What one thread does to the others: nothing, because it does not have   *)
(* the mutex that they own.                                                *)
(***************************************************************************)

\* A step of t keeps what the others rely on.
LEMMA OthersStayGood ==
  ASSUME IInv, NEW t \in Thread, Only(t),
         \/ UNCHANGED <<entries, mutex, scan>>
         \/ mutex \in {NoThread, t} /\ mutex' \in {NoThread, t}
  PROVE  \A u \in Thread \ {t} : Good(u)'
<1> SUFFICES ASSUME NEW u \in Thread \ {t} PROVE Good(u)'
  OBVIOUS
<1>1. pc'[u] = pc[u] /\ held'[u] = held[u] /\ Good(u)
  BY DEF Only, IInv
<1>2. CASE UNCHANGED <<entries, mutex, scan>>
  BY <1>1, <1>2 DEF Good, Sound, Collected, AtRest
<1>3. CASE mutex \in {NoThread, t} /\ mutex' \in {NoThread, t}
  <2>1. mutex # u /\ mutex' # u
    BY <1>3, TimedCacheAssumption
  <2>2. pc[u] \notin InSection
    BY <1>1, <2>1 DEF Good, Sound
  <2>3. QED
    BY <1>1, <2>1, <2>2 DEF Good, Sound, Collected, AtRest, InSection
<1>4. QED
  BY <1>2, <1>3

\* A thread that owns nothing takes the mutex for one step at most.
LEMMA OutsideKeepsIInv ==
  ASSUME IInv, NEW t \in Thread, Only(t), UNCHANGED <<mutex, scan>>,
         pc[t] \notin InSection, pc'[t] \notin InSection,
         UNCHANGED entries \/ CanLock(t),
         TypeOK', WellFormed', AtRest(t)'
  PROVE  IInv'
<1>1. \A u \in Thread \ {t} : Good(u)'
  <2>1. CASE UNCHANGED entries
    BY <2>1, OthersStayGood
  <2>2. CASE CanLock(t)
    <3>1. mutex \in {NoThread, t} /\ mutex' \in {NoThread, t}
      BY <2>2 DEF CanLock
    <3>2. QED
      BY <3>1, OthersStayGood
  <2>3. QED
    BY <2>1, <2>2
<1>2. mutex # t
  BY DEF IInv, Good, Sound
<1>3. Good(t)'
  BY <1>2 DEF Good, Sound, Collected, InSection
<1>4. QED
  BY <1>1, <1>3 DEF IInv

(***************************************************************************)
(* The calls that take the mutex for one step at a time.                   *)
(***************************************************************************)

\* put: the stamp and the insertion.
LEMMA PutKeepsIInv ==
  ASSUME IInv, NEW t \in Thread,
         (\E k \in Key, v \in Value : PutStamp(t, k, v)) \/ PutInsert(t)
  PROVE  IInv'
<1>1. TypeOK /\ Container /\ now \in Nat /\ TicksPerSecond \in Nat \ {0}
  BY TimedCacheAssumption DEF IInv, TypeOK, Container
<1>2. ASSUME NEW k \in Key, NEW v \in Value, PutStamp(t, k, v)
      PROVE  IInv'
  <2>1. <<k, Stamp(v)>> \in Entry
    <3>1. now \div TicksPerSecond \in Nat
      BY <1>1
    <3>2. QED
      BY <3>1 DEF Stamp, Entry, CacheValue
  <2>2. /\ UNCHANGED <<entries, mutex, now, scan>>
        /\ pc[t] = "idle" /\ pc' = [pc EXCEPT ![t] = "put"]
        /\ held' = [held EXCEPT ![t] = {<<k, Stamp(v)>>}]
    BY <1>2 DEF PutStamp, Goto, Hold
  <2>3. TypeOK'
    BY <1>1, <2>1, <2>2 DEF TypeOK
  <2>4. Only(t) /\ pc'[t] = "put" /\ WellFormed'
    BY <1>1, <2>2 DEF Only, TypeOK, Container, WellFormed
  <2>5. QED
    BY <2>2, <2>3, <2>4, OutsideKeepsIInv DEF AtRest, InSection
<1>3. CASE PutInsert(t)
  <2>1. PICK e \in held[t] : entries' = Inserted(entries, Capacity, e[1], e[2])
    BY <1>3 DEF PutInsert
  <2>2. e \in Entry
    BY <1>1, <2>1 DEF TypeOK
  <2>3. Container'
    BY <1>1, <2>1, <2>2, InsertingKeepsContainer
  <2>4. /\ UNCHANGED <<mutex, now, scan>> /\ CanLock(t)
        /\ pc[t] = "put" /\ pc' = [pc EXCEPT ![t] = "idle"]
        /\ held' = [held EXCEPT ![t] = {}]
    BY <1>3 DEF PutInsert, Goto, Hold
  <2>5. TypeOK'
    BY <1>1, <2>3, <2>4 DEF TypeOK, Container
  <2>6. Only(t) /\ pc'[t] = "idle" /\ held'[t] = {} /\ WellFormed'
    BY <1>1, <2>3, <2>4 DEF Only, TypeOK, Container
  <2>7. QED
    BY <2>4, <2>5, <2>6, OutsideKeepsIInv DEF AtRest, InSection
<1>4. QED
  BY <1>2, <1>3

\* get and pop: the entry they take, or none.
LEMMA TakingKeepsIInv ==
  ASSUME IInv, NEW t \in Thread, NEW k \in Key, GetLookup(t, k) \/ PopTake(t, k)
  PROVE  IInv'
<1>1. TypeOK /\ Container
  BY DEF IInv, TypeOK, Container
<1> DEFINE i == LruPosition(entries, k)
<1>2. CASE ~HasKey(entries, k)
  <2>1. pc[t] = "idle" /\ UNCHANGED <<pc, entries, held, mutex, now, scan>>
    BY <1>2 DEF GetLookup, PopTake
  <2>2. AtRest(t)
    BY DEF IInv, Good
  <2>3. TypeOK' /\ Only(t) /\ WellFormed' /\ AtRest(t)'
    BY <1>1, <2>1, <2>2 DEF TypeOK, Only, Container, WellFormed, AtRest
  <2>4. QED
    BY <2>1, <2>3, OutsideKeepsIInv DEF InSection
<1>3. CASE HasKey(entries, k)
  <2>1. i \in 1 .. Len(entries) /\ entries[i] \in Entry
    BY <1>1, <1>3, LruPositionProperties, LenProperties DEF Container
  <2>2. entries' = Relocated(entries, i) \/ entries' = RemoveAt(entries, i)
    BY <1>3 DEF GetLookup, PopTake
  <2>3. PICK to \in {"get", "pop"} :
          /\ UNCHANGED <<mutex, now, scan>> /\ CanLock(t)
          /\ pc[t] = "idle" /\ pc' = [pc EXCEPT ![t] = to]
          /\ held' = [held EXCEPT ![t] = {entries[i]}]
    BY <1>3 DEF GetLookup, PopTake, Goto, Hold
  <2> HIDE DEF i
  <2>4. Container'
    BY <1>1, <2>1, <2>2, RelocatingKeepsContainer, ErasingKeepsContainer,
       RemoveAtProperties, RemoveAtSublist DEF Container
  <2>5. TypeOK'
    BY <1>1, <2>1, <2>3, <2>4 DEF TypeOK, Container
  <2>6. Only(t) /\ pc'[t] = to /\ WellFormed'
    BY <1>1, <2>3, <2>4 DEF Only, TypeOK, Container
  <2>7. QED
    BY <2>3, <2>5, <2>6, OutsideKeepsIInv DEF AtRest, InSection
<1>4. QED
  BY <1>2, <1>3

\* And what they make of it without the mutex.
LEMMA JudgingKeepsIInv ==
  ASSUME IInv, NEW t \in Thread,
         GetServe(t) \/ GetRefuse(t) \/ PopServe(t) \/ PopRefuse(t) \/ Answer(t)
  PROVE  IInv'
<1>1. TypeOK /\ WellFormed
  BY DEF IInv
<1>2. UNCHANGED <<entries, mutex, now, scan>>
  BY DEF GetServe, GetRefuse, PopServe, PopRefuse, Answer
<1>3. CASE GetServe(t) \/ GetRefuse(t) \/ PopServe(t)
  <2>1. PICK to \in {"answer", "expunge"} :
          pc[t] \in {"get", "pop"} /\ pc' = [pc EXCEPT ![t] = to] /\ UNCHANGED held
    BY <1>3 DEF GetServe, GetRefuse, PopServe, Goto
  <2>2. TypeOK' /\ Only(t) /\ pc'[t] = to /\ WellFormed'
    BY <1>1, <1>2, <2>1 DEF TypeOK, Only, WellFormed
  <2>3. QED
    BY <1>2, <2>1, <2>2, OutsideKeepsIInv DEF AtRest, InSection
<1>4. CASE PopRefuse(t) \/ Answer(t)
  <2>1. /\ pc[t] \in {"pop", "answer"} /\ pc' = [pc EXCEPT ![t] = "idle"]
        /\ held' = [held EXCEPT ![t] = {}]
    BY <1>4 DEF PopRefuse, Answer, Goto, Hold
  <2>2. TypeOK' /\ Only(t) /\ pc'[t] = "idle" /\ held'[t] = {} /\ WellFormed'
    BY <1>1, <1>2, <2>1 DEF TypeOK, Only, WellFormed
  <2>3. QED
    BY <1>2, <2>1, <2>2, OutsideKeepsIInv DEF AtRest, InSection
<1>5. QED
  BY <1>3, <1>4

\* get's expunging.
LEMMA ExpungingKeepsIInv ==
  ASSUME IInv, NEW t \in Thread, GetExpunge(t)
  PROVE  IInv'
<1>1. TypeOK /\ Container
  BY DEF IInv, TypeOK, Container
<1>2. PICK e \in held[t] : Erase(e)
  BY DEF GetExpunge
<1>3. e \in Entry
  BY <1>1, <1>2 DEF TypeOK
<1>4. Container'
  BY <1>1, <1>2, <1>3, EraseProperties
<1>5. /\ UNCHANGED <<mutex, now, scan>> /\ CanLock(t)
      /\ pc[t] = "expunge" /\ pc' = [pc EXCEPT ![t] = "idle"]
      /\ held' = [held EXCEPT ![t] = {}]
  BY DEF GetExpunge, Goto, Hold
<1>6. TypeOK'
  BY <1>1, <1>4, <1>5 DEF TypeOK, Container
<1>7. Only(t) /\ pc'[t] = "idle" /\ held'[t] = {} /\ WellFormed'
  BY <1>1, <1>4, <1>5 DEF Only, TypeOK, Container
<1>8. QED
  BY <1>5, <1>6, <1>7, OutsideKeepsIInv DEF AtRest, InSection

\* remove(key) and clear.
LEMMA EmptyingKeepsIInv ==
  ASSUME IInv, NEW t \in Thread, (\E k \in Key : RemoveKey(t, k)) \/ Clear(t)
  PROVE  IInv'
<1>1. TypeOK /\ Container /\ AtRest(t)
  BY DEF IInv, TypeOK, Container, Good
<1>2. pc[t] = "idle" /\ CanLock(t) /\ UNCHANGED <<mutex, now, pc, held, scan>>
  BY DEF RemoveKey, Clear
<1>3. Container'
  <2>1. CASE Clear(t)
    BY <2>1, ClearingKeepsContainer DEF Clear
  <2>2. ASSUME NEW k \in Key, RemoveKey(t, k) PROVE Container'
    <3>1. entries' \in Without(entries, Positions(entries, k))
      BY <2>2 DEF RemoveKey
    <3>2. entries' \in Seq(Entry) /\ Sublist(entries', entries)
      BY <1>1, <3>1, WithoutSublist DEF Container
    <3>3. QED
      BY <1>1, <3>2, ErasingKeepsContainer
  <2>3. QED
    BY <2>1, <2>2
<1>4. TypeOK' /\ Only(t) /\ WellFormed' /\ AtRest(t)'
  BY <1>1, <1>2, <1>3 DEF TypeOK, Only, Container, AtRest
<1>5. QED
  BY <1>2, <1>4, OutsideKeepsIInv DEF InSection

(***************************************************************************)
(* getKey and remove(key, value), which own the mutex all along.           *)
(***************************************************************************)

\* A step of the owner, or of a thread that becomes it.
LEMMA SectionKeepsIInv ==
  ASSUME IInv, NEW t \in Thread, Only(t), mutex \in {NoThread, t}, mutex' \in {NoThread, t},
         TypeOK', WellFormed', Good(t)'
  PROVE  IInv'
BY OthersStayGood DEF IInv

\* getKey takes the mutex and has passed nothing.
LEMMA GetKeyLockKeepsIInv ==
  ASSUME IInv, NEW t \in Thread, NEW v \in Value, GetKeyLock(t, v)
  PROVE  IInv'
<1>1. TypeOK /\ WellFormed /\ AtRest(t)
  BY DEF IInv, Good
<1>2. /\ pc[t] = "idle" /\ pc' = [pc EXCEPT ![t] = "scan"]
      /\ CanLock(t) /\ mutex' = t
      /\ scan' = [value |-> {v}, pos |-> 1, found |-> {}]
      /\ UNCHANGED <<entries, now, held>>
  BY DEF GetKeyLock, Goto, NoScan
<1>3. TypeOK' /\ Only(t) /\ pc'[t] = "scan" /\ WellFormed'
  BY <1>1, <1>2 DEF TypeOK, Only, WellFormed
<1>4. held'[t] = {}
  BY <1>1, <1>2 DEF AtRest
<1>5. Len(entries) \in Nat
  BY <1>1, LenProperties DEF TypeOK
<1>6. scan'.pos = 1 /\ scan'.found = {}
  BY <1>2
<1>7. Good(t)'
  BY <1>2, <1>3, <1>4, <1>5, <1>6 DEF Good, Sound, Collected, AtRest, InSection
<1>8. QED
  BY <1>2, <1>3, <1>7, SectionKeepsIInv DEF CanLock

\* A step of the walk passes an entry, and collects it if it must.
LEMMA GetKeyStepKeepsIInv ==
  ASSUME IInv, NEW t \in Thread, GetKeyStep(t)
  PROVE  IInv'
<1> DEFINE e == entries[scan.pos]
<1>1. TypeOK /\ WellFormed /\ Sound(t) /\ Collected(t)
  BY DEF IInv, Good
<1>2. /\ pc[t] = "scan" /\ scan.pos <= Len(entries)
      /\ scan' = [scan EXCEPT !.pos = scan.pos + 1]
      /\ UNCHANGED <<entries, mutex, now, pc>>
      /\ \/ e[2].value \notin scan.value /\ UNCHANGED held
         \/ e[2].value \in scan.value /\ held' = [held EXCEPT ![t] = held[t] \cup {e}]
  BY DEF GetKeyStep, Hold
<1>3. /\ scan.pos \in Nat \ {0} /\ Len(entries) \in Nat /\ DOMAIN entries = 1 .. Len(entries)
      /\ scan.pos \in DOMAIN entries
  BY <1>1, <1>2, LenProperties DEF TypeOK
<1>4. e \in Entry /\ e \in Range(entries)
  BY <1>1, <1>3, LenProperties DEF TypeOK, Range
<1>5. /\ scan'.pos = scan.pos + 1 /\ scan'.value = scan.value /\ scan'.found = scan.found
      /\ scan' \in [value : SUBSET Value, pos : Nat \ {0}, found : SUBSET Key]
  <2>1. scan \in [value : SUBSET Value, pos : Nat \ {0}, found : SUBSET Key]
    BY <1>1 DEF TypeOK
  <2>2. scan' = [scan EXCEPT !.pos = scan.pos + 1] /\ scan.pos + 1 \in Nat \ {0}
    BY <1>2, <1>3
  <2>3. QED
    BY <2>1, <2>2
<1>6. mutex = t /\ held[t] \subseteq Range(entries)
  BY <1>1, <1>2 DEF Sound, InSection
<1> HIDE DEF e
<1>7. /\ held[t] \subseteq held'[t] /\ held'[t] \subseteq held[t] \cup {e}
      /\ e[2].value \in scan.value => e \in held'[t]
      /\ held' \in [Thread -> SUBSET Entry] /\ Only(t)
  <2>1. held \in [Thread -> SUBSET Entry]
    BY <1>1 DEF TypeOK
  <2>2. CASE e[2].value \notin scan.value /\ UNCHANGED held
    BY <1>2, <2>1, <2>2 DEF Only
  <2>3. CASE held' = [held EXCEPT ![t] = held[t] \cup {e}]
    BY <1>2, <1>4, <2>1, <2>3 DEF Only
  <2>4. QED
    BY <1>2, <2>2, <2>3 DEF e
<1>8. TypeOK' /\ WellFormed'
  BY <1>1, <1>2, <1>5, <1>7 DEF TypeOK, WellFormed
<1>9. Sound(t)'
  <2>1. scan'.pos <= Len(entries') + 1
    BY <1>2, <1>3, <1>5
  <2>2. ASSUME NEW i \in 1 .. (scan'.pos - 1), entries[i][2].value \in scan.value
        PROVE  entries[i] \in held'[t]
    <3>1. i \in 1 .. (scan.pos - 1) \/ i = scan.pos
      BY <1>3, <1>5
    <3>2. CASE i \in 1 .. (scan.pos - 1)
      BY <1>1, <1>2, <1>7, <2>2, <3>2 DEF Sound
    <3>3. CASE i = scan.pos
      BY <1>7, <2>2, <3>3 DEF e
    <3>4. QED
      BY <3>1, <3>2, <3>3
  <2>3. held'[t] \subseteq Range(entries)
    BY <1>4, <1>6, <1>7
  <2>4. QED
    BY <1>2, <1>5, <1>6, <2>1, <2>2, <2>3 DEF Sound, InSection
<1>10. Collected(t)'
  <2>1. ASSUME NEW x \in held'[t]
        PROVE  \E i \in 1 .. (scan'.pos - 1) : entries[i] = x
    <3>1. CASE x \in held[t]
      <4>1. PICK i \in 1 .. (scan.pos - 1) : entries[i] = x
        BY <1>1, <1>2, <3>1 DEF Collected
      <4>2. i \in 1 .. (scan'.pos - 1)
        BY <1>3, <1>5
      <4>3. QED
        BY <4>1, <4>2
    <3>2. CASE x = e
      <4>1. scan.pos \in 1 .. (scan'.pos - 1) /\ entries[scan.pos] = x
        BY <1>3, <1>5, <3>2 DEF e
      <4>2. QED
        BY <4>1
    <3>3. QED
      BY <1>7, <2>1, <3>1, <3>2
  <2>2. scan.found = {}
    BY <1>1, <1>2 DEF Collected
  <2>3. pc'[t] = "scan"
    BY <1>2
  <2>4. QED
    BY <1>2, <1>5, <2>1, <2>2, <2>3 DEF Collected
<1>11. Good(t)'
  BY <1>2, <1>9, <1>10 DEF Good, AtRest
<1>12. mutex' = t
  BY <1>2, <1>6
<1>13. QED
  BY <1>6, <1>7, <1>8, <1>11, <1>12, SectionKeepsIInv

\* The walk ends: what it finds is not among what it collected before; if it finds
\* nothing it has passed all.
LEMMA GetKeyFoundKeepsIInv ==
  ASSUME IInv, NEW t \in Thread, GetKeyFound(t) \/ GetKeyEnd(t)
  PROVE  IInv'
<1>1. TypeOK /\ WellFormed /\ Sound(t) /\ Collected(t)
  BY DEF IInv, Good
<1>2. /\ pc[t] = "scan" /\ pc' = [pc EXCEPT ![t] = "sweep"]
      /\ UNCHANGED <<entries, mutex, now, held>>
  BY DEF GetKeyFound, GetKeyEnd, Goto
<1>3. /\ scan.pos \in Nat \ {0} /\ Len(entries) \in Nat /\ DOMAIN entries = 1 .. Len(entries)
      /\ IsInjective(entries)
  BY <1>1, LenProperties DEF TypeOK, WellFormed
<1>4. mutex = t /\ held[t] \subseteq Range(entries) /\ pc'[t] = "sweep"
  BY <1>1, <1>2 DEF Sound, InSection, TypeOK
<1>5. scan' \in [value : SUBSET Value, pos : Nat \ {0}, found : SUBSET Key]
      /\ Collected(t)'
  <2>1. CASE GetKeyFound(t)
    <3> DEFINE e == entries[scan.pos]
    <3>1. /\ scan.pos <= Len(entries) /\ e[2].value \in scan.value
          /\ scan' = [scan EXCEPT !.found = {e[1]}]
      BY <2>1 DEF GetKeyFound
    <3>2. scan.pos \in DOMAIN entries /\ e \in Range(entries) /\ e \in Entry
      BY <1>1, <1>3, <3>1, LenProperties DEF TypeOK, Range
    <3>3. e \notin held[t]
      <4> SUFFICES ASSUME e \in held[t] PROVE FALSE
        OBVIOUS
      <4>1. PICK i \in 1 .. (scan.pos - 1) : entries[i] = e
        BY <1>1, <1>2 DEF Collected
      <4>2. i \in DOMAIN entries /\ i # scan.pos
        BY <1>3, <3>2
      <4>3. QED
        BY <1>3, <3>2, <4>1, <4>2 DEF IsInjective
    <3>4. e[1] \in Key
      BY <3>2 DEF Entry
    <3> HIDE DEF e
    <3>5. /\ scan'.found = {e[1]} /\ scan'.value = scan.value
          /\ scan' \in [value : SUBSET Value, pos : Nat \ {0}, found : SUBSET Key]
      BY <1>1, <3>1, <3>4 DEF TypeOK
    <3>6. scan'.found # {} /\ e[1] \in scan'.found
      BY <3>5
    <3>7. \E x \in Range(entries') \ held'[t] :
             x[2].value \in scan'.value /\ x[1] \in scan'.found
      BY <1>2, <3>1, <3>2, <3>3, <3>5, <3>6
    <3>8. QED
      BY <1>4, <3>5, <3>6, <3>7 DEF Collected
  <2>2. CASE GetKeyEnd(t)
    <3>1. scan.pos > Len(entries) /\ UNCHANGED scan
      BY <2>2 DEF GetKeyEnd
    <3>2. ASSUME NEW e \in Range(entries), e[2].value \in scan.value
          PROVE  e \in held[t]
      <4>1. PICK i \in DOMAIN entries : entries[i] = e
        BY DEF Range
      <4>2. i \in 1 .. (scan.pos - 1)
        BY <1>3, <3>1
      <4>3. QED
        BY <1>1, <1>2, <3>2, <4>1, <4>2 DEF Sound
    <3>3. scan.found = {}
      BY <1>1, <1>2 DEF Collected
    <3>4. QED
      BY <1>1, <1>2, <1>4, <3>1, <3>2, <3>3 DEF Collected, TypeOK
  <2>3. QED
    BY <2>1, <2>2
<1>6. TypeOK' /\ Only(t) /\ WellFormed'
  BY <1>1, <1>2, <1>5 DEF TypeOK, Only, WellFormed
<1>7. Good(t)'
  BY <1>2, <1>4, <1>5 DEF Good, Sound, AtRest, InSection
<1>8. QED
  BY <1>2, <1>4, <1>6, <1>7, SectionKeepsIInv

\* A recursive call takes one of the collected entries out.
LEMMA SweepingKeepsIInv ==
  ASSUME IInv, NEW t \in Thread, GetKeySweep(t) \/ RemoveValueStep(t)
  PROVE  IInv'
<1>1. TypeOK /\ Container /\ Sound(t) /\ Collected(t)
  BY DEF IInv, Good, TypeOK, Container
<1>2. PICK e \in held[t] : Erase(e) /\ held' = [held EXCEPT ![t] = held[t] \ {e}]
  BY DEF GetKeySweep, RemoveValueStep, Hold
<1>3. pc[t] \in {"sweep", "remove"} /\ UNCHANGED <<mutex, now, pc, scan>>
  BY DEF GetKeySweep, RemoveValueStep
<1>4. e \in Entry /\ held'[t] = held[t] \ {e}
  BY <1>1, <1>2 DEF TypeOK
<1>5. Container' /\ Range(entries') = Range(entries) \ {e}
  BY <1>1, <1>2, <1>4, EraseProperties
<1>6. mutex = t /\ held[t] \subseteq Range(entries)
  BY <1>1, <1>3 DEF Sound, InSection
<1>7. TypeOK' /\ Only(t) /\ WellFormed'
  BY <1>1, <1>2, <1>3, <1>5 DEF TypeOK, Only, Container
<1>8. Sound(t)'
  BY <1>3, <1>4, <1>5, <1>6 DEF Sound, InSection
<1>9. Collected(t)'
  BY <1>1, <1>2, <1>3, <1>4, <1>5 DEF Collected
<1>10. AtRest(t)'
  BY <1>3 DEF AtRest
<1>11. mutex' = t
  BY <1>3, <1>6
<1>12. QED
  BY <1>6, <1>7, <1>8, <1>9, <1>10, <1>11, SectionKeepsIInv DEF Good

\* The mutex is given back when nothing is left to remove.
LEMMA UnlockingKeepsIInv ==
  ASSUME IInv, NEW t \in Thread, GetKeyUnlock(t) \/ RemoveValueUnlock(t)
  PROVE  IInv'
<1>1. TypeOK /\ WellFormed /\ Sound(t)
  BY DEF IInv, Good
<1>2. /\ pc[t] \in {"sweep", "remove"} /\ pc' = [pc EXCEPT ![t] = "idle"]
      /\ held[t] = {} /\ mutex' = NoThread /\ scan' \in {scan, NoScan}
      /\ UNCHANGED <<entries, now, held>>
  BY DEF GetKeyUnlock, RemoveValueUnlock, Goto
<1>3. NoScan \in [value : SUBSET Value, pos : Nat \ {0}, found : SUBSET Key]
  BY DEF NoScan
<1>4. TypeOK' /\ Only(t) /\ WellFormed' /\ pc'[t] = "idle" /\ held'[t] = {}
  BY <1>1, <1>2, <1>3 DEF TypeOK, Only, WellFormed
<1>5. mutex = t /\ mutex' # t
  BY <1>1, <1>2, TimedCacheAssumption DEF Sound, InSection
<1>6. Good(t)'
  BY <1>4, <1>5 DEF Good, Sound, Collected, AtRest, InSection
<1>7. QED
  BY <1>2, <1>4, <1>5, <1>6, SectionKeepsIInv

\* remove(key, value) collects what is there.
LEMMA RemoveValueLockKeepsIInv ==
  ASSUME IInv, NEW t \in Thread, NEW k \in Key, NEW v \in Value, RemoveValueLock(t, k, v)
  PROVE  IInv'
<1> DEFINE S == {e \in Range(entries) : e[1] = k /\ e[2].value = v}
<1>1. TypeOK /\ WellFormed
  BY DEF IInv
<1>2. /\ pc[t] = "idle" /\ pc' = [pc EXCEPT ![t] = "remove"]
      /\ CanLock(t) /\ mutex' = t /\ held' = [held EXCEPT ![t] = S]
      /\ UNCHANGED <<entries, now, scan>>
  BY DEF RemoveValueLock, Goto, Hold
<1>3. S \subseteq Entry /\ S \subseteq Range(entries)
  BY <1>1, LenProperties DEF TypeOK, Range
<1> HIDE DEF S
<1>4. TypeOK' /\ Only(t) /\ WellFormed' /\ pc'[t] = "remove" /\ held'[t] = S
  BY <1>1, <1>2, <1>3 DEF TypeOK, Only, WellFormed
<1>5. Good(t)'
  BY <1>2, <1>3, <1>4 DEF Good, Sound, Collected, AtRest, InSection
<1>6. QED
  BY <1>2, <1>4, <1>5, SectionKeepsIInv DEF CanLock

\* The clock touches nothing else.
LEMMA ClockKeepsIInv ==
  ASSUME IInv, Tick \/ StepBack
  PROVE  IInv'
<1>1. now' \in 0 .. MaxTick /\ UNCHANGED <<entries, mutex, pc, held, scan>>
  BY TimedCacheAssumption DEF Tick, StepBack, IInv, TypeOK
<1>2. QED
  BY <1>1 DEF IInv, TypeOK, WellFormed, Good, Sound, Collected, AtRest

\* Every step of every thread keeps the invariant.
LEMMA NextIInv == IInv /\ [Next]_vars => IInv'
<1> SUFFICES ASSUME IInv, [Next]_vars PROVE IInv'
  OBVIOUS
<1>1. ASSUME NEW t \in Thread, Call(t) PROVE IInv'
  BY <1>1, PutKeepsIInv, TakingKeepsIInv, EmptyingKeepsIInv, GetKeyLockKeepsIInv,
     RemoveValueLockKeepsIInv DEF Call
<1>2. ASSUME NEW t \in Thread, Step(t) PROVE IInv'
  BY <1>2, PutKeepsIInv, JudgingKeepsIInv, ExpungingKeepsIInv, GetKeyStepKeepsIInv,
     GetKeyFoundKeepsIInv, SweepingKeepsIInv, UnlockingKeepsIInv DEF Step
<1>3. CASE UNCHANGED vars
  BY <1>3 DEF vars, IInv, TypeOK, WellFormed, Good, Sound, Collected, AtRest
<1>4. QED
  BY <1>1, <1>2, <1>3, ClockKeepsIInv DEF Next

\* The invariant holds.
LEMMA AlwaysIInv == Spec => []IInv
BY InitIInv, NextIInv, PTL DEF Spec

\* However many threads there are, each is where its call can be with the locals it
\* has there.
THEOREM TypeCorrect == Spec => []TypeOK
<1>1. IInv => TypeOK
  BY DEF IInv
<1>2. QED
  BY <1>1, AlwaysIInv, PTL

\* However many threads there are, the container has no entry twice and is never over
\* its capacity.
THEOREM StaysWellFormed == Spec => []WellFormed
<1>1. IInv => WellFormed
  BY DEF IInv
<1>2. QED
  BY <1>1, AlwaysIInv, PTL

\* However many threads there are, nobody changes the container behind the iterators of
\* a getKey or remove(key, value).
THEOREM ScansAreSound == Spec => []ScanIsSound
<1>1. IInv => ScanIsSound
  BY DEF IInv, Good, Sound, ScanIsSound
<1>2. QED
  BY <1>1, AlwaysIInv, PTL

\* A thread moves no other thread; where it is says what it can do.
LEMMA ThreadsMoveAlone ==
  ASSUME TypeOK, NEW u \in Thread, Call(u) \/ Step(u)
  PROVE  /\ Only(u)
         /\ pc[u] = "put" => PutInsert(u)
         /\ pc[u] = "expunge" => GetExpunge(u)
         /\ pc[u] = "sweep" => GetKeySweep(u) \/ GetKeyUnlock(u)
         /\ pc[u] = "idle" => Call(u)
<1> USE DEF Place
<1>1. pc \in [Thread -> Place] /\ held \in [Thread -> SUBSET Entry]
  BY DEF TypeOK
<1>2. ASSUME UNCHANGED pc \/ \E x \in Place : pc' = [pc EXCEPT ![u] = x],
             UNCHANGED held \/ \E S : Hold(u, S)
      PROVE  Only(u)
  <2>1. ASSUME NEW t \in Thread \ {u} PROVE pc'[t] = pc[t]
    BY <1>1, <1>2
  <2>2. ASSUME NEW t \in Thread \ {u} PROVE held'[t] = held[t]
    BY <1>1, <1>2 DEF Hold
  <2>3. QED
    BY <2>1, <2>2 DEF Only
<1>3. ASSUME NEW from \in Place, NEW to \in Place, Goto(u, from, to),
             UNCHANGED held \/ \E S : Hold(u, S)
      PROVE  pc[u] = from /\ Only(u)
  BY <1>2, <1>3 DEF Goto
<1>4. CASE Call(u)
  <2>1. ASSUME NEW k \in Key, GetLookup(u, k) \/ PopTake(u, k) \/ RemoveKey(u, k)
        PROVE  pc[u] = "idle" /\ Only(u)
    BY <1>2, <1>3, <2>1 DEF GetLookup, PopTake, RemoveKey
  <2>2. ASSUME NEW k \in Key, NEW v \in Value, PutStamp(u, k, v) \/ RemoveValueLock(u, k, v)
        PROVE  pc[u] = "idle" /\ Only(u)
    BY <1>3, <2>2 DEF PutStamp, RemoveValueLock
  <2>3. ASSUME NEW v \in Value, GetKeyLock(u, v)
        PROVE  pc[u] = "idle" /\ Only(u)
    BY <1>3, <2>3 DEF GetKeyLock
  <2>4. ASSUME Clear(u) PROVE pc[u] = "idle" /\ Only(u)
    BY <1>2, <2>4 DEF Clear
  <2>5. pc[u] = "idle" /\ Only(u)
    BY <1>4, <2>1, <2>2, <2>3, <2>4 DEF Call
  <2>6. QED
    BY <1>4, <2>5
<1>5. CASE Step(u)
  <2>1. CASE GetKeySweep(u)
    BY <1>2, <2>1 DEF GetKeySweep
  <2>2. CASE GetKeyUnlock(u)
    BY <1>3, <2>2 DEF GetKeyUnlock
  <2>3. CASE PutInsert(u)
    BY <1>3, <2>3 DEF PutInsert
  <2>4. CASE GetExpunge(u)
    BY <1>3, <2>4 DEF GetExpunge
  <2>5. CASE GetServe(u) \/ GetRefuse(u) \/ PopServe(u) \/ PopRefuse(u) \/ Answer(u)
    <3>1. pc[u] \in {"get", "pop", "answer"} /\ Only(u)
      BY <1>3, <2>5 DEF GetServe, GetRefuse, PopServe, PopRefuse, Answer
    <3>2. QED
      BY <3>1
  <2>6. CASE GetKeyFound(u) \/ GetKeyEnd(u) \/ RemoveValueUnlock(u)
    <3>1. pc[u] \in {"scan", "remove"} /\ Only(u)
      BY <1>3, <2>6 DEF GetKeyFound, GetKeyEnd, RemoveValueUnlock
    <3>2. QED
      BY <3>1
  <2>7. CASE GetKeyStep(u) \/ RemoveValueStep(u)
    <3>1. pc[u] \in {"scan", "remove"} /\ Only(u)
      BY <1>2, <2>7 DEF GetKeyStep, RemoveValueStep
    <3>2. QED
      BY <3>1
  <2>8. QED
    BY <1>5, <2>1, <2>2, <2>3, <2>4, <2>5, <2>6, <2>7 DEF Step
<1>6. QED
  BY <1>4, <1>5

\* However many threads there are, getKey names a key that has the value, or no entry
\* with the value is left.
THEOREM KeysAreFound == Spec => GetKeyAnswers
<1>1. ASSUME IInv, [Next]_vars, NEW t \in Thread PROVE GetKeyReturn(t)
  <2> SUFFICES ASSUME pc[t] = "sweep", pc'[t] = "idle"
               PROVE  IF scan.found = {}
                      THEN \A e \in Range(entries') : e[2].value \notin scan.value
                      ELSE \E e \in Range(entries') : /\ e[2].value \in scan.value
                                                      /\ e[1] \in scan.found
    BY DEF GetKeyReturn
  <2>1. Collected(t) /\ TypeOK
    BY <1>1 DEF IInv, Good
  <2>2. held[t] = {} /\ UNCHANGED entries
    <3>1. pc'[t] # pc[t]
      OBVIOUS
    <3>2. PICK u \in Thread : Call(u) \/ Step(u)
      BY <1>1, <3>1 DEF Next, vars, Tick, StepBack
    <3>3. u = t
      BY <2>1, <3>1, <3>2, ThreadsMoveAlone DEF Only
    <3>4. GetKeySweep(t) \/ GetKeyUnlock(t)
      BY <2>1, <3>2, <3>3, ThreadsMoveAlone
    <3>5. QED
      BY <3>1, <3>4 DEF GetKeySweep, GetKeyUnlock
  <2>3. QED
    BY <2>1, <2>2 DEF Collected
<1>2. IInv /\ [Next]_vars => [\A t \in Thread : GetKeyReturn(t)]_vars
  BY <1>1
<1>3. QED
  BY <1>2, AlwaysIInv, PTL DEF Spec, GetKeyAnswers

(***************************************************************************)
(* The entries' lives.                                                     *)
(***************************************************************************)

\* An entry that is remembered carries the second it was put in.
Born == \A b \in births : /\ b[1] \in Entry /\ b[2] \in Nat
                          /\ b[1][2].timestamp = b[2] \div TicksPerSecond

\* And every entry that is around is remembered.
Known == \A e \in Around : \E b \in births : b[1] = e

\* What a get or getKey means to remove has been expired, and a put has one entry.
Condemning == {"expunge", "scan", "sweep"}

Judged(t) == /\ pc[t] \in Condemning => held[t] \subseteq lapsed
             /\ pc[t] = "put" => \E e \in Entry : held[t] = {e}

HInv == IInv /\ Born /\ Known /\ \A t \in Thread : Judged(t)

\* A thread comes to put by stamping an entry, and means to remove what it has just
\* seen to be expired or meant to remove before.
LEMMA JudgesFirst ==
  ASSUME IInv, NEW t \in Thread, Call(t) \/ Step(t)
  PROVE  /\ pc'[t] = "put" => \E k \in Key, v \in Value : PutStamp(t, k, v)
         /\ pc'[t] \in Condemning =>
              \A e \in held'[t] : \/ pc[t] \in Condemning /\ e \in held[t]
                                  \/ Expired(e[2])'
<1> USE DEF Place
<1> DEFINE Goal == /\ pc'[t] = "put" => \E k \in Key, v \in Value : PutStamp(t, k, v)
                   /\ pc'[t] \in Condemning =>
                        \A e \in held'[t] : \/ pc[t] \in Condemning /\ e \in held[t]
                                            \/ Expired(e[2])'
<1>1. pc \in [Thread -> Place] /\ held \in [Thread -> SUBSET Entry] /\ AtRest(t)
  BY DEF IInv, TypeOK, Good
<1>2. ASSUME NEW from \in Place, NEW to \in Place, Goto(t, from, to) PROVE pc[t] = from /\ pc'[t] = to
  BY <1>1, <1>2 DEF Goto
<1>3. ASSUME pc'[t] \in {"idle", "get", "pop", "answer", "remove"} PROVE Goal
  BY <1>3 DEF Condemning
<1>4. CASE Call(t)
  <2>1. ASSUME NEW k \in Key, GetLookup(t, k) \/ PopTake(t, k) \/ RemoveKey(t, k) PROVE Goal
    <3>1. pc'[t] \in {"idle", "get", "pop"}
      BY <1>2, <2>1 DEF GetLookup, PopTake, RemoveKey
    <3>2. QED
      BY <1>3, <3>1
  <2>2. ASSUME NEW k \in Key, NEW v \in Value, PutStamp(t, k, v) PROVE Goal
    <3>1. pc'[t] = "put"
      BY <1>2, <2>2 DEF PutStamp
    <3>2. QED
      BY <2>2, <3>1 DEF Condemning
  <2>3. ASSUME NEW k \in Key, NEW v \in Value, RemoveValueLock(t, k, v) PROVE Goal
    <3>1. pc'[t] = "remove"
      BY <1>2, <2>3 DEF RemoveValueLock
    <3>2. QED
      BY <1>3, <3>1
  <2>4. ASSUME NEW v \in Value, GetKeyLock(t, v) PROVE Goal
    <3>1. pc[t] = "idle" /\ pc'[t] = "scan" /\ held' = held
      BY <1>2, <2>4 DEF GetKeyLock
    <3>2. held'[t] = {}
      BY <1>1, <3>1 DEF AtRest
    <3>3. QED
      BY <3>1, <3>2
  <2>5. ASSUME Clear(t) PROVE Goal
    <3>1. pc'[t] = "idle"
      BY <2>5 DEF Clear
    <3>2. QED
      BY <1>3, <3>1
  <2>6. QED
    BY <1>4, <2>1, <2>2, <2>3, <2>4, <2>5 DEF Call
<1>5. CASE Step(t)
  <2>1. CASE \/ PutInsert(t) \/ GetServe(t) \/ GetExpunge(t) \/ PopServe(t) \/ PopRefuse(t)
             \/ Answer(t) \/ GetKeyUnlock(t) \/ RemoveValueUnlock(t)
    <3>1. pc'[t] \in {"idle", "answer"}
      BY <1>2, <2>1 DEF PutInsert, GetServe, GetExpunge, PopServe, PopRefuse, Answer,
                        GetKeyUnlock, RemoveValueUnlock
    <3>2. QED
      BY <1>3, <3>1
  <2>2. CASE GetRefuse(t)
    <3>1. pc'[t] = "expunge" /\ held' = held /\ now' = now
          /\ \A e \in held[t] : Expired(e[2])
      BY <1>2, <2>2 DEF GetRefuse
    <3>2. \A e \in held'[t] : Expired(e[2])'
      BY <3>1 DEF Expired
    <3>3. QED
      BY <3>1, <3>2
  <2>3. CASE GetKeyStep(t)
    <3>1. /\ pc[t] = "scan" /\ pc'[t] = "scan" /\ now' = now
          /\ \/ held' = held
             \/ /\ Expired(entries[scan.pos][2])
                /\ held'[t] = held[t] \cup {entries[scan.pos]}
      BY <1>1, <2>3 DEF GetKeyStep, Hold
    <3>2. ASSUME NEW e \in held'[t] PROVE e \in held[t] \/ Expired(e[2])'
      BY <3>1 DEF Expired
    <3>3. QED
      BY <3>1, <3>2 DEF Condemning
  <2>4. CASE GetKeyFound(t) \/ GetKeyEnd(t)
    <3>1. pc[t] = "scan" /\ pc'[t] = "sweep" /\ held' = held
      BY <1>2, <2>4 DEF GetKeyFound, GetKeyEnd
    <3>2. QED
      BY <3>1 DEF Condemning
  <2>5. CASE GetKeySweep(t)
    <3>1. pc[t] = "sweep" /\ pc'[t] = "sweep" /\ held'[t] \subseteq held[t]
      BY <1>1, <2>5 DEF GetKeySweep, Hold
    <3>2. QED
      BY <3>1 DEF Condemning
  <2>6. CASE RemoveValueStep(t)
    <3>1. pc'[t] = "remove"
      BY <2>6 DEF RemoveValueStep
    <3>2. QED
      BY <1>3, <3>1
  <2>7. QED
    BY <1>5, <2>1, <2>2, <2>3, <2>4, <2>5, <2>6 DEF Step
<1>6. QED
  BY <1>4, <1>5

\* The clock and the other threads leave what a thread has judged.
LEMMA JudgedStays ==
  ASSUME HInv, HNext, NEW t \in Thread, pc'[t] = pc[t], held'[t] = held[t]
  PROVE  Judged(t)'
<1>1. pc[t] \in Condemning => held'[t] \subseteq lapsed'
  BY DEF HInv, Judged, HNext, Record, Around
<1>2. QED
  BY <1>1 DEF HInv, Judged

\* A thread has in its hands, and leaves in the container, what was around, or what it
\* stamps.
LEMMA OwnEntriesComeFromPuts ==
  ASSUME IInv, NEW t \in Thread, Call(t) \/ Step(t), NEW e \in Range(entries') \cup held'[t]
  PROVE  e \in Around \/ e \in Stamped
<1> USE DEF Place
<1>1. /\ TypeOK /\ Container /\ pc \in [Thread -> Place] /\ held \in [Thread -> SUBSET Entry]
      /\ entries \in Seq(Entry) /\ IsInjective(entries)
      /\ DOMAIN entries = 1 .. Len(entries) /\ Len(entries) \in Nat
      /\ scan.pos \in Nat \ {0}
  BY LenProperties DEF IInv, TypeOK, Container, WellFormed
<1>2. Range(entries) \subseteq Around /\ held[t] \subseteq Around
  BY DEF Around
<1>3. ASSUME Range(entries') \subseteq Around, held'[t] \subseteq Around
      PROVE  e \in Around
  BY <1>3
<1>4. ASSUME NEW S, Hold(t, S) PROVE held'[t] = S
  BY <1>1, <1>4 DEF Hold
<1>5. ASSUME NEW x \in held[t], Erase(x) PROVE Range(entries') \subseteq Around
  <2>1. x \in Entry
    BY <1>1, <1>5
  <2>2. QED
    BY <1>1, <1>2, <1>5, <2>1, EraseProperties
<1>6. ASSUME NEW k \in Key, GetLookup(t, k) \/ PopTake(t, k) PROVE e \in Around
  <2> DEFINE i == LruPosition(entries, k)
  <2>1. CASE ~HasKey(entries, k)
    BY <1>2, <1>6, <2>1 DEF GetLookup, PopTake
  <2>2. CASE HasKey(entries, k)
    <3>1. i \in 1 .. Len(entries)
      BY <1>1, <2>2, LruPositionProperties
    <3>2. entries' = Relocated(entries, i) \/ entries' = RemoveAt(entries, i)
      BY <1>6, <2>2 DEF GetLookup, PopTake
    <3>3. Hold(t, {entries[i]})
      BY <1>6, <2>2 DEF GetLookup, PopTake
    <3> HIDE DEF i
    <3>4. Range(entries') \subseteq Range(entries)
      BY <1>1, <3>1, <3>2, RelocatedKeeps, RemoveAtRange
    <3>5. entries[i] \in Range(entries)
      BY <1>1, <3>1 DEF Range
    <3>6. QED
      BY <1>2, <1>3, <1>4, <3>3, <3>4, <3>5
  <2>3. QED
    BY <2>1, <2>2
<1>7. ASSUME NEW k \in Key, RemoveKey(t, k) PROVE e \in Around
  <2>1. entries' \in Without(entries, Positions(entries, k)) /\ held' = held
    BY <1>7 DEF RemoveKey
  <2>2. Range(entries') \subseteq Range(entries)
    BY <1>1, <2>1, WithoutSublist, SublistKeeps
  <2>3. QED
    BY <1>2, <2>1, <2>2
<1>8. ASSUME NEW k \in Key, NEW v \in Value, PutStamp(t, k, v)
      PROVE  e \in Around \/ e \in Stamped
  <2>1. entries' = entries /\ pc[t] = "idle" /\ pc'[t] = "put"
    BY <1>1, <1>8 DEF PutStamp, Goto
  <2>2. held'[t] \subseteq Stamped
    BY <2>1 DEF Stamped
  <2>3. QED
    BY <1>2, <2>1, <2>2
<1>9. ASSUME NEW k \in Key, NEW v \in Value, RemoveValueLock(t, k, v) PROVE e \in Around
  <2>1. entries' = entries /\ held'[t] \subseteq Range(entries)
    BY <1>4, <1>9 DEF RemoveValueLock
  <2>2. QED
    BY <1>2, <2>1
<1>10. ASSUME (\E v \in Value : GetKeyLock(t, v)) \/ Clear(t) PROVE e \in Around
  <2>1. held' = held /\ (entries' = entries \/ Range(entries') = {})
    BY <1>10 DEF GetKeyLock, Clear, Range
  <2>2. QED
    BY <1>2, <2>1
<1>11. CASE PutInsert(t)
  <2>1. PICK x \in held[t] : entries' = Inserted(entries, Capacity, x[1], x[2])
    BY <1>11 DEF PutInsert
  <2>2. x = <<x[1], x[2]>> /\ x \in Entry /\ Capacity \in Nat
    BY <1>1, <2>1, TimedCacheAssumption DEF Entry
  <2>3. Range(entries') \subseteq Range(entries) \cup {x}
    BY <1>1, <2>1, <2>2, InsertedCases DEF Container, WellFormed
  <2>4. held'[t] = {}
    BY <1>4, <1>11 DEF PutInsert
  <2>5. QED
    BY <1>2, <2>1, <2>3, <2>4
<1>12. CASE GetExpunge(t) \/ GetKeySweep(t) \/ RemoveValueStep(t)
  <2>1. PICK x \in held[t] : Erase(x)
    BY <1>12 DEF GetExpunge, GetKeySweep, RemoveValueStep
  <2>2. held'[t] \subseteq held[t]
    BY <1>4, <1>12 DEF GetExpunge, GetKeySweep, RemoveValueStep
  <2>3. QED
    BY <1>2, <1>3, <1>5, <2>1, <2>2
<1>13. CASE GetKeyStep(t)
  <2>1. /\ entries' = entries /\ scan.pos <= Len(entries)
        /\ held' = held \/ held'[t] = held[t] \cup {entries[scan.pos]}
    BY <1>4, <1>13 DEF GetKeyStep
  <2>2. entries[scan.pos] \in Range(entries)
    BY <1>1, <2>1 DEF Range
  <2>3. QED
    BY <1>2, <2>1, <2>2
<1>14. CASE \/ GetServe(t) \/ GetRefuse(t) \/ PopServe(t) \/ PopRefuse(t) \/ Answer(t)
            \/ GetKeyFound(t) \/ GetKeyEnd(t) \/ GetKeyUnlock(t) \/ RemoveValueUnlock(t)
  <2>1. entries' = entries /\ (held' = held \/ held'[t] = {})
    BY <1>4, <1>14 DEF GetServe, GetRefuse, PopServe, PopRefuse, Answer, GetKeyFound,
                       GetKeyEnd, GetKeyUnlock, RemoveValueUnlock
  <2>2. QED
    BY <1>2, <2>1
<1>15. QED
  BY <1>6, <1>7, <1>8, <1>9, <1>10, <1>11, <1>12, <1>13, <1>14 DEF Call, Step

\* And so has everybody.
LEMMA EntriesComeFromPuts ==
  ASSUME IInv, Next, NEW e \in Around'
  PROVE  e \in Around \/ e \in Stamped
<1>1. TypeOK
  BY DEF IInv
<1>2. CASE Tick \/ StepBack
  BY <1>2 DEF Tick, StepBack, Around
<1>3. ASSUME NEW t \in Thread, Call(t) \/ Step(t)
      PROVE  e \in Around \/ e \in Stamped
  <2>1. Only(t)
    BY <1>1, <1>3, ThreadsMoveAlone
  <2>2. CASE e \in Range(entries') \cup held'[t]
    BY <1>3, <2>2, OwnEntriesComeFromPuts
  <2>3. CASE \E u \in Thread \ {t} : e \in held'[u]
    BY <2>1, <2>3 DEF Only, Around
  <2>4. QED
    BY <2>2, <2>3 DEF Around
<1>4. QED
  BY <1>2, <1>3 DEF Next

\* Every step keeps the entries' lives.
LEMMA NextHInv == HInv /\ [HNext]_hvars => HInv'
<1> SUFFICES ASSUME HInv, [HNext]_hvars PROVE HInv'
  OBVIOUS
<1>1. CASE UNCHANGED hvars
  <2>1. IInv'
    BY <1>1, NextIInv DEF hvars, vars, HInv
  <2>2. QED
    BY <1>1, <2>1 DEF hvars, HInv, Born, Known, Around, Judged
<1>2. CASE HNext
  <2>1. IInv' /\ IInv /\ TypeOK
    BY <1>2, NextIInv DEF HNext, HInv, IInv
  <2>2. ASSUME NEW u \in Thread, Call(u) \/ Step(u) PROVE Only(u)
    BY <2>1, <2>2, ThreadsMoveAlone
  <2>3. ASSUME NEW t \in Thread, pc[t] = "idle", pc'[t] = "put"
        PROVE  \E k \in Key, v \in Value : PutStamp(t, k, v)
    <3>1. PICK u \in Thread : Call(u) \/ Step(u)
      BY <1>2, <2>3 DEF HNext, Next, Tick, StepBack
    <3>2. u = t
      BY <2>2, <2>3, <3>1 DEF Only
    <3>3. QED
      BY <2>1, <2>3, <3>1, <3>2, JudgesFirst
  <2>4. ASSUME NEW t \in Thread, NEW k \in Key, NEW v \in Value, PutStamp(t, k, v)
        PROVE  held'[t] = {<<k, Stamp(v)>>}
    BY <2>1, <2>4 DEF PutStamp, Hold, TypeOK
  <2>5. now \in Nat /\ TicksPerSecond \in Nat \ {0} /\ now \div TicksPerSecond \in Nat
    <3>1. now \in Nat /\ TicksPerSecond \in Nat \ {0}
      BY <2>1, TimedCacheAssumption DEF TypeOK
    <3>2. QED
      BY <3>1
  <2>6. \A e \in Stamped : e \in Entry /\ e[2].timestamp = now \div TicksPerSecond
    <3> SUFFICES ASSUME NEW t \in Thread, pc[t] = "idle", pc'[t] = "put", NEW e \in held'[t]
                 PROVE  e \in Entry /\ e[2].timestamp = now \div TicksPerSecond
      BY DEF Stamped
    <3>1. PICK k \in Key, v \in Value : e = <<k, Stamp(v)>>
      BY <2>3, <2>4
    <3>2. QED
      BY <2>5, <3>1 DEF Stamp, Entry, CacheValue
  <2>7. Born'
    <3> SUFFICES ASSUME NEW b \in births'
                 PROVE  /\ b[1] \in Entry /\ b[2] \in Nat
                        /\ b[1][2].timestamp = b[2] \div TicksPerSecond
      BY DEF Born
    <3>1. b \in births \/ \E e \in Stamped : b = <<e, now>>
      BY <1>2 DEF HNext, Record
    <3>2. QED
      BY <2>5, <2>6, <3>1 DEF HInv, Born
  <2>8. ASSUME NEW t \in Thread PROVE Judged(t)'
    <3>1. CASE \E u \in Thread \ {t} : Call(u) \/ Step(u)
      <4>1. pc'[t] = pc[t] /\ held'[t] = held[t]
        BY <2>2, <3>1 DEF Only
      <4>2. QED
        BY <1>2, <4>1, JudgedStays
    <3>2. CASE Tick \/ StepBack
      <4>1. pc'[t] = pc[t] /\ held'[t] = held[t]
        BY <3>2 DEF Tick, StepBack
      <4>2. QED
        BY <1>2, <4>1, JudgedStays
    <3>3. CASE Call(t) \/ Step(t)
      <4>1. pc'[t] \in Condemning => held'[t] \subseteq lapsed'
        <5> SUFFICES ASSUME pc'[t] \in Condemning, NEW e \in held'[t] PROVE e \in lapsed'
          OBVIOUS
        <5>1. e \in lapsed \/ Expired(e[2])'
          BY <2>1, <3>3, JudgesFirst DEF HInv, Judged
        <5>2. e \in Around'
          BY DEF Around
        <5>3. QED
          BY <1>2, <5>1, <5>2 DEF HNext, Record
      <4>2. pc'[t] = "put" => \E e \in Entry : held'[t] = {e}
        <5> SUFFICES ASSUME pc'[t] = "put" PROVE \E e \in Entry : held'[t] = {e}
          OBVIOUS
        <5>1. PICK k \in Key, v \in Value : held'[t] = {<<k, Stamp(v)>>}
          BY <2>1, <2>4, <3>3, JudgesFirst
        <5>2. <<k, Stamp(v)>> \in Entry
          BY <2>5 DEF Stamp, Entry, CacheValue
        <5>3. QED
          BY <5>1, <5>2
      <4>3. QED
        BY <4>1, <4>2 DEF Judged
    <3>4. QED
      BY <1>2, <3>1, <3>2, <3>3 DEF HNext, Next
  <2>9. Known'
    <3> SUFFICES ASSUME NEW e \in Around' PROVE \E b \in births' : b[1] = e
      BY DEF Known
    <3>1. CASE e \in Around
      <4>1. PICK b \in births : b[1] = e
        BY <3>1 DEF HInv, Known
      <4>2. b \in births'
        BY <1>2, <4>1 DEF HNext, Record
      <4>3. QED
        BY <4>1, <4>2
    <3>2. CASE e \in Stamped
      <4>1. <<e, now>> \in births'
        BY <1>2, <3>2 DEF HNext, Record
      <4>2. QED
        BY <4>1
    <3>3. QED
      BY <1>2, <2>1, <3>1, <3>2, EntriesComeFromPuts DEF HNext
  <2>10. QED
    BY <2>1, <2>7, <2>8, <2>9 DEF HInv
<1>3. QED
  BY <1>1, <1>2

\* So they are kept for ever.
LEMMA AlwaysHInv == HSpec => []HInv
<1>1. HInit => HInv
  <2> SUFFICES ASSUME HInit PROVE HInv
    OBVIOUS
  <2>1. IInv
    BY InitIInv DEF HInit
  <2>2. ASSUME NEW t \in Thread PROVE pc[t] = "idle" /\ held[t] = {}
    BY DEF HInit, Init
  <2>3. Around = {}
    BY <2>2 DEF HInit, Init, Around, Range
  <2>4. QED
    BY <2>1, <2>2, <2>3 DEF HInit, HInv, Born, Known, Judged, Condemning
<1>2. QED
  BY <1>1, NextHInv, PTL DEF HSpec

\* A stamp is at most a second old when it is made, so an entry expires within the last
\* second before its time, whatever the resolution of the clock.
LEMMA ExpiresInItsWindow ==
  ASSUME HInv, Expiration # 0, NEW b \in births
  PROVE  IF Expired(b[1][2]) THEN now - b[2] > (Expiration - 1) * TicksPerSecond
         ELSE now - b[2] < Expiration * TicksPerSecond
<1> DEFINE d == TicksPerSecond
           n == b[2]
           q == n \div d
           x == q * d
           y == Expiration * d
<1>1. /\ d \in Nat \ {0} /\ n \in Nat /\ now \in Nat /\ Expiration \in Nat
      /\ b[1][2].timestamp = q
  BY TimedCacheAssumption DEF HInv, IInv, TypeOK, Born
<1>2. q \in Int /\ n = d * q + (n % d) /\ n % d \in 0 .. d - 1
  <2> HIDE DEF n
  <2>1. QED
    BY <1>1
<1>3. x \in Int /\ y \in Int /\ d \in Int /\ x <= n /\ n < x + d
  <2> HIDE DEF n, q
  <2>1. x = d * q /\ x \in Int /\ y \in Int
    BY <1>1, <1>2
  <2> HIDE DEF x, y
  <2>2. QED
    BY <1>1, <1>2, <2>1
<1>4. (q + Expiration) * d = x + y /\ (Expiration - 1) * d = y - d
  <2> HIDE DEF n, q
  <2>1. QED
    BY <1>1, <1>2
<1>5. Expired(b[1][2]) <=> now >= x + y
  BY <1>1, <1>4 DEF Expired
<1>6. QED
  <2> HIDE DEF n, q, x, y
  <2>1. now >= x + y => now - n > y - d
    BY <1>1, <1>3
  <2>2. ~(now >= x + y) => now - n < y
    BY <1>1, <1>3
  <2>3. QED
    BY <1>4, <1>5, <2>1, <2>2 DEF n, y

\* A thread serves what it has in its hands and is live at this moment, and refuses what
\* has expired.
LEMMA JudgesByTheClock ==
  ASSUME IInv, NEW t \in Thread, Call(t) \/ Step(t)
  PROVE  /\ \A e \in Served(t) : e \in Around /\ ~Expired(e[2])
         /\ \A e \in Refused(t) : e \in Around /\ Expired(e[2])
<1> USE DEF Place
<1> DEFINE Goal == /\ \A e \in Served(t) : e \in Around /\ ~Expired(e[2])
                   /\ \A e \in Refused(t) : e \in Around /\ Expired(e[2])
<1>1. pc \in [Thread -> Place] /\ held \in [Thread -> SUBSET Entry] /\ Collected(t)
  BY DEF IInv, TypeOK, Good
<1>2. ASSUME NEW from \in Place, NEW to \in Place, Goto(t, from, to) PROVE pc[t] = from /\ pc'[t] = to
  BY <1>1, <1>2 DEF Goto
<1>3. held[t] \subseteq Around
  BY DEF Around
<1>4. ASSUME pc[t] \notin {"get", "pop", "scan"} PROVE Goal
  BY <1>4 DEF Served, Refused
<1>5. CASE Call(t)
  <2>1. pc[t] = "idle"
    BY <1>1, <1>5 DEF Call, GetLookup, PopTake, RemoveKey, PutStamp, RemoveValueLock,
                      GetKeyLock, Clear, Goto
  <2>2. QED
    BY <1>4, <2>1
<1>6. CASE \/ PutInsert(t) \/ GetExpunge(t) \/ Answer(t) \/ GetKeySweep(t) \/ GetKeyUnlock(t)
           \/ RemoveValueStep(t) \/ RemoveValueUnlock(t)
  <2>1. pc[t] \in {"put", "expunge", "answer", "sweep", "remove"}
    BY <1>6 DEF PutInsert, GetExpunge, Answer, GetKeySweep, GetKeyUnlock, RemoveValueStep,
                RemoveValueUnlock, Goto
  <2>2. QED
    BY <1>4, <2>1
<1>7. CASE GetServe(t) \/ PopServe(t)
  <2>1. /\ pc[t] \in {"get", "pop"} /\ pc'[t] = "answer" /\ held'[t] = held[t]
        /\ \A e \in held[t] : ~Expired(e[2])
    BY <1>2, <1>7 DEF GetServe, PopServe
  <2>2. Served(t) = held[t] /\ Refused(t) = {}
    BY <2>1 DEF Served, Refused
  <2>3. QED
    BY <1>3, <2>1, <2>2
<1>8. CASE GetRefuse(t) \/ PopRefuse(t)
  <2>1. /\ \/ pc[t] = "get" /\ pc'[t] = "expunge"
           \/ pc[t] = "pop" /\ pc'[t] = "idle"
        /\ \A e \in held[t] : Expired(e[2])
    BY <1>2, <1>8 DEF GetRefuse, PopRefuse
  <2>2. Served(t) = {} /\ Refused(t) = held[t]
    BY <2>1 DEF Served, Refused
  <2>3. QED
    BY <1>3, <2>1, <2>2
<1>9. entries \in Seq(Entry) /\ DOMAIN entries = 1 .. Len(entries) /\ scan.pos \in Nat \ {0}
      /\ Len(entries) \in Nat
  BY LenProperties DEF IInv, TypeOK
<1>10. scan.pos <= Len(entries) => entries[scan.pos] \in Around
  BY <1>9 DEF Around, Range
<1>11. CASE GetKeyStep(t)
  <2>1. /\ pc[t] = "scan" /\ pc'[t] = "scan" /\ scan.pos <= Len(entries)
        /\ \/ held' = held
           \/ /\ Expired(entries[scan.pos][2])
              /\ held'[t] = held[t] \cup {entries[scan.pos]}
    BY <1>1, <1>11 DEF GetKeyStep, Hold
  <2>2. Served(t) = {} /\ Refused(t) = held'[t] \ held[t]
    BY <2>1 DEF Served, Refused
  <2>3. QED
    BY <1>10, <2>1, <2>2
<1>12. CASE GetKeyFound(t)
  <2>1. /\ pc[t] = "scan" /\ pc'[t] = "sweep" /\ scan.pos <= Len(entries)
        /\ ~Expired(entries[scan.pos][2])
    BY <1>2, <1>12 DEF GetKeyFound
  <2>2. Served(t) \subseteq {entries[scan.pos]} /\ Refused(t) = {}
    BY <2>1 DEF Served, Refused
  <2>3. QED
    BY <1>10, <2>1, <2>2
<1>13. CASE GetKeyEnd(t)
  <2>1. pc[t] = "scan" /\ pc'[t] = "sweep" /\ scan' = scan
    BY <1>2, <1>13 DEF GetKeyEnd
  <2>2. scan'.found = {}
    BY <1>1, <2>1 DEF Collected
  <2>3. Served(t) = {} /\ Refused(t) = {}
    BY <2>1, <2>2 DEF Served, Refused
  <2>4. QED
    BY <2>3
<1>14. QED
  BY <1>5, <1>6, <1>7, <1>8, <1>11, <1>12, <1>13 DEF Step

\* Whatever the resolution of the clock, whoever else uses the cache and however the clock
\* is set back, what a call serves was put less than Expiration seconds ago, and what it
\* refuses more than Expiration - 1 seconds ago.
THEOREM Expires == HSpec => ExpirationWindow
<1>1. ASSUME HInv, [HNext]_hvars, Expiration # 0, NEW t \in Thread PROVE Timely(t)
  <2>1. IInv /\ TypeOK
    BY <1>1 DEF HInv, IInv
  <2>2. ASSUME NEW e \in Around PROVE Ages(e) # {}
    BY <1>1, <2>2 DEF HInv, Known, Ages
  <2>3. ASSUME NEW e, NEW age \in Ages(e)
        PROVE  IF Expired(e[2]) THEN age > (Expiration - 1) * TicksPerSecond
               ELSE age < Expiration * TicksPerSecond
    <3>1. PICK b \in births : b[1] = e /\ age = now - b[2]
      BY <2>3 DEF Ages
    <3>2. QED
      BY <1>1, <3>1, ExpiresInItsWindow
  <2>4. CASE Call(t) \/ Step(t)
    BY <2>1, <2>2, <2>3, <2>4, JudgesByTheClock DEF Timely
  <2>5. ASSUME pc'[t] = pc[t], held'[t] = held[t] PROVE Timely(t)
    <3>1. Served(t) = {} /\ Refused(t) = {}
      BY <2>5 DEF Served, Refused
    <3>2. QED
      BY <3>1 DEF Timely
  <2>6. CASE \E u \in Thread \ {t} : Call(u) \/ Step(u)
    BY <2>1, <2>5, <2>6, ThreadsMoveAlone DEF Only
  <2>7. CASE Tick \/ StepBack \/ UNCHANGED hvars
    BY <2>5, <2>7 DEF Tick, StepBack, hvars
  <2>8. QED
    BY <1>1, <2>4, <2>6, <2>7 DEF HNext, Next
<1>2. HInv /\ [HNext]_hvars => [Expiration # 0 => \A t \in Thread : Timely(t)]_hvars
  BY <1>1
<1>3. QED
  BY <1>2, AlwaysHInv, PTL DEF HSpec, ExpirationWindow

\* However many threads there are, and whatever the clock does, no live entry is lost
\* but the one at the front of a full container that a put evicts.
THEOREM LiveEntriesStay == HSpec => LiveEntriesKept
<1>1. ASSUME HInv, [HNext]_hvars, NEW t \in Thread PROVE KeepsLive(t)
  <2> SUFFICES ASSUME Moves(t)
               PROVE  /\ pc[t] \in {"expunge", "sweep"} => Dropped \subseteq lapsed
                      /\ pc[t] = "put" =>
                           \A e \in Dropped : /\ e = entries[1]
                                              /\ Capacity # 0 /\ Len(entries) = Capacity
                                              /\ held[t] \cap Range(entries) = {}
    BY DEF KeepsLive
  <2>1. IInv /\ TypeOK /\ Container /\ Judged(t)
    BY <1>1 DEF HInv, IInv, TypeOK, Container
  <2>2. Call(t) \/ Step(t)
    <3>1. PICK u \in Thread : Call(u) \/ Step(u)
      BY <1>1 DEF HNext, Next, hvars, Tick, StepBack, Moves
    <3>2. u = t
      BY <2>1, <3>1, ThreadsMoveAlone DEF Only, Moves
    <3>3. QED
      BY <3>1, <3>2
  <2>3. /\ pc[t] = "put" => PutInsert(t)
        /\ pc[t] = "expunge" => GetExpunge(t)
        /\ pc[t] = "sweep" => GetKeySweep(t) \/ GetKeyUnlock(t)
    BY <2>1, <2>2, ThreadsMoveAlone
  <2>4. ASSUME pc[t] \in {"expunge", "sweep"} PROVE Dropped \subseteq lapsed
    <3>1. held[t] \subseteq lapsed /\ held[t] \subseteq Entry
      BY <2>1, <2>4 DEF Judged, Condemning, TypeOK
    <3>2. CASE GetKeyUnlock(t)
      BY <3>2 DEF GetKeyUnlock, Dropped
    <3>3. CASE GetExpunge(t) \/ GetKeySweep(t)
      <4>1. PICK e \in held[t] : Erase(e)
        BY <3>3 DEF GetExpunge, GetKeySweep
      <4>2. Range(entries') = Range(entries) \ {e}
        BY <2>1, <3>1, <4>1, EraseProperties
      <4>3. QED
        BY <3>1, <4>1, <4>2 DEF Dropped
    <3>4. QED
      BY <2>3, <2>4, <3>2, <3>3
  <2>5. ASSUME pc[t] = "put", NEW x \in Dropped
        PROVE  /\ x = entries[1] /\ Capacity # 0 /\ Len(entries) = Capacity
               /\ held[t] \cap Range(entries) = {}
    <3>1. PICK e \in Entry : held[t] = {e} /\ entries' = Inserted(entries, Capacity, e[1], e[2])
      BY <2>1, <2>3, <2>5 DEF Judged, PutInsert
    <3>2. e = <<e[1], e[2]>> /\ Capacity \in Nat /\ Len(entries) \in Nat
      BY <2>1, TimedCacheAssumption, LenProperties DEF Entry, Container
    <3>3. \/ Range(entries') = Range(entries) \cup {e}
          \/ /\ e \notin Range(entries) /\ Capacity # 0 /\ Len(entries) >= Capacity
             /\ Range(entries') = (Range(entries) \ {entries[1]}) \cup {e}
      BY <2>1, <3>1, <3>2, InsertedCases DEF Container, WellFormed
    <3>4. QED
      BY <2>1, <2>5, <3>1, <3>2, <3>3 DEF Dropped, Container, WellFormed
  <2>6. QED
    BY <2>4, <2>5
<1>2. HInv /\ [HNext]_hvars => [\A t \in Thread : KeepsLive(t)]_hvars
  BY <1>1
<1>3. QED
  BY <1>2, AlwaysHInv, PTL DEF HSpec, LiveEntriesKept

(***************************************************************************)
(* The threads' steps, seen from outside.                                  *)
(***************************************************************************)

\* Who changes the container, the mutex or the walk has the mutex.
LEMMA OnlyTheOwnerChanges ==
  ASSUME IInv, NEW t \in Thread, Call(t) \/ Step(t)
  PROVE  /\ now' = now
         /\ \/ UNCHANGED <<entries, mutex, scan>>
            \/ mutex \in {NoThread, t} /\ mutex' \in {NoThread, t}
<1>1. Sound(t)
  BY DEF IInv, Good
<1>2. CASE Call(t)
  BY <1>2 DEF Call, GetLookup, PopTake, RemoveKey, PutStamp, RemoveValueLock, GetKeyLock,
              Clear, CanLock
<1>3. CASE Step(t)
  <2>1. CASE PutInsert(t) \/ GetServe(t) \/ GetRefuse(t) \/ GetExpunge(t) \/ PopServe(t)
             \/ PopRefuse(t) \/ Answer(t)
    BY <2>1 DEF PutInsert, GetServe, GetRefuse, GetExpunge, PopServe, PopRefuse, Answer,
                CanLock
  <2>2. CASE GetKeyStep(t) \/ GetKeyFound(t) \/ GetKeyEnd(t) \/ GetKeySweep(t)
             \/ GetKeyUnlock(t) \/ RemoveValueStep(t) \/ RemoveValueUnlock(t)
    <3>1. pc[t] \in InSection
      BY <2>2 DEF GetKeyStep, GetKeyFound, GetKeyEnd, GetKeySweep, GetKeyUnlock,
                  RemoveValueStep, RemoveValueUnlock, InSection, Goto
    <3>2. mutex = t
      BY <1>1, <3>1 DEF Sound
    <3>3. now' = now /\ mutex' \in {mutex, NoThread}
      BY <2>2 DEF GetKeyStep, GetKeyFound, GetKeyEnd, GetKeySweep, GetKeyUnlock,
                  RemoveValueStep, RemoveValueUnlock
    <3>4. QED
      BY <3>2, <3>3
  <2>3. QED
    BY <1>3, <2>1, <2>2 DEF Step
<1>4. QED
  BY <1>2, <1>3

\* A call that has taken an entry has one, and a walk looks for one value, which all
\* that it collects have.  Where the clock is never set back, these are still expired.
HasOne(t) == pc[t] \in {"put", "get", "expunge", "pop"} => \E e \in Entry : held[t] = {e}

Walks(t) ==
  pc[t] = "scan" =>
    /\ \E v \in Value : scan.value = {v}
    /\ \A e \in held[t] : /\ e[2].value \in scan.value
                          /\ ~ClockMayStepBack => Expired(e[2])

CInv == IInv /\ \A t \in Thread : HasOne(t) /\ Walks(t)

\* Where the clock is never set back, what has expired stays so.
LEMMA ExpiredStays ==
  ASSUME TypeOK, NEW cv \in CacheValue, Expired(cv), now' \in Nat, now' >= now
  PROVE  Expired(cv)'
<1> DEFINE x == (cv.timestamp + Expiration) * TicksPerSecond
<1>1. x \in Int /\ now \in Int
  BY TimedCacheAssumption DEF CacheValue, TypeOK
<1>2. now >= x
  BY DEF Expired
<1> HIDE DEF x
<1>3. now' >= x
  BY <1>1, <1>2
<1>4. QED
  BY <1>3 DEF Expired, x

\* A thread's own steps keep its one entry and its walk.
LEMMA OwnStepWalks ==
  ASSUME CInv, NEW t \in Thread, Call(t) \/ Step(t)
  PROVE  HasOne(t)' /\ Walks(t)'
<1> USE DEF Place
<1> DEFINE Goal == HasOne(t)' /\ Walks(t)'
<1>1. /\ IInv /\ pc \in [Thread -> Place] /\ held \in [Thread -> SUBSET Entry] /\ AtRest(t)
      /\ HasOne(t) /\ Walks(t) /\ entries \in Seq(Entry)
      /\ scan \in [value : SUBSET Value, pos : Nat \ {0}, found : SUBSET Key]
      /\ now \in Nat /\ TicksPerSecond \in Nat \ {0}
  BY TimedCacheAssumption DEF CInv, IInv, TypeOK, Good
<1>2. ASSUME NEW from \in Place, NEW to \in Place, Goto(t, from, to) PROVE pc[t] = from /\ pc'[t] = to
  BY <1>1, <1>2 DEF Goto
<1>3. ASSUME pc'[t] \in {"idle", "answer", "sweep", "remove"} PROVE Goal
  BY <1>3 DEF HasOne, Walks
<1>4. ASSUME pc'[t] \in {"put", "get", "expunge", "pop"}, NEW e \in Entry, held'[t] = {e}
      PROVE  Goal
  BY <1>4 DEF HasOne, Walks
<1>5. CASE Call(t)
  <2>1. ASSUME NEW k \in Key, GetLookup(t, k) \/ PopTake(t, k) PROVE Goal
    <3>1. CASE ~HasKey(entries, k)
      <4>1. pc'[t] = "idle"
        BY <2>1, <3>1 DEF GetLookup, PopTake
      <4>2. QED
        BY <1>3, <4>1
    <3>2. CASE HasKey(entries, k)
      <4> DEFINE i == LruPosition(entries, k)
      <4>1. entries[i] \in Entry
        BY <1>1, <3>2, LruPositionProperties, LenProperties
      <4> HIDE DEF i
      <4>2. pc'[t] \in {"get", "pop"} /\ Hold(t, {entries[i]})
        BY <1>2, <2>1, <3>2 DEF GetLookup, PopTake, i
      <4>3. held'[t] = {entries[i]}
        BY <1>1, <4>2 DEF Hold
      <4>4. QED
        BY <1>4, <4>1, <4>2, <4>3
    <3>3. QED
      BY <3>1, <3>2
  <2>2. ASSUME NEW k \in Key, RemoveKey(t, k) PROVE Goal
    <3>1. pc'[t] = "idle"
      BY <2>2 DEF RemoveKey
    <3>2. QED
      BY <1>3, <3>1
  <2>3. ASSUME NEW k \in Key, NEW v \in Value, PutStamp(t, k, v) PROVE Goal
    <3>1. now \div TicksPerSecond \in Nat
      BY <1>1
    <3>2. <<k, Stamp(v)>> \in Entry
      BY <3>1 DEF Stamp, Entry, CacheValue
    <3>3. pc'[t] = "put" /\ held'[t] = {<<k, Stamp(v)>>}
      BY <1>1, <1>2, <2>3 DEF PutStamp, Hold
    <3>4. QED
      BY <1>4, <3>2, <3>3
  <2>4. ASSUME NEW k \in Key, NEW v \in Value, RemoveValueLock(t, k, v) PROVE Goal
    <3>1. pc'[t] = "remove"
      BY <1>2, <2>4 DEF RemoveValueLock
    <3>2. QED
      BY <1>3, <3>1
  <2>5. ASSUME NEW v \in Value, GetKeyLock(t, v) PROVE Goal
    <3>1. /\ pc[t] = "idle" /\ pc'[t] = "scan" /\ held' = held
          /\ scan' = [NoScan EXCEPT !.value = {v}]
      BY <1>2, <2>5 DEF GetKeyLock
    <3>2. held'[t] = {} /\ scan'.value = {v}
      BY <1>1, <3>1 DEF AtRest, NoScan
    <3>3. QED
      BY <3>1, <3>2 DEF HasOne, Walks
  <2>6. ASSUME Clear(t) PROVE Goal
    <3>1. pc'[t] = "idle"
      BY <2>6 DEF Clear
    <3>2. QED
      BY <1>3, <3>1
  <2>7. QED
    BY <1>5, <2>1, <2>2, <2>3, <2>4, <2>5, <2>6 DEF Call
<1>6. CASE Step(t)
  <2>1. CASE \/ PutInsert(t) \/ GetServe(t) \/ GetExpunge(t) \/ PopServe(t) \/ PopRefuse(t)
             \/ Answer(t) \/ GetKeyFound(t) \/ GetKeyEnd(t) \/ GetKeySweep(t)
             \/ GetKeyUnlock(t) \/ RemoveValueStep(t) \/ RemoveValueUnlock(t)
    <3>1. pc'[t] \in {"idle", "answer", "sweep", "remove"}
      BY <1>2, <2>1 DEF PutInsert, GetServe, GetExpunge, PopServe, PopRefuse, Answer,
            GetKeyFound, GetKeyEnd, GetKeySweep, GetKeyUnlock, RemoveValueStep,
            RemoveValueUnlock
    <3>2. QED
      BY <1>3, <3>1
  <2>2. CASE GetRefuse(t)
    <3>1. pc[t] = "get" /\ pc'[t] = "expunge" /\ held' = held
      BY <1>2, <2>2 DEF GetRefuse
    <3>2. PICK e \in Entry : held[t] = {e}
      BY <1>1, <3>1 DEF HasOne
    <3>3. QED
      BY <1>4, <3>1, <3>2
  <2>3. CASE GetKeyStep(t)
    <3> DEFINE e == entries[scan.pos]
    <3>1. /\ pc[t] = "scan" /\ pc'[t] = "scan" /\ now' = now
          /\ scan' = [scan EXCEPT !.pos = @ + 1]
          /\ \/ held' = held
             \/ /\ e[2].value \in scan.value /\ Expired(e[2])
                /\ held'[t] = held[t] \cup {e}
      BY <1>1, <2>3 DEF GetKeyStep, Hold
    <3> HIDE DEF e
    <3>2. scan'.value = scan.value
      BY <1>1, <3>1
    <3>3. ASSUME NEW x \in held'[t]
          PROVE  /\ x[2].value \in scan.value
                 /\ ~ClockMayStepBack => Expired(x[2])'
      <4>1. \/ x \in held[t]
            \/ x[2].value \in scan.value /\ Expired(x[2])
        BY <3>1, <3>3
      <4>2. x[2].value \in scan.value /\ (~ClockMayStepBack => Expired(x[2]))
        BY <1>1, <3>1, <4>1 DEF Walks
      <4>3. QED
        BY <3>1, <4>2 DEF Expired
    <3>4. QED
      BY <1>1, <3>1, <3>2, <3>3 DEF Walks, HasOne
  <2>4. QED
    BY <1>6, <2>1, <2>2, <2>3 DEF Step
<1>7. QED
  BY <1>5, <1>6

\* Nothing else disturbs them.
LEMMA NextCInv == CInv /\ [Next]_vars => CInv'
<1> SUFFICES ASSUME CInv, [Next]_vars PROVE CInv'
  OBVIOUS
<1>1. IInv /\ IInv' /\ TypeOK /\ TypeOK'
  BY NextIInv DEF CInv, IInv
<1>2. ASSUME NEW t \in Thread, pc'[t] = pc[t], held'[t] = held[t],
             pc[t] = "scan" => scan' = scan, ~ClockMayStepBack => now' >= now
      PROVE  HasOne(t)' /\ Walks(t)'
  <2>1. HasOne(t) /\ Walks(t) /\ held[t] \subseteq Entry /\ now' \in Nat
    BY <1>1 DEF CInv, TypeOK
  <2>2. HasOne(t)'
    BY <1>2, <2>1 DEF HasOne
  <2>3. ASSUME pc[t] = "scan", NEW e \in held[t], ~ClockMayStepBack
        PROVE  Expired(e[2])'
    <3>1. Expired(e[2]) /\ e[2] \in CacheValue
      BY <2>1, <2>3 DEF Walks, Entry
    <3>2. QED
      BY <1>1, <1>2, <2>1, <2>3, <3>1, ExpiredStays
  <2>4. Walks(t)'
    BY <1>2, <2>1, <2>3 DEF Walks
  <2>5. QED
    BY <2>2, <2>4
<1>3. now \in Nat
  BY <1>1 DEF TypeOK
<1>4. CASE UNCHANGED vars
  <2>1. \A t \in Thread : HasOne(t)' /\ Walks(t)'
    BY <1>2, <1>3, <1>4 DEF vars
  <2>2. QED
    BY <1>1, <2>1 DEF CInv
<1>5. CASE Tick \/ StepBack
  <2>1. /\ UNCHANGED <<entries, mutex, pc, held, scan>>
        /\ ~ClockMayStepBack => now' >= now
    BY <1>3, <1>5 DEF Tick, StepBack
  <2>2. \A t \in Thread : HasOne(t)' /\ Walks(t)'
    BY <1>2, <2>1
  <2>3. QED
    BY <1>1, <2>2 DEF CInv
<1>6. ASSUME NEW u \in Thread, Call(u) \/ Step(u) PROVE CInv'
  <2>1. HasOne(u)' /\ Walks(u)'
    BY <1>6, OwnStepWalks
  <2>2. ASSUME NEW t \in Thread \ {u} PROVE HasOne(t)' /\ Walks(t)'
    <3>1. pc'[t] = pc[t] /\ held'[t] = held[t]
      BY <1>1, <1>6, ThreadsMoveAlone DEF Only
    <3>2. pc[t] = "scan" => scan' = scan
      <4>1. pc[t] = "scan" => mutex = t
        BY <1>1 DEF IInv, Good, Sound, InSection
      <4>2. mutex = t => scan' = scan
        BY <1>1, <1>6, OnlyTheOwnerChanges, TimedCacheAssumption
      <4>3. QED
        BY <4>1, <4>2
    <3>3. now' = now
      BY <1>1, <1>6, OnlyTheOwnerChanges
    <3>4. QED
      BY <1>2, <1>3, <3>1, <3>2, <3>3
  <2>3. QED
    BY <1>1, <2>1, <2>2 DEF CInv
<1>7. QED
  BY <1>4, <1>5, <1>6 DEF Next

\* So they hold always.
LEMMA AlwaysCInv == Spec => []CInv
<1>1. Init => CInv
  <2> SUFFICES ASSUME Init PROVE CInv
    OBVIOUS
  <2>1. IInv /\ \A t \in Thread : pc[t] = "idle"
    BY InitIInv DEF Init
  <2>2. QED
    BY <2>1 DEF CInv, HasOne, Walks
<1>2. QED
  BY <1>1, NextCInv, PTL DEF Spec

(***************************************************************************)
(* The cache implements LRUTimedContract.                                  *)
(***************************************************************************)

\* While nobody but t can own the mutex, only t can be about to remove something.
Told ==
  \A t \in Thread :
     mutex \in {NoThread, t} =>
       Content = IF pc[t] \in {"sweep", "remove"} THEN Range(entries) \ held[t]
                 ELSE Range(entries)

\* So it is before a step, and after it.
LEMMA ContentIsTold == IInv => Told
<1> SUFFICES ASSUME IInv, NEW t \in Thread, mutex \in {NoThread, t}
             PROVE  Content = IF pc[t] \in {"sweep", "remove"} THEN Range(entries) \ held[t]
                              ELSE Range(entries)
  BY DEF Told
<1>1. \A u \in Thread : pc[u] \in {"sweep", "remove"} => u = t
  BY TimedCacheAssumption DEF IInv, Good, Sound, InSection
<1>2. QED
  BY <1>1 DEF Content

\* A step that changes neither the container nor what a thread is about to remove
\* changes nothing that can be told.
LEMMA SameContent ==
  ASSUME UNCHANGED entries, NEW t \in Thread, Only(t),
         pc[t] \notin {"sweep", "remove"}, pc'[t] \notin {"sweep", "remove"}
  PROVE  UNCHANGED <<Content, Before(entries, Content)>>
<1>1. \A u \in Thread : \A e :
         (pc'[u] \in {"sweep", "remove"} => e \notin held'[u])
           <=> (pc[u] \in {"sweep", "remove"} => e \notin held[u])
  BY DEF Only
<1>2. Content' = Content
  BY <1>1 DEF Content
<1>3. QED
  BY <1>2

\* A thread's step moves its own call in the contract, and no other.
LEMMA ContractMovesAlone ==
  ASSUME IInv, NEW t \in Thread, Call(t) \/ Step(t),
         NEW to, PhaseOf(t)' = to, NEW entry, TakenBy(t)' = entry, NEW key, FoundBy(t)' = key
  PROVE  Contract!Become(t, PhaseOf(t), to, entry, key)
<1>1. Only(t) /\ IInv' /\ TypeOK
  <2>1. Next
    BY DEF Next
  <2>2. TypeOK
    BY DEF IInv
  <2>3. QED
    BY <2>1, <2>2, NextIInv, ThreadsMoveAlone
<1>2. ASSUME NEW u \in Thread \ {t}
      PROVE  PhaseOf(u)' = PhaseOf(u) /\ TakenBy(u)' = TakenBy(u) /\ FoundBy(u)' = FoundBy(u)
  <2>1. pc'[u] = pc[u] /\ held'[u] = held[u]
    BY <1>1 DEF Only
  <2>2. pc[u] = "sweep" => scan' = scan
    <3>1. pc[u] = "sweep" => mutex = u
      BY DEF IInv, Good, Sound, InSection
    <3>2. mutex = u => scan' = scan
      BY OnlyTheOwnerChanges, TimedCacheAssumption
    <3>3. QED
      BY <3>1, <3>2
  <2>3. QED
    BY <2>1, <2>2 DEF PhaseOf, TakenBy, FoundBy
<1> HIDE DEF PhaseOf, TakenBy, FoundBy
<1>3. [u \in Thread |-> PhaseOf(u)]' = [[u \in Thread |-> PhaseOf(u)] EXCEPT ![t] = PhaseOf(t)']
  BY <1>2
<1>4. [u \in Thread |-> TakenBy(u)]' = [[u \in Thread |-> TakenBy(u)] EXCEPT ![t] = TakenBy(t)']
  BY <1>2
<1>5. [u \in Thread |-> FoundBy(u)]' = [[u \in Thread |-> FoundBy(u)] EXCEPT ![t] = FoundBy(t)']
  BY <1>2
<1>6. QED
  BY <1>3, <1>4, <1>5 DEF Contract!Become

\* The same of a thread that does not own the mutex, place by place.
LEMMA OutsideMoves ==
  ASSUME IInv, NEW t \in Thread, Call(t) \/ Step(t),
         pc[t] \notin InSection \cup {"answer"}, pc'[t] \notin InSection \cup {"answer"}
  PROVE  Contract!Become(t, pc[t], pc'[t], held'[t], {})
<1>1. /\ PhaseOf(t) = pc[t] /\ PhaseOf(t)' = pc'[t]
      /\ TakenBy(t)' = held'[t] /\ FoundBy(t)' = {}
  BY DEF PhaseOf, TakenBy, FoundBy, InSection
<1>2. QED
  BY <1>1, ContractMovesAlone

\* What stays in the container stays in its order.
LEMMA Keeps ==
  ASSUME Container, NEW r \in Seq(Entry), Sublist(r, entries), entries' = r,
         NEW S, Content' = S, S \subseteq Content, S \subseteq Range(r)
  PROVE  Contract!Keep(S)
<1>1. entries \in Seq(Entry) /\ IsInjective(entries)
  BY DEF Container, WellFormed
<1>2. ASSUME NEW C, S \subseteq C PROVE Before(r, S) = Before(entries, C) \cap (S \X S)
  BY <1>1, <1>2, OrderIsKept
<1>3. QED
  BY <1>2 DEF Contract!Keep

\* What goes to the end of the list is the last used.
LEMMA Uses ==
  ASSUME Container, NEW e \in Entry, NEW r \in Seq(Entry), Sublist(r, entries),
         e \notin Range(r), entries' = Append(r, e),
         Content = Range(entries), Content' = Range(entries')
  PROVE  Contract!Use(e, Range(r))
<1>1. Range(entries') = Range(r) \cup {e}
  BY AppendRange
<1>2. Range(r) \subseteq Range(entries)
  BY SublistKeeps DEF Container
<1>3. Before(r, Range(r)) = Before(entries, Content) \cap (Range(r) \X Range(r))
  BY <1>2, OrderIsKept DEF Container, WellFormed
<1>4. Before(Append(r, e), Range(r) \cup {e}) = Before(r, Range(r)) \cup (Range(r) \X {e})
  BY LastIsBehind
<1>5. QED
  BY <1>1, <1>3, <1>4 DEF Contract!Use

\* Outside of the walks and removals a thread that may take the mutex sees the whole
\* container, before and after its step.
LEMMA OutsideSeesAll ==
  ASSUME IInv, NEW t \in Thread, Call(t) \/ Step(t), CanLock(t), mutex' = mutex,
         pc[t] \notin InSection, pc'[t] \notin InSection
  PROVE  Content = Range(entries) /\ Content' = Range(entries')
<1>1. Next
  BY DEF Next
<1>2. Told /\ Told'
  BY <1>1, NextIInv, ContentIsTold, PTL
<1>3. mutex \in {NoThread, t} /\ mutex' \in {NoThread, t}
  BY DEF CanLock
<1>4. QED
  BY <1>2, <1>3 DEF Told, InSection

\* The entry that get and pop take is the key's least recently used one.
LEMMA TakesOldest ==
  ASSUME Container, NEW k, HasKey(entries, k), Content = Range(entries)
  PROVE  /\ LruPosition(entries, k) \in 1 .. Len(entries)
         /\ entries[LruPosition(entries, k)] \in Entry
         /\ entries[LruPosition(entries, k)]
              \in Contract!Oldest({c \in Content : c[1] = k})
<1> DEFINE i == LruPosition(entries, k)
           T == {c \in Content : c[1] = k}
<1>1. /\ entries \in Seq(Entry) /\ IsInjective(entries)
      /\ DOMAIN entries = 1 .. Len(entries) /\ Len(entries) \in Nat
  BY LenProperties DEF Container, WellFormed
<1>2. /\ i \in 1 .. Len(entries) /\ i \in Positions(entries, k)
      /\ \A j \in Positions(entries, k) : i <= j
  BY <1>1, LruPositionProperties
<1> HIDE DEF i
<1>3. ASSUME NEW j \in DOMAIN entries, j < i PROVE entries[j] \notin T
  <2>1. j \notin Positions(entries, k)
    BY <1>1, <1>2, <1>3
  <2>2. QED
    BY <1>3, <2>1 DEF Positions
<1>4. \A d \in T : <<d, entries[i]>> \notin Before(entries, Content)
  BY <1>1, <1>2, <1>3, NoneBefore
<1>5. entries[i] \in T /\ entries[i] \in Entry
  BY <1>1, <1>2 DEF Positions, Range
<1>6. QED
  BY <1>2, <1>4, <1>5 DEF Contract!Oldest, i

\* The contract counts as everybody does.
LEMMA SameCardinality ==
  ASSUME NEW S
  PROVE  Contract!Cardinality(S) = Cardinality(S)
BY DEF Contract!Cardinality, Cardinality

\* put.
LEMMA StampImplements ==
  ASSUME IInv, NEW t \in Thread, NEW k \in Key, NEW v \in Value, PutStamp(t, k, v)
  PROVE  Contract!Next
<1>1. Call(t) /\ TypeOK /\ Only(t)
  <2>1. Call(t) /\ TypeOK
    BY DEF Call, IInv
  <2>2. QED
    BY <2>1, ThreadsMoveAlone
<1>2. /\ UNCHANGED <<entries, now>>
      /\ pc[t] = "idle" /\ pc'[t] = "put" /\ held'[t] = {<<k, Stamp(v)>>}
  BY <1>1 DEF PutStamp, Goto, Hold, TypeOK
<1>3. Contract!Become(t, "idle", "put", {<<k, Stamp(v)>>}, {})
  BY <1>1, <1>2, OutsideMoves DEF InSection
<1>4. UNCHANGED <<Content, Before(entries, Content)>>
  BY <1>1, <1>2, SameContent
<1>5. Contract!Stamp(t, k, v)
  BY <1>3, <1>4 DEF Contract!Stamp, Stamp
<1>6. QED
  BY <1>2, <1>5 DEF Contract!Next

\* What a put drops is the first entry of the list, which is the least recently used.
LEMMA InsertImplements ==
  ASSUME IInv, NEW t \in Thread, PutInsert(t)
  PROVE  Contract!Next
<1>1. Step(t) /\ TypeOK /\ Container
  BY DEF Step, IInv, TypeOK, Container
<1>2. /\ CanLock(t) /\ UNCHANGED <<mutex, now>>
      /\ pc[t] = "put" /\ pc'[t] = "idle" /\ held'[t] = {}
  BY <1>1 DEF PutInsert, Goto, Hold, TypeOK
<1>3. Contract!Become(t, "put", "idle", {}, {})
  BY <1>1, <1>2, OutsideMoves DEF InSection
<1>4. Content = Range(entries) /\ Content' = Range(entries')
  BY <1>1, <1>2, OutsideSeesAll DEF InSection
<1>5. PICK e \in held[t] : entries' = Inserted(entries, Capacity, e[1], e[2])
  BY DEF PutInsert
<1>6. e \in Entry /\ e = <<e[1], e[2]>> /\ Capacity \in Nat
  BY <1>1, <1>5, TimedCacheAssumption DEF TypeOK, Entry
<1> DEFINE r == EvictIfFull(ErasePair(entries, e[1], e[2]), Capacity)
<1>7. /\ r \in Seq(Entry) /\ Sublist(r, entries) /\ e \notin Range(r)
      /\ entries' = Append(r, e)
  <2>1. /\ entries \in Seq(Entry) /\ IsInjective(entries)
        /\ Capacity \in Nat /\ (Capacity # 0 => Len(entries) <= Capacity)
    BY <1>1, <1>6 DEF Container, WellFormed
  <2>2. r \in Seq(Entry) /\ Sublist(r, entries) /\ <<e[1], e[2]>> \notin Range(r)
    BY <2>1, InsertedLeaves
  <2>3. entries' = Append(r, <<e[1], e[2]>>)
    BY <1>5 DEF Inserted
  <2> HIDE DEF r
  <2>4. QED
    BY <1>6, <2>2, <2>3
<1> HIDE DEF r
<1>8. Contract!Use(e, Range(r))
  BY <1>1, <1>4, <1>6, <1>7, Uses
<1>9. /\ Range(entries') = Range(r) \cup {e}
      /\ Cardinality(Content) = Len(entries) /\ Len(entries) \in Nat
      /\ DOMAIN entries = 1 .. Len(entries) /\ IsInjective(entries)
  BY <1>1, <1>4, <1>6, <1>7, AppendRange, RangeSize, LenProperties DEF Container, WellFormed
<1>10. \/ /\ e \in Range(entries) \/ Capacity = 0 \/ Len(entries) < Capacity
          /\ Range(entries') = Range(entries) \cup {e}
       \/ /\ e \notin Range(entries) /\ Capacity # 0 /\ Len(entries) >= Capacity
          /\ 1 \in DOMAIN entries
          /\ Range(entries') = (Range(entries) \ {entries[1]}) \cup {e}
  BY <1>1, <1>5, <1>6, InsertedCases DEF Container, WellFormed
<1>11. e \in TakenBy(t)
  BY <1>2, <1>5 DEF TakenBy, InSection
<1>12. Contract!Insert(t)
  <2>1. CASE /\ e \in Range(entries) \/ Capacity = 0 \/ Len(entries) < Capacity
             /\ Range(entries') = Range(entries) \cup {e}
    <3>1. Range(r) = Content \ {e}
      BY <1>4, <1>7, <1>9, <2>1
    <3>2. e \in Content \/ Contract!HasRoom
      <4>1. Capacity = 0 \/ Len(entries) < Capacity => Contract!HasRoom
        BY <1>9, SameCardinality DEF Contract!HasRoom
      <4>2. QED
        BY <1>4, <2>1, <4>1
    <3>3. QED
      BY <1>3, <1>8, <1>11, <3>1, <3>2 DEF Contract!Insert
  <2>2. CASE /\ e \notin Range(entries) /\ Capacity # 0 /\ Len(entries) >= Capacity
             /\ 1 \in DOMAIN entries
             /\ Range(entries') = (Range(entries) \ {entries[1]}) \cup {e}
    <3>1. Range(r) = Content \ {entries[1]}
      BY <1>4, <1>7, <1>9, <2>2
    <3>2. e \notin Content /\ ~Contract!HasRoom
      <4>1. Capacity # 0 /\ Len(entries) >= Capacity => ~Contract!HasRoom
        BY <1>6, <1>9, SameCardinality DEF Contract!HasRoom
      <4>2. QED
        BY <1>4, <2>2, <4>1
    <3>3. \A j \in DOMAIN entries : ~(j < 1)
      BY <1>9
    <3>4. \A d \in Content : <<d, entries[1]>> \notin Before(entries, Content)
      BY <1>1, <1>9, <2>2, <3>3, NoneBefore DEF Container
    <3>5. entries[1] \in Contract!Oldest(Content)
      BY <1>4, <2>2, <3>4 DEF Contract!Oldest, Range
    <3>6. QED
      BY <1>3, <1>8, <1>11, <3>1, <3>2, <3>5 DEF Contract!Insert
  <2>3. QED
    BY <1>10, <2>1, <2>2
<1>13. QED
  BY <1>2, <1>12 DEF Contract!Next

\* get and pop take the key's least recently used entry; get uses it, pop drops it.
LEMMA TakingImplements ==
  ASSUME IInv, NEW t \in Thread, NEW k \in Key, GetLookup(t, k) \/ PopTake(t, k)
  PROVE  Contract!Next \/ UNCHANGED Contract!vars
<1> DEFINE i == LruPosition(entries, k)
           e == entries[i]
           r == RemoveAt(entries, i)
<1>1. Call(t) /\ TypeOK /\ Container /\ CanLock(t) /\ UNCHANGED <<mutex, now, scan>>
  BY DEF Call, IInv, TypeOK, Container, GetLookup, PopTake
<1>2. CASE ~HasKey(entries, k)
  <2>1. UNCHANGED <<entries, mutex, now, pc, held, scan>>
    BY <1>1, <1>2 DEF GetLookup, PopTake
  <2>2. QED
    BY <2>1 DEF Contract!vars, Content, PhaseOf, TakenBy, FoundBy
<1>3. CASE HasKey(entries, k)
  <2>1. /\ pc[t] = "idle" /\ held'[t] = {e}
        /\ \/ pc'[t] = "get" /\ entries' = Relocated(entries, i)
           \/ pc'[t] = "pop" /\ entries' = r
    <3>1. /\ Hold(t, {e})
          /\ \/ Goto(t, "idle", "get") /\ entries' = Relocated(entries, i)
             \/ Goto(t, "idle", "pop") /\ entries' = r
      BY <1>3 DEF GetLookup, PopTake
    <3> HIDE DEF e, r
    <3>2. pc \in [Thread -> Place] /\ held \in [Thread -> SUBSET Entry]
      BY <1>1 DEF TypeOK, Place
    <3>3. QED
      BY <3>1, <3>2 DEF Goto, Hold, Place
  <2>2. Content = Range(entries) /\ Content' = Range(entries')
    BY <1>1, <2>1, OutsideSeesAll DEF InSection
  <2>3. /\ i \in 1 .. Len(entries) /\ e \in Entry
        /\ e \in Contract!Oldest({c \in Content : c[1] = k})
    BY <1>1, <1>3, <2>2, TakesOldest
  <2>4. entries \in Seq(Entry) /\ IsInjective(entries)
    BY <1>1 DEF Container, WellFormed
  <2>5. /\ r \in Seq(Entry) /\ Sublist(r, entries)
        /\ Range(r) = Range(entries) \ {e}
    BY <2>3, <2>4, RemoveAtProperties, RemoveAtSublist, RemoveAtRange
  <2>6. entries' = Relocated(entries, i) => entries' = Append(r, e)
    BY DEF Relocated
  <2> HIDE DEF e, r, i
  <2>7. CASE pc'[t] = "get" /\ entries' = Append(r, e)
    <3>1. Contract!Use(e, Content \ {e})
      <4>1. e \notin Range(r) /\ Range(r) = Content \ {e}
        BY <2>2, <2>5
      <4>2. Contract!Use(e, Range(r))
        BY <1>1, <2>2, <2>3, <2>5, <2>7, <4>1, Uses
      <4>3. QED
        BY <4>1, <4>2
    <3>2. Contract!Become(t, "idle", "get", {e}, {})
      BY <1>1, <2>1, <2>7, OutsideMoves DEF InSection
    <3>3. Contract!Look(t, k)
      BY <2>3, <3>1, <3>2 DEF Contract!Look
    <3>4. QED
      BY <1>1, <3>3 DEF Contract!Next
  <2>8. CASE pc'[t] = "pop" /\ entries' = r
    <3>1. Contract!Keep(Content \ {e})
      <4> DEFINE S == Content \ {e}
      <4>1. Content' = S /\ S \subseteq Content /\ S \subseteq Range(r)
        BY <2>2, <2>5, <2>8
      <4> HIDE DEF S
      <4>2. Contract!Keep(S)
        BY <1>1, <2>5, <2>8, <4>1, Keeps
      <4>3. QED
        BY <4>2 DEF S
    <3>2. Contract!Become(t, "idle", "pop", {e}, {})
      BY <1>1, <2>1, <2>8, OutsideMoves DEF InSection
    <3>3. Contract!Pop(t, k)
      BY <2>3, <3>1, <3>2 DEF Contract!Pop
    <3>4. QED
      BY <1>1, <3>3 DEF Contract!Next
  <2>9. QED
    BY <2>1, <2>6, <2>7, <2>8
<1>4. QED
  BY <1>2, <1>3

\* get and pop judge what they took, and return it or not.
LEMMA JudgingImplements ==
  ASSUME IInv, NEW t \in Thread,
         GetServe(t) \/ GetRefuse(t) \/ PopServe(t) \/ PopRefuse(t) \/ Answer(t)
  PROVE  Contract!Next
<1> USE DEF Place
<1>1. /\ Step(t) /\ TypeOK /\ Only(t) /\ UNCHANGED <<entries, now>>
      /\ pc \in [Thread -> Place] /\ held \in [Thread -> SUBSET Entry]
  <2>1. Step(t) /\ TypeOK /\ UNCHANGED <<entries, now>>
    BY DEF Step, IInv, GetServe, GetRefuse, PopServe, PopRefuse, Answer
  <2>2. QED
    BY <2>1, ThreadsMoveAlone DEF TypeOK
<1>2. \/ /\ pc[t] \in {"get", "pop"} /\ pc'[t] = "answer" /\ held'[t] = held[t]
         /\ \A e \in held[t] : ~Expired(e[2])
      \/ /\ pc[t] = "get" /\ pc'[t] = "expunge" /\ held'[t] = held[t]
         /\ \A e \in held[t] : Expired(e[2])
      \/ /\ pc[t] = "pop" /\ pc'[t] = "idle" /\ held'[t] = {}
         /\ \A e \in held[t] : Expired(e[2])
      \/ pc[t] = "answer" /\ pc'[t] = "idle" /\ held'[t] = {}
  BY <1>1 DEF GetServe, GetRefuse, PopServe, PopRefuse, Answer, Goto, Hold
<1>3. UNCHANGED <<Content, Before(entries, Content)>>
  BY <1>1, <1>2, SameContent
<1>4. Contract!Become(t, PhaseOf(t), IF pc'[t] = "answer" THEN "return" ELSE pc'[t],
                      held'[t], {})
  <2>1. /\ PhaseOf(t)' = (IF pc'[t] = "answer" THEN "return" ELSE pc'[t])
        /\ TakenBy(t)' = held'[t] /\ FoundBy(t)' = {}
    BY <1>2 DEF PhaseOf, TakenBy, FoundBy, InSection
  <2>2. QED
    BY <1>1, <2>1, ContractMovesAlone
<1>5. \A e \in held[t] : Contract!Expired(e) <=> Expired(e[2])
  BY DEF Contract!Expired, Expired
<1>6. /\ TakenBy(t) = held[t]
      /\ PhaseOf(t) = (IF pc[t] = "answer" THEN "return" ELSE pc[t])
  BY <1>2 DEF PhaseOf, TakenBy, InSection
<1> HIDE DEF PhaseOf, TakenBy
<1>7. \/ Contract!Serve(t) \/ Contract!Refuse(t) \/ Contract!PopRefuse(t)
      \/ Contract!Return(t)
  <2>1. CASE /\ pc[t] \in {"get", "pop"} /\ pc'[t] = "answer" /\ held'[t] = held[t]
             /\ \A e \in held[t] : ~Expired(e[2])
    BY <1>3, <1>4, <1>5, <1>6, <2>1 DEF Contract!Serve
  <2>2. CASE /\ pc[t] = "get" /\ pc'[t] = "expunge" /\ held'[t] = held[t]
             /\ \A e \in held[t] : Expired(e[2])
    BY <1>3, <1>4, <1>5, <1>6, <2>2 DEF Contract!Refuse
  <2>3. CASE /\ pc[t] = "pop" /\ pc'[t] = "idle" /\ held'[t] = {}
             /\ \A e \in held[t] : Expired(e[2])
    BY <1>3, <1>4, <1>5, <1>6, <2>3 DEF Contract!PopRefuse
  <2>4. CASE pc[t] = "answer" /\ pc'[t] = "idle" /\ held'[t] = {}
    BY <1>3, <1>4, <1>6, <2>4 DEF Contract!Return
  <2>5. QED
    BY <1>2, <2>1, <2>2, <2>3, <2>4
<1>8. QED
  BY <1>1, <1>7 DEF Contract!Next

\* get removes the entry it refused.
LEMMA ExpungeImplements ==
  ASSUME IInv, NEW t \in Thread, HasOne(t), GetExpunge(t)
  PROVE  Contract!Next
<1>1. Step(t) /\ TypeOK /\ Container
  BY DEF Step, IInv, TypeOK, Container
<1>2. /\ CanLock(t) /\ UNCHANGED <<mutex, now>>
      /\ pc[t] = "expunge" /\ pc'[t] = "idle" /\ held'[t] = {}
  BY <1>1 DEF GetExpunge, Goto, Hold, TypeOK
<1>3. Contract!Become(t, "expunge", "idle", {}, {})
  BY <1>1, <1>2, OutsideMoves DEF InSection
<1>4. Content = Range(entries) /\ Content' = Range(entries')
  BY <1>1, <1>2, OutsideSeesAll DEF InSection
<1>5. PICK e \in Entry : held[t] = {e}
  BY <1>2 DEF HasOne
<1>6. Erase(e)
  BY <1>5 DEF GetExpunge
<1>7. /\ Range(entries') = Range(entries) \ {e}
      /\ entries' \in Seq(Entry) /\ Sublist(entries', entries)
  BY <1>1, <1>5, <1>6, EraseProperties, ErasePairProperties DEF Erase, Container
<1>8. Contract!Keep(Content \ TakenBy(t))
  <2> DEFINE S == Content \ TakenBy(t)
             r == entries'
  <2>1. TakenBy(t) = {e}
    BY <1>2, <1>5 DEF TakenBy, InSection
  <2>2. Content' = S /\ S \subseteq Content /\ S \subseteq Range(r)
    BY <1>4, <1>7, <2>1
  <2>3. r \in Seq(Entry) /\ Sublist(r, entries) /\ entries' = r
    BY <1>7
  <2> HIDE DEF S, r
  <2>4. Contract!Keep(S)
    BY <1>1, <2>2, <2>3, Keeps
  <2>5. QED
    BY <2>4 DEF S
<1>9. Contract!Expunge(t)
  BY <1>3, <1>8 DEF Contract!Expunge
<1>10. QED
  BY <1>2, <1>9 DEF Contract!Next

\* remove(key) and clear are complete in one step.
LEMMA EmptyingImplements ==
  ASSUME IInv, NEW t \in Thread, (\E k \in Key : RemoveKey(t, k)) \/ Clear(t)
  PROVE  Contract!Next
<1>1. Call(t) /\ TypeOK /\ Container /\ AtRest(t)
  BY DEF Call, IInv, TypeOK, Container, Good
<1>2. /\ CanLock(t) /\ UNCHANGED <<mutex, now>>
      /\ pc[t] = "idle" /\ pc'[t] = "idle" /\ held'[t] = {}
  BY <1>1 DEF RemoveKey, Clear, AtRest
<1>3. Contract!Become(t, "idle", "idle", {}, {})
  BY <1>1, <1>2, OutsideMoves DEF InSection
<1>4. Content = Range(entries) /\ Content' = Range(entries')
  BY <1>1, <1>2, OutsideSeesAll DEF InSection
<1>5. entries \in Seq(Entry) /\ DOMAIN entries = 1 .. Len(entries)
  BY <1>1, LenProperties DEF Container
<1>6. ASSUME NEW S, NEW r \in Seq(Entry), Sublist(r, entries), entries' = r,
             S \subseteq Content, Range(r) = S
      PROVE  Contract!Keep(S)
  BY <1>1, <1>4, <1>6, Keeps
<1>7. CASE Clear(t)
  <2>1. /\ <<>> \in Seq(Entry) /\ entries' = <<>>
        /\ Range(<<>>) = {}
    BY <1>7 DEF Clear, Range
  <2>2. Sublist(<<>>, entries)
    <3> DEFINE f == [a \in 1 .. Len(<<>>) |-> 1]
    <3>1. 1 .. Len(<<>>) = {}
      OBVIOUS
    <3>2. f \in [1 .. Len(<<>>) -> 1 .. Len(entries)]
      BY <3>1
    <3> HIDE DEF f
    <3>3. \A a \in 1 .. Len(<<>>) : FALSE
      BY <3>1
    <3>4. QED
      BY <3>2, <3>3 DEF Sublist
  <2>3. Contract!Keep({})
    BY <1>6, <2>1, <2>2
  <2>4. QED
    BY <1>2, <1>3, <2>3 DEF Contract!Next, Contract!Clear
<1>8. ASSUME NEW k \in Key, RemoveKey(t, k) PROVE Contract!Next
  <2> DEFINE S == {c \in Content : c[1] # k}
             r == entries'
  <2>1. entries' \in Without(entries, Positions(entries, k))
    BY <1>8 DEF RemoveKey
  <2>2. /\ entries' \in Seq(Entry) /\ Sublist(entries', entries)
        /\ Range(entries') = {entries[i] : i \in DOMAIN entries \ Positions(entries, k)}
    BY <1>5, <2>1, WithoutSublist, WithoutRange
  <2>3. Range(r) = S
    BY <1>4, <2>2 DEF Positions, Range
  <2>4. r \in Seq(Entry) /\ Sublist(r, entries) /\ entries' = r /\ S \subseteq Content
    BY <2>2
  <2> HIDE DEF S, r
  <2>5. Contract!Keep(S)
    BY <1>6, <2>3, <2>4
  <2>6. Contract!RemoveKey(t, k)
    BY <1>3, <2>5 DEF Contract!RemoveKey, S
  <2>7. QED
    BY <1>2, <2>6 DEF Contract!Next
<1>9. QED
  BY <1>7, <1>8

\* A step that moves its thread's call no further and leaves the same to be told is not
\* seen.
LEMMA Unseen ==
  ASSUME IInv, NEW t \in Thread, Call(t) \/ Step(t),
         UNCHANGED <<PhaseOf(t), TakenBy(t), FoundBy(t)>>,
         UNCHANGED <<Content, Before(entries, Content)>>, now' = now
  PROVE  UNCHANGED Contract!vars
<1> DEFINE to == PhaseOf(t)  entry == TakenBy(t)  key == FoundBy(t)
<1>1. PhaseOf(t)' = to /\ TakenBy(t)' = entry /\ FoundBy(t)' = key
  OBVIOUS
<1> HIDE DEF to, entry, key
<1>2. Contract!Become(t, PhaseOf(t), to, entry, key)
  BY <1>1, ContractMovesAlone
<1>3. to = PhaseOf(t) /\ entry = TakenBy(t) /\ key = FoundBy(t)
  BY DEF to, entry, key
<1> HIDE DEF PhaseOf, TakenBy, FoundBy
<1>4. UNCHANGED <<[u \in Thread |-> PhaseOf(u)], [u \in Thread |-> TakenBy(u)],
                  [u \in Thread |-> FoundBy(u)]>>
  BY <1>2, <1>3 DEF Contract!Become
<1>5. QED
  BY <1>4 DEF Contract!vars

\* What getKey does before it has its answer is not seen.
LEMMA WalkingImplements ==
  ASSUME IInv, NEW t \in Thread, (\E v \in Value : GetKeyLock(t, v)) \/ GetKeyStep(t)
  PROVE  UNCHANGED Contract!vars
<1>1. /\ Call(t) \/ Step(t)
      /\ TypeOK /\ Only(t) /\ AtRest(t) /\ UNCHANGED <<entries, now>>
  <2>1. /\ Call(t) \/ Step(t)
        /\ TypeOK /\ AtRest(t) /\ UNCHANGED <<entries, now>>
    BY DEF Call, Step, IInv, Good, GetKeyLock, GetKeyStep
  <2>2. QED
    BY <2>1, ThreadsMoveAlone
<1>2. pc[t] \in {"idle", "scan"} /\ pc'[t] = "scan"
  BY <1>1 DEF GetKeyLock, GetKeyStep, Goto, TypeOK
<1>3. UNCHANGED <<Content, Before(entries, Content)>>
  BY <1>1, <1>2, SameContent
<1>4. UNCHANGED <<PhaseOf(t), TakenBy(t), FoundBy(t)>>
  BY <1>1, <1>2 DEF PhaseOf, TakenBy, FoundBy, InSection, AtRest
<1>5. QED
  BY <1>1, <1>3, <1>4, Unseen

\* Nor is the removal, entry by entry, of what is as good as removed.
LEMMA SweepingImplements ==
  ASSUME IInv, NEW t \in Thread, GetKeySweep(t) \/ RemoveValueStep(t)
  PROVE  UNCHANGED Contract!vars
<1>1. /\ Step(t) /\ TypeOK /\ Container /\ Told /\ Told' /\ UNCHANGED <<mutex, now, pc, scan>>
      /\ pc[t] \in {"sweep", "remove"} /\ mutex = t
  <2>1. /\ Step(t) /\ TypeOK /\ Container /\ UNCHANGED <<mutex, now, pc, scan>>
        /\ pc[t] \in {"sweep", "remove"} /\ mutex = t
    BY DEF Step, IInv, TypeOK, Container, GetKeySweep, RemoveValueStep, Good, Sound,
           InSection
  <2>2. Next
    BY <2>1 DEF Next
  <2>3. QED
    BY <2>1, <2>2, NextIInv, ContentIsTold, PTL
<1>2. PICK e \in held[t] : Erase(e) /\ Hold(t, held[t] \ {e})
  BY DEF GetKeySweep, RemoveValueStep
<1>3. e \in Entry /\ held'[t] = held[t] \ {e}
  BY <1>1, <1>2 DEF TypeOK, Hold
<1>4. /\ Range(entries') = Range(entries) \ {e}
      /\ entries' \in Seq(Entry) /\ Sublist(entries', entries)
  BY <1>1, <1>2, <1>3, EraseProperties, ErasePairProperties DEF Erase, Container
<1>5. Content = Range(entries) \ held[t] /\ Content' = Range(entries') \ held'[t]
  BY <1>1 DEF Told
<1>6. Content' = Content /\ Content \subseteq Range(entries')
  BY <1>2, <1>3, <1>4, <1>5
<1>7. Before(entries, Content)' = Before(entries, Content)
  <2> DEFINE r == entries'  S == Content
  <2>1. r \in Seq(Entry) /\ Sublist(r, entries) /\ entries' = r
        /\ Content' = S /\ S \subseteq Content /\ S \subseteq Range(r)
    BY <1>4, <1>6
  <2>2. S = Content
    OBVIOUS
  <2> HIDE DEF r, S
  <2>3. Contract!Keep(S)
    BY <1>1, <2>1, Keeps
  <2>4. Before(entries, Content)' = Before(entries, Content) \cap (S \X S)
    BY <2>3 DEF Contract!Keep
  <2>5. QED
    BY <2>2, <2>4 DEF Before
<1>8. UNCHANGED <<PhaseOf(t), TakenBy(t), FoundBy(t)>>
  BY <1>1 DEF PhaseOf, TakenBy, FoundBy, InSection
<1>9. QED
  BY <1>1, <1>6, <1>7, <1>8, Unseen

\* getKey answers at the moment in which its walk ends: what it has collected is gone.
LEMMA AnsweringImplements ==
  ASSUME CInv, NEW t \in Thread, GetKeyFound(t) \/ GetKeyEnd(t)
  PROVE  Contract!Next
<1> DEFINE gone == held[t]
<1>1. /\ Step(t) /\ IInv /\ TypeOK /\ Container /\ Told /\ Told'
      /\ UNCHANGED <<entries, mutex, now, held>>
      /\ pc[t] = "scan" /\ pc'[t] = "sweep" /\ mutex = t
      /\ Sound(t) /\ Collected(t) /\ Walks(t)
  <2>1. /\ Step(t) /\ IInv /\ TypeOK /\ Container /\ UNCHANGED <<entries, mutex, now, held>>
        /\ pc[t] = "scan" /\ pc'[t] = "sweep"
        /\ Sound(t) /\ Collected(t) /\ Walks(t)
    BY DEF Step, CInv, IInv, TypeOK, Container, GetKeyFound, GetKeyEnd, Good, Goto
  <2>2. Next /\ mutex = t
    BY <2>1 DEF Next, Sound, InSection
  <2>3. QED
    BY <2>1, <2>2, NextIInv, ContentIsTold, PTL
<1>2. PICK v \in Value : scan.value = {v}
  BY <1>1 DEF Walks
<1>3. /\ entries \in Seq(Entry) /\ IsInjective(entries)
      /\ DOMAIN entries = 1 .. Len(entries) /\ Len(entries) \in Nat
      /\ scan \in [value : SUBSET Value, pos : Nat \ {0}, found : SUBSET Key]
  BY <1>1, LenProperties DEF Container, WellFormed, TypeOK
<1>4. Content = Range(entries) /\ Content' = Range(entries) \ gone
  BY <1>1 DEF Told
<1>5. /\ \A c \in gone : /\ c[2].value = v
                         /\ \E i \in 1 .. (scan.pos - 1) : entries[i] = c
                         /\ ~ClockMayStepBack => Expired(c[2])
      /\ scan.pos <= Len(entries) + 1 /\ scan.found = {} /\ gone \subseteq Range(entries)
      /\ \A i \in 1 .. (scan.pos - 1) : entries[i][2].value = v => entries[i] \in gone
  BY <1>1, <1>2 DEF Sound, Collected, Walks, InSection
<1>6. Contract!Keep(Content \ gone)
  <2> DEFINE S == Content \ gone
             r == entries
  <2>1. Content' = S /\ S \subseteq Content /\ S \subseteq Range(r)
    BY <1>4
  <2>2. r \in Seq(Entry) /\ Sublist(r, entries) /\ entries' = r
    BY <1>1, <1>3, SublistReflexive
  <2> HIDE DEF S, r
  <2>3. Contract!Keep(S)
    BY <1>1, <2>1, <2>2, Keeps
  <2>4. QED
    BY <2>3 DEF S
<1>7. ASSUME NEW key, scan'.found = key PROVE Contract!Become(t, "idle", "return", {}, key)
  <2>1. /\ PhaseOf(t) = "idle" /\ PhaseOf(t)' = "return"
        /\ TakenBy(t)' = {} /\ FoundBy(t)' = key
    BY <1>1, <1>7 DEF PhaseOf, TakenBy, FoundBy, InSection
  <2>2. QED
    BY <1>1, <2>1, ContractMovesAlone
<1>8. gone \in SUBSET {c \in Content : c[2].value = v}
  BY <1>4, <1>5
<1>9. ~ClockMayStepBack => \A c \in gone : Contract!Expired(c)
  BY <1>5 DEF Contract!Expired, Expired
<1> HIDE DEF gone
<1> DEFINE rest == {c \in Content \ gone : c[2].value = v}
<1>10. CASE GetKeyEnd(t)
  <2>1. scan.pos > Len(entries) /\ scan' = scan
    BY <1>10 DEF GetKeyEnd
  <2>2. rest = {}
    BY <1>3, <1>4, <1>5, <2>1 DEF Range
  <2>3. Contract!Become(t, "idle", "return", {}, {})
    BY <1>5, <1>7, <2>1
  <2>4. Contract!GetKey(t, v)
    BY <1>6, <1>8, <1>9, <2>2, <2>3 DEF Contract!GetKey
  <2>5. QED
    BY <1>1, <2>4 DEF Contract!Next
<1>11. CASE GetKeyFound(t)
  <2> DEFINE e == entries[scan.pos]
  <2>1. scan.pos <= Len(entries) /\ e[2].value = v /\ ~Expired(e[2]) /\ scan'.found = {e[1]}
    BY <1>2, <1>3, <1>11 DEF GetKeyFound
  <2>2. scan.pos \in DOMAIN entries /\ scan.pos \in Nat
    BY <1>3, <2>1
  <2>3. e \notin gone
    BY <1>3, <1>5, <2>2 DEF IsInjective
  <2>4. \A j \in DOMAIN entries : j < scan.pos => entries[j] \notin rest
    BY <1>3, <1>5, <2>2
  <2> HIDE DEF rest
  <2>5. \A d \in rest : <<d, entries[scan.pos]>> \notin Before(entries, Content)
    BY <1>3, <2>2, <2>4, NoneBefore
  <2> USE DEF rest
  <2>6. e \in rest
    BY <1>4, <2>1, <2>2, <2>3 DEF Range
  <2> HIDE DEF rest
  <2>7. e \in Contract!Oldest(rest)
    BY <2>5, <2>6 DEF Contract!Oldest
  <2>8. gone \X {e} \subseteq Before(entries, Content)
    <3>1. ASSUME NEW c \in gone PROVE <<c, e>> \in Before(entries, Content)
      <4>1. PICK i \in 1 .. (scan.pos - 1) : entries[i] = c
        BY <1>5, <3>1
      <4>2. i \in DOMAIN entries /\ i < scan.pos
        BY <1>3, <2>2, <4>1
      <4>3. c \in Content /\ e \in Content
        BY <1>4, <2>2, <4>1, <4>2 DEF Range
      <4> HIDE DEF e
      <4>4. e = entries[scan.pos]
        BY DEF e
      <4>5. QED
        BY <2>2, <4>1, <4>2, <4>3, <4>4 DEF Before
    <3>2. QED
      BY <3>1
  <2>9. ~Contract!Expired(e)
    BY <2>1 DEF Contract!Expired, Expired
  <2>10. Contract!Become(t, "idle", "return", {}, {e[1]})
    BY <1>7, <2>1
  <2> HIDE DEF e
  <2>11. Contract!GetKey(t, v)
    BY <1>6, <1>8, <1>9, <2>7, <2>8, <2>9, <2>10 DEF Contract!GetKey, rest
  <2>12. QED
    BY <1>1, <2>11 DEF Contract!Next
<1>12. QED
  BY <1>10, <1>11

\* remove(key, value) takes effect at the moment in which it takes the mutex.
LEMMA RemovingImplements ==
  ASSUME IInv, NEW t \in Thread, NEW k \in Key, NEW v \in Value, RemoveValueLock(t, k, v)
  PROVE  Contract!Next
<1> DEFINE gone == {e \in Range(entries) : e[1] = k /\ e[2].value = v}
<1>1. /\ Call(t) /\ TypeOK /\ Container /\ Told /\ Told' /\ UNCHANGED <<entries, now>>
      /\ mutex \in {NoThread, t} /\ mutex' = t
      /\ pc[t] = "idle" /\ pc'[t] = "remove" /\ held'[t] = gone
  <2>1. /\ Call(t) /\ TypeOK /\ Container /\ UNCHANGED <<entries, now>>
        /\ mutex \in {NoThread, t} /\ mutex' = t
    BY DEF Call, IInv, TypeOK, Container, RemoveValueLock, CanLock
  <2>2. Goto(t, "idle", "remove") /\ Hold(t, gone)
    BY DEF RemoveValueLock
  <2> HIDE DEF gone
  <2>3. pc[t] = "idle" /\ pc'[t] = "remove" /\ held'[t] = gone
    BY <2>1, <2>2 DEF Goto, Hold, TypeOK
  <2>4. Next
    BY <2>1 DEF Next
  <2>5. QED
    BY <2>1, <2>3, <2>4, NextIInv, ContentIsTold, PTL
<1>2. Content = Range(entries) /\ Content' = Range(entries) \ gone
  BY <1>1 DEF Told
<1>3. Contract!Keep({c \in Content : ~(c[1] = k /\ c[2].value = v)})
  <2> DEFINE S == {c \in Content : ~(c[1] = k /\ c[2].value = v)}
             r == entries
  <2>1. Content' = S /\ S \subseteq Content /\ S \subseteq Range(r)
    BY <1>2
  <2>2. r \in Seq(Entry) /\ Sublist(r, entries) /\ entries' = r
    BY <1>1, SublistReflexive DEF Container
  <2> HIDE DEF S, r
  <2>3. Contract!Keep(S)
    BY <1>1, <2>1, <2>2, Keeps
  <2>4. QED
    BY <2>3 DEF S
<1>4. Contract!Become(t, "idle", "return", {}, {})
  <2>1. /\ PhaseOf(t) = "idle" /\ PhaseOf(t)' = "return"
        /\ TakenBy(t)' = {} /\ FoundBy(t)' = {}
    BY <1>1 DEF PhaseOf, TakenBy, FoundBy, InSection
  <2>2. Call(t)
    BY <1>1
  <2> HIDE DEF gone
  <2>3. QED
    BY <2>1, <2>2, ContractMovesAlone
<1>5. Contract!RemoveValue(t, k, v)
  BY <1>3, <1>4 DEF Contract!RemoveValue
<1>6. QED
  BY <1>1, <1>5 DEF Contract!Next

\* Both return when nothing is left to be removed.
LEMMA UnlockingImplements ==
  ASSUME IInv, NEW t \in Thread, GetKeyUnlock(t) \/ RemoveValueUnlock(t)
  PROVE  Contract!Next
<1>1. /\ Step(t) /\ TypeOK /\ Told /\ Told' /\ UNCHANGED <<entries, now, held>>
      /\ pc[t] \in {"sweep", "remove"} /\ pc'[t] = "idle" /\ held[t] = {}
      /\ mutex = t /\ mutex' = NoThread
  <2>1. /\ Step(t) /\ TypeOK /\ UNCHANGED <<entries, now, held>>
        /\ pc[t] \in {"sweep", "remove"} /\ pc'[t] = "idle" /\ held[t] = {}
        /\ mutex' = NoThread /\ Sound(t)
    BY DEF Step, IInv, TypeOK, GetKeyUnlock, RemoveValueUnlock, Good, Goto
  <2>2. Next /\ mutex = t
    BY <2>1 DEF Next, Sound, InSection
  <2>3. QED
    BY <2>1, <2>2, NextIInv, ContentIsTold, PTL
<1>2. Content = Range(entries) /\ Content' = Range(entries)
  BY <1>1 DEF Told
<1>3. Before(entries, Content)' = Before(entries, Content)
  BY <1>1, <1>2 DEF Before
<1>4. Contract!Become(t, "return", "idle", {}, {})
  <2>1. /\ PhaseOf(t) = "return" /\ PhaseOf(t)' = "idle"
        /\ TakenBy(t)' = {} /\ FoundBy(t)' = {}
    BY <1>1 DEF PhaseOf, TakenBy, FoundBy, InSection
  <2>2. QED
    BY <1>1, <2>1, ContractMovesAlone
<1>5. Contract!Return(t)
  BY <1>2, <1>3, <1>4 DEF Contract!Return
<1>6. QED
  BY <1>1, <1>5 DEF Contract!Next

\* The clock is everybody's.
LEMMA ClockImplements ==
  ASSUME Tick \/ StepBack
  PROVE  Contract!Next
<1>1. Contract!Clock
  BY DEF Contract!Clock, Tick, StepBack, Content, PhaseOf, TakenBy, FoundBy
<1>2. QED
  BY <1>1 DEF Contract!Next

\* LRUTimedCache implements LRUTimedContract: what threads that share the cache see is
\* what they would see of a cache whose getKey and remove(key, value) are atomic.
THEOREM Implements == Spec => ImplementsContract
<1>1. Init => Contract!Init
  <2> SUFFICES ASSUME Init PROVE Contract!Init
    OBVIOUS
  <2>1. entries = <<>> /\ Range(entries) = {}
    BY DEF Init, Range
  <2>2. Content = {} /\ Before(entries, Content) = {}
    BY <2>1 DEF Content, Before
  <2>3. \A t \in Thread : PhaseOf(t) = "idle" /\ TakenBy(t) = {} /\ FoundBy(t) = {}
    BY DEF Init, PhaseOf, TakenBy, FoundBy, InSection
  <2>4. now = 0
    BY DEF Init
  <2> HIDE DEF PhaseOf, TakenBy, FoundBy, Content
  <2>5. QED
    BY <2>2, <2>3, <2>4 DEF Contract!Init
<1>2. CInv /\ [Next]_vars => [Contract!Next]_(Contract!vars)
  <2> SUFFICES ASSUME CInv, [Next]_vars PROVE Contract!Next \/ UNCHANGED Contract!vars
    OBVIOUS
  <2>1. IInv
    BY DEF CInv
  <2>2. CASE UNCHANGED vars
    BY <2>2 DEF vars, Contract!vars, Content, PhaseOf, TakenBy, FoundBy
  <2>3. CASE Tick \/ StepBack
    BY <2>3, ClockImplements
  <2>4. ASSUME NEW t \in Thread, Call(t) PROVE Contract!Next \/ UNCHANGED Contract!vars
    <3>1. CASE \E k \in Key : GetLookup(t, k) \/ PopTake(t, k)
      BY <2>1, <3>1, TakingImplements
    <3>2. CASE (\E k \in Key : RemoveKey(t, k)) \/ Clear(t)
      BY <2>1, <3>2, EmptyingImplements
    <3>3. CASE \E k \in Key, v \in Value : PutStamp(t, k, v)
      BY <2>1, <3>3, StampImplements
    <3>4. CASE \E k \in Key, v \in Value : RemoveValueLock(t, k, v)
      BY <2>1, <3>4, RemovingImplements
    <3>5. CASE \E v \in Value : GetKeyLock(t, v)
      BY <2>1, <3>5, WalkingImplements
    <3>6. QED
      BY <2>4, <3>1, <3>2, <3>3, <3>4, <3>5 DEF Call
  <2>5. ASSUME NEW t \in Thread, Step(t) PROVE Contract!Next \/ UNCHANGED Contract!vars
    <3>1. CASE PutInsert(t)
      BY <2>1, <3>1, InsertImplements
    <3>2. CASE GetServe(t) \/ GetRefuse(t) \/ PopServe(t) \/ PopRefuse(t) \/ Answer(t)
      BY <2>1, <3>2, JudgingImplements
    <3>3. CASE GetExpunge(t)
      BY <2>1, <3>3, ExpungeImplements DEF CInv
    <3>4. CASE GetKeyStep(t)
      BY <2>1, <3>4, WalkingImplements
    <3>5. CASE GetKeyFound(t) \/ GetKeyEnd(t)
      BY <3>5, AnsweringImplements
    <3>6. CASE GetKeySweep(t) \/ RemoveValueStep(t)
      BY <2>1, <3>6, SweepingImplements
    <3>7. CASE GetKeyUnlock(t) \/ RemoveValueUnlock(t)
      BY <2>1, <3>7, UnlockingImplements
    <3>8. QED
      BY <2>5, <3>1, <3>2, <3>3, <3>4, <3>5, <3>6, <3>7 DEF Step
  <2>6. QED
    BY <2>2, <2>3, <2>4, <2>5 DEF Next
<1>3. QED
  BY <1>1, <1>2, AlwaysCInv, PTL DEF Spec, ImplementsContract, Contract!Spec

(***************************************************************************)
(* Every call comes to its end.                                            *)
(***************************************************************************)

\* What StepsLeft says, place by place.
Measured ==
  \A t \in Thread :
     /\ pc[t] = "idle" => StepsLeft(t) = 0
     /\ pc[t] \in {"put", "expunge", "answer"} => StepsLeft(t) = 1
     /\ pc[t] \in {"get", "pop"} => StepsLeft(t) = 2
     /\ pc[t] \in {"sweep", "remove"} => StepsLeft(t) = Cardinality(held[t]) + 1
     /\ pc[t] = "scan" =>
          StepsLeft(t) = Cardinality(held[t]) + 2 * (Len(entries) + 1 - scan.pos) + 2

\* It says so.
LEMMA StepsAreMeasured == Measured
BY DEF Measured, StepsLeft

\* What a thread has collected can be counted.
LEMMA CollectedIsFinite ==
  ASSUME IInv, NEW t \in Thread, pc[t] \in InSection
  PROVE  IsFiniteSet(held[t]) /\ Cardinality(held[t]) \in Nat
<1>1. held[t] \subseteq Range(entries) /\ entries \in Seq(Entry) /\ IsInjective(entries)
  BY DEF IInv, TypeOK, WellFormed, Good, Sound
<1>2. IsFiniteSet(held[t])
  BY <1>1, RangeSize, FS_Subset
<1>3. QED
  BY <1>2, FS_CardinalityType

\* Each step of a call that has begun leaves fewer.
LEMMA StepProgresses ==
  ASSUME IInv, NEW t \in Thread, Step(t)
  PROVE  StepsLeft(t)' < StepsLeft(t)
<1> USE DEF Place
<1> DEFINE n == Cardinality(held[t])
<1>1. /\ IInv /\ Measured /\ Measured'
      /\ pc \in [Thread -> Place] /\ held \in [Thread -> SUBSET Entry]
      /\ scan \in [value : SUBSET Value, pos : Nat \ {0}, found : SUBSET Key]
      /\ Len(entries) \in Nat
      /\ pc[t] \in InSection => IsFiniteSet(held[t]) /\ n \in Nat
      /\ pc[t] = "scan" => scan.pos <= Len(entries) + 1
  <2>1. Measured /\ Measured'
    BY StepsAreMeasured, PTL
  <2>2. QED
    BY <2>1, CollectedIsFinite, LenProperties DEF IInv, TypeOK, Good, Sound
<1>2. CASE PutInsert(t) \/ GetServe(t) \/ GetRefuse(t) \/ GetExpunge(t) \/ PopServe(t)
           \/ PopRefuse(t) \/ Answer(t)
  <2>1. \/ pc[t] \in {"put", "expunge", "pop", "answer"} /\ pc'[t] = "idle"
        \/ pc[t] \in {"get", "pop"} /\ pc'[t] \in {"expunge", "answer"}
    BY <1>1, <1>2 DEF PutInsert, GetServe, GetRefuse, GetExpunge, PopServe, PopRefuse, Answer,
                      Goto
  <2>2. QED
    BY <1>1, <2>1 DEF Measured
<1>3. CASE GetKeyStep(t)
  <2> DEFINE m == Cardinality(held'[t])
             left == Len(entries) + 1 - scan.pos
  <2>1. /\ pc[t] = "scan" /\ pc'[t] = "scan" /\ entries' = entries
        /\ scan.pos <= Len(entries) /\ scan'.pos = scan.pos + 1
        /\ \/ held'[t] = held[t]
           \/ held'[t] = held[t] \cup {entries[scan.pos]}
    BY <1>1, <1>3 DEF GetKeyStep, Hold
  <2>2. IsFiniteSet(held[t]) /\ n \in Nat
    BY <1>1, <2>1 DEF InSection
  <2>3. m = n \/ m = n + 1
    BY <2>1, <2>2, FS_AddElement
  <2>4. StepsLeft(t) = n + 2 * left + 2 /\ StepsLeft(t)' = m + 2 * (left - 1) + 2
    <3>1. StepsLeft(t) = n + 2 * (Len(entries) + 1 - scan.pos) + 2
      BY <1>1, <2>1 DEF Measured
    <3>2. StepsLeft(t)' = m + 2 * (Len(entries) + 1 - (scan.pos + 1)) + 2
      BY <1>1, <2>1 DEF Measured
    <3>3. Len(entries) + 1 - (scan.pos + 1) = left - 1
      BY <1>1
    <3>4. QED
      BY <3>1, <3>2, <3>3
  <2>5. left \in Int
    BY <1>1
  <2> HIDE DEF m, n, left
  <2>6. QED
    BY <2>2, <2>3, <2>4, <2>5
<1>4. CASE GetKeyFound(t) \/ GetKeyEnd(t)
  <2>1. pc[t] = "scan" /\ pc'[t] = "sweep" /\ held' = held
    BY <1>1, <1>4 DEF GetKeyFound, GetKeyEnd, Goto
  <2>2. n \in Nat
    BY <1>1, <2>1 DEF InSection
  <2>3. /\ StepsLeft(t) = n + 2 * (Len(entries) + 1 - scan.pos) + 2
        /\ StepsLeft(t)' = n + 1
    BY <1>1, <2>1 DEF Measured
  <2>4. Len(entries) + 1 - scan.pos \in Nat
    BY <1>1, <2>1
  <2> HIDE DEF n
  <2>5. QED
    BY <2>2, <2>3, <2>4
<1>5. CASE GetKeySweep(t) \/ RemoveValueStep(t)
  <2>1. pc[t] \in {"sweep", "remove"} /\ pc' = pc
    BY <1>5 DEF GetKeySweep, RemoveValueStep
  <2>2. PICK e \in held[t] : held'[t] = held[t] \ {e}
    BY <1>1, <1>5 DEF GetKeySweep, RemoveValueStep, Hold
  <2>3. IsFiniteSet(held[t]) /\ n \in Nat
    BY <1>1, <2>1 DEF InSection
  <2>4. Cardinality(held'[t]) = n - 1
    BY <2>2, <2>3, FS_RemoveElement
  <2>5. StepsLeft(t) = n + 1 /\ StepsLeft(t)' = n - 1 + 1
    BY <1>1, <2>1, <2>4 DEF Measured
  <2> HIDE DEF n
  <2>6. QED
    BY <2>3, <2>5
<1>6. CASE GetKeyUnlock(t) \/ RemoveValueUnlock(t)
  <2>1. pc[t] \in {"sweep", "remove"} /\ pc'[t] = "idle"
    BY <1>1, <1>6 DEF GetKeyUnlock, RemoveValueUnlock, Goto
  <2>2. StepsLeft(t) = n + 1 /\ StepsLeft(t)' = 0 /\ n \in Nat
    BY <1>1, <2>1 DEF Measured, InSection
  <2> HIDE DEF n
  <2>3. QED
    BY <2>2
<1>7. QED
  BY <1>2, <1>3, <1>4, <1>5, <1>6 DEF Step

\* A call of any thread ends after a number of its own steps that is known from the
\* beginning of its walk or removal: these leave fewer, and what the others do leaves as
\* many.
THEOREM Progress == Spec => CallsProgress
<1>1. ASSUME IInv, Next, NEW t \in Thread PROVE MakesProgress(t)
  <2>1. CASE Step(t)
    BY <1>1, <2>1, StepProgresses DEF MakesProgress
  <2>2. CASE Call(t)
    <3>1. pc[t] = "idle"
      BY <2>2 DEF Call, GetLookup, PopTake, RemoveKey, PutStamp, RemoveValueLock,
                  GetKeyLock, Clear, Goto
    <3>2. QED
      BY <3>1 DEF MakesProgress
  <2>3. CASE Tick \/ StepBack
    <3>1. UNCHANGED <<entries, pc, held, scan>>
      BY <2>3 DEF Tick, StepBack
    <3>2. QED
      BY <3>1 DEF MakesProgress, StepsLeft
  <2>4. ASSUME NEW u \in Thread \ {t}, Call(u) \/ Step(u) PROVE MakesProgress(t)
    <3>1. pc'[t] = pc[t] /\ held'[t] = held[t]
      BY <1>1, <2>4, ThreadsMoveAlone DEF Only, IInv
    <3>2. pc[t] = "scan" => UNCHANGED <<entries, scan>>
      <4>1. pc[t] = "scan" => mutex = t
        BY <1>1 DEF IInv, Good, Sound, InSection
      <4>2. mutex = t => UNCHANGED <<entries, scan>>
        BY <1>1, <2>4, OnlyTheOwnerChanges, TimedCacheAssumption
      <4>3. QED
        BY <4>1, <4>2
    <3>3. StepsLeft(t)' = StepsLeft(t)
      BY <3>1, <3>2 DEF StepsLeft
    <3>4. QED
      BY <3>1, <3>3 DEF MakesProgress
  <2>5. QED
    BY <1>1, <2>1, <2>2, <2>3, <2>4 DEF Next
<1>2. IInv /\ [Next]_vars => [\A t \in Thread : MakesProgress(t)]_vars
  BY <1>1
<1>3. QED
  BY <1>2, AlwaysIInv, PTL DEF Spec, CallsProgress
=============================================================================
