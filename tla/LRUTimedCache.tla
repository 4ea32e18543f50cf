---------------------------- MODULE LRUTimedCache ----------------------------
(***************************************************************************)
(* LRUTimedCache<K, V>: an LRUCache<K, CacheValue<V>> whose entries carry  *)
(* the second they were put in and expire, used by several threads.        *)
(*                                                                         *)
(* Unlike the methods of LRUCache these are not single critical sections.  *)
(* put stamps its value before it takes the mutex; get and pop judge what  *)
(* they took from the container after they released it, and get takes it   *)
(* again to expunge; getKey and remove(key, value) hold it through many    *)
(* steps, read the clock at each, and call remove, which takes it once     *)
(* more.  Every step between two of these points is an action.             *)
(*                                                                         *)
(* The queries inherited from LRUCache and entrySet and valueSet change    *)
(* nothing, ignore expiration, and are those of LRUCache.                  *)
(***************************************************************************)
EXTENDS LRUList

CONSTANTS Thread,
          NoThread,            \* nobody owns the mutex
          Key, Value,          \* K and V
          Capacity,            \* 0 for no limit
          Expiration,          \* in seconds, 0 for none
          TicksPerSecond,      \* the resolution of the clock
          MaxTick,             \* bound: the clock stops there
          ClockMayStepBack     \* may the wall clock be set back?

ASSUME TimedCacheAssumption ==
  /\ NoThread \notin Thread
  /\ Capacity \in Nat
  /\ Expiration \in Nat
  /\ TicksPerSecond \in Nat \ {0}
  /\ MaxTick \in Nat
  /\ ClockMayStepBack \in BOOLEAN

VARIABLES entries,   \* the container, as its right view
          mutex,     \* the owner of the recursive mutex
          now,       \* the clock, in ticks
          pc,        \* pc[t]: where t is in its call
          held,      \* held[t]: the entries t's call has in local variables
          scan       \* the loop of the getKey that owns the mutex

vars == <<entries, mutex, now, pc, held, scan>>

CacheValue == [value : Value, timestamp : Nat]
Entry == Key \X CacheValue

\* CacheValue(v): the clock in whole seconds, rounded down.
Stamp(v) == [value |-> v, timestamp |-> now \div TicksPerSecond]

Expired(cv) == Expiration # 0 /\ now >= (cv.timestamp + Expiration) * TicksPerSecond

\* The mutex is recursive: its owner may take it again.  A critical section that
\* is one action takes and releases it in that action.
\* Mutants: a mutex that is not recursive, and no mutex.
FreeOnly(t) == mutex = NoThread
Always(t) == TRUE

CanLock(t) == mutex \in {NoThread, t}

\* Mutant: the entry is stamped with the key and value only, so that an equal
\* pair put in another second is taken for it.
EraseAnyStamp(e) ==
  entries' \in Without(entries, {i \in DOMAIN entries :
                 entries[i][1] = e[1] /\ entries[i][2].value = e[2].value})

\* TimedCacheType::remove(key, value) of a stamped entry
Erase(e) == entries' = ErasePair(entries, e[1], e[2])

NoScan == [value |-> {}, pos |-> 1, found |-> {}]

Init == /\ entries = <<>>
        /\ mutex = NoThread
        /\ now = 0
        /\ pc = [t \in Thread |-> "idle"]
        /\ held = [t \in Thread |-> {}]
        /\ scan = NoScan

Goto(t, from, to) == pc[t] = from /\ pc' = [pc EXCEPT ![t] = to]

Hold(t, S) == held' = [held EXCEPT ![t] = S]

(***************************************************************************)
(* put: the value is stamped by the caller's conversion, then inserted.    *)
(***************************************************************************)
PutStamp(t, k, v) ==
  /\ Goto(t, "idle", "put")
  /\ Hold(t, {<<k, Stamp(v)>>})
  /\ UNCHANGED <<entries, mutex, now, scan>>

PutInsert(t) ==
  /\ Goto(t, "put", "idle")
  /\ CanLock(t)
  /\ \E e \in held[t] : entries' = Inserted(entries, Capacity, e[1], e[2])
  /\ Hold(t, {})
  /\ UNCHANGED <<mutex, now, scan>>

(***************************************************************************)
(* get: LRUCache::get, then the clock, then LRUCache::remove if expired.   *)
(***************************************************************************)
GetLookup(t, k) ==
  /\ CanLock(t)
  /\ IF HasKey(entries, k)
     THEN /\ Goto(t, "idle", "get")
          /\ entries' = Relocated(entries, LruPosition(entries, k))
          /\ Hold(t, {entries[LruPosition(entries, k)]})
     ELSE pc[t] = "idle" /\ UNCHANGED <<pc, entries, held>>
  /\ UNCHANGED <<mutex, now, scan>>

GetServe(t) ==
  /\ Goto(t, "get", "answer")
  /\ \A e \in held[t] : ~Expired(e[2])
  /\ UNCHANGED <<entries, mutex, now, held, scan>>

GetRefuse(t) ==
  /\ Goto(t, "get", "expunge")
  /\ \A e \in held[t] : Expired(e[2])
  /\ UNCHANGED <<entries, mutex, now, held, scan>>

GetExpunge(t) ==
  /\ Goto(t, "expunge", "idle")
  /\ CanLock(t)
  /\ \E e \in held[t] : Erase(e)
  /\ Hold(t, {})
  /\ UNCHANGED <<mutex, now, scan>>

(***************************************************************************)
(* pop: LRUCache::pop, then the clock.  The entry is gone either way.      *)
(***************************************************************************)
PopTake(t, k) ==
  /\ CanLock(t)
  /\ IF HasKey(entries, k)
     THEN /\ Goto(t, "idle", "pop")
          /\ entries' = RemoveAt(entries, LruPosition(entries, k))
          /\ Hold(t, {entries[LruPosition(entries, k)]})
     ELSE pc[t] = "idle" /\ UNCHANGED <<pc, entries, held>>
  /\ UNCHANGED <<mutex, now, scan>>

\* Mutant: pop answers with whatever it took.
PopServeAnyway(t) ==
  /\ Goto(t, "pop", "answer")
  /\ UNCHANGED <<entries, mutex, now, held, scan>>

PopServe(t) ==
  /\ Goto(t, "pop", "answer")
  /\ \A e \in held[t] : ~Expired(e[2])
  /\ UNCHANGED <<entries, mutex, now, held, scan>>

PopRefuse(t) ==
  /\ Goto(t, "pop", "idle")
  /\ \A e \in held[t] : Expired(e[2])
  /\ Hold(t, {})
  /\ UNCHANGED <<entries, mutex, now, scan>>

\* get and pop return the value of the entry they serve.
Answer(t) ==
  /\ Goto(t, "answer", "idle")
  /\ Hold(t, {})
  /\ UNCHANGED <<entries, mutex, now, scan>>

(***************************************************************************)
(* getKey (and containsValue, which calls it): a walk over the list under  *)
(* the mutex that stops at the first live entry with the value and keeps   *)
(* the expired ones before it in a set, then the removal of these, each a  *)
(* recursive call.                                                         *)
(***************************************************************************)
GetKeyLock(t, v) ==
  /\ Goto(t, "idle", "scan")
  /\ CanLock(t)
  /\ mutex' = t
  /\ scan' = [NoScan EXCEPT !.value = {v}]
  /\ UNCHANGED <<entries, now, held>>

\* Mutant: the walk forgets an expired entry it has passed.
GetKeyForget(t) ==
  /\ pc[t] = "scan" /\ scan.pos <= Len(entries)
  /\ \/ entries[scan.pos][2].value \notin scan.value
     \/ Expired(entries[scan.pos][2])
  /\ scan' = [scan EXCEPT !.pos = @ + 1]
  /\ UNCHANGED <<entries, mutex, now, pc, held>>

\* Mutant: the iterator is not advanced past an expired entry.
GetKeyStay(t) ==
  /\ pc[t] = "scan" /\ scan.pos <= Len(entries)
  /\ LET e == entries[scan.pos]
     IN  \/ /\ e[2].value \notin scan.value
            /\ scan' = [scan EXCEPT !.pos = @ + 1]
            /\ UNCHANGED held
         \/ /\ e[2].value \in scan.value /\ Expired(e[2])
            /\ Hold(t, held[t] \cup {e})
            /\ UNCHANGED scan
  /\ UNCHANGED <<entries, mutex, now, pc>>

GetKeyStep(t) ==
  /\ pc[t] = "scan" /\ scan.pos <= Len(entries)
  /\ LET e == entries[scan.pos]
     IN  \/ /\ e[2].value \notin scan.value
            /\ UNCHANGED held
         \/ /\ e[2].value \in scan.value /\ Expired(e[2])
            /\ Hold(t, held[t] \cup {e})
  /\ scan' = [scan EXCEPT !.pos = @ + 1]
  /\ UNCHANGED <<entries, mutex, now, pc>>

\* Mutant: the walk returns what it looks for, and not its key.
GetKeyFoundValue(t) ==
  /\ Goto(t, "scan", "sweep")
  /\ scan.pos <= Len(entries)
  /\ LET e == entries[scan.pos]
     IN  /\ e[2].value \in scan.value /\ ~Expired(e[2])
         /\ scan' = [scan EXCEPT !.found = {e[2].value}]
  /\ UNCHANGED <<entries, mutex, now, held>>

GetKeyFound(t) ==
  /\ Goto(t, "scan", "sweep")
  /\ scan.pos <= Len(entries)
  /\ LET e == entries[scan.pos]
     IN  /\ e[2].value \in scan.value /\ ~Expired(e[2])
         /\ scan' = [scan EXCEPT !.found = {e[1]}]
  /\ UNCHANGED <<entries, mutex, now, held>>

GetKeyEnd(t) ==
  /\ Goto(t, "scan", "sweep")
  /\ scan.pos > Len(entries)
  /\ UNCHANGED <<entries, mutex, now, held, scan>>

GetKeySweep(t) ==
  /\ pc[t] = "sweep"
  /\ CanLock(t)
  /\ \E e \in held[t] : Erase(e) /\ Hold(t, held[t] \ {e})
  /\ UNCHANGED <<mutex, now, pc, scan>>

GetKeyUnlock(t) ==
  /\ Goto(t, "sweep", "idle")
  /\ held[t] = {}
  /\ mutex' = NoThread
  /\ scan' = NoScan
  /\ UNCHANGED <<entries, now, held>>

(***************************************************************************)
(* remove(key, value): the key's entries with the value, whatever their    *)
(* stamp, are collected and removed under the mutex by recursive calls.    *)
(***************************************************************************)
RemoveValueLock(t, k, v) ==
  /\ Goto(t, "idle", "remove")
  /\ CanLock(t)
  /\ mutex' = t
  /\ Hold(t, {e \in Range(entries) : e[1] = k /\ e[2].value = v})
  /\ UNCHANGED <<entries, now, scan>>

RemoveValueStep(t) ==
  /\ pc[t] = "remove"
  /\ CanLock(t)
  /\ \E e \in held[t] : Erase(e) /\ Hold(t, held[t] \ {e})
  /\ UNCHANGED <<mutex, now, pc, scan>>

RemoveValueUnlock(t) ==
  /\ Goto(t, "remove", "idle")
  /\ held[t] = {}
  /\ mutex' = NoThread
  /\ UNCHANGED <<entries, now, held, scan>>

\* remove(key)
RemoveKey(t, k) ==
  /\ pc[t] = "idle"
  /\ CanLock(t)
  /\ entries' \in Without(entries, Positions(entries, k))
  /\ UNCHANGED <<mutex, now, pc, held, scan>>

Clear(t) ==
  /\ pc[t] = "idle"
  /\ CanLock(t)
  /\ entries' = <<>>
  /\ UNCHANGED <<mutex, now, pc, held, scan>>

(***************************************************************************)
(* universal_time() is the wall clock: it advances, and it may be set back.*)
(***************************************************************************)
Tick ==
  /\ now < MaxTick
  /\ now' = now + 1
  /\ UNCHANGED <<entries, mutex, pc, held, scan>>

StepBack ==
  /\ ClockMayStepBack
  /\ now > 0
  /\ now' = now - 1
  /\ UNCHANGED <<entries, mutex, pc, held, scan>>

\* A call begins, or is complete in one step.
Call(t) ==
  \/ \E k \in Key : GetLookup(t, k) \/ PopTake(t, k) \/ RemoveKey(t, k)
  \/ \E k \in Key, v \in Value : PutStamp(t, k, v) \/ RemoveValueLock(t, k, v)
  \/ \E v \in Value : GetKeyLock(t, v)
  \/ Clear(t)

\* A call that has begun goes on.
Step(t) ==
  \/ PutInsert(t)
  \/ GetServe(t) \/ GetRefuse(t) \/ GetExpunge(t)
  \/ PopServe(t) \/ PopRefuse(t) \/ Answer(t)
  \/ GetKeyStep(t) \/ GetKeyFound(t) \/ GetKeyEnd(t) \/ GetKeySweep(t) \/ GetKeyUnlock(t)
  \/ RemoveValueStep(t) \/ RemoveValueUnlock(t)

Next == (\E t \in Thread : Call(t) \/ Step(t)) \/ Tick \/ StepBack

Spec == Init /\ [][Next]_vars

-----------------------------------------------------------------------------

\* Every thread is somewhere in a call with the locals that call has there, and the
\* container is a list of pairs of a key and a stamped value.
TypeOK ==
  /\ entries \in Seq(Entry)
  /\ mutex \in Thread \cup {NoThread}
  /\ now \in 0 .. MaxTick
  /\ pc \in [Thread -> {"idle", "put", "get", "expunge", "pop", "answer",
                       "scan", "sweep", "remove"}]
  /\ held \in [Thread -> SUBSET Entry]
  /\ scan \in [value : SUBSET Value, pos : Nat \ {0}, found : SUBSET Key]

\* Whatever the threads do, the container has no entry twice (the removals erase
\* the only copy of an entry) and is never over its capacity.
WellFormed ==
  /\ IsInjective(entries)
  /\ Capacity # 0 => Len(entries) <= Capacity

InSection == {"scan", "sweep", "remove"}

\* A thread that walks over the container or removes what it collected owns the
\* mutex, and nobody has changed the container behind its iterators: what it
\* collected is still there, and a walk has collected every entry with its value
\* that it has passed.
ScanIsSound ==
  \A t \in Thread :
     /\ pc[t] \in InSection <=> mutex = t
     /\ pc[t] \in InSection => held[t] \subseteq Range(entries)
     /\ pc[t] = "scan" =>
          /\ scan.pos <= Len(entries) + 1
          /\ \A i \in 1 .. (scan.pos - 1) :
                entries[i][2].value \in scan.value => entries[i] \in held[t]

\* When getKey(v) returns nothing, no entry with v is left, live or expired; when
\* it returns a key, that key has v.
GetKeyReturn(t) ==
  pc[t] = "sweep" /\ pc'[t] = "idle" =>
     IF scan.found = {}
     THEN \A e \in Range(entries') : e[2].value \notin scan.value
     ELSE \E e \in Range(entries') : e[2].value \in scan.value /\ e[1] \in scan.found

GetKeyAnswers == [][\A t \in Thread : GetKeyReturn(t)]_vars

\* What others can tell of the cache while a thread walks over it or removes what it
\* collected: an entry that will be removed before the mutex is released is gone.
Content == {e \in Range(entries) :
              \A t \in Thread : pc[t] \in {"sweep", "remove"} => e \notin held[t]}

PhaseOf(t) == CASE pc[t] = "scan"                          -> "idle"
                [] pc[t] \in {"sweep", "remove", "answer"} -> "return"
                [] OTHER                                   -> pc[t]

TakenBy(t) == IF pc[t] \in InSection THEN {} ELSE held[t]

FoundBy(t) == IF pc[t] = "sweep" THEN scan.found ELSE {}

Contract == INSTANCE LRUTimedContract WITH
  content <- Content,
  older   <- Before(entries, Content),
  phase   <- [t \in Thread |-> PhaseOf(t)],
  taken   <- [t \in Thread |-> TakenBy(t)],
  found   <- [t \in Thread |-> FoundBy(t)]

\* Threads that share the cache see what LRUTimedContract promises: getKey and
\* remove(key, value) take effect at one moment, although they remove entry after entry
\* and the clock runs while they walk, and every call finds the entries in the order of
\* their last use.
ImplementsContract == Contract!Spec

\* The steps that t's call still needs, at most.
StepsLeft(t) ==
  CASE pc[t] = "idle"                         -> 0
    [] pc[t] \in {"put", "expunge", "answer"} -> 1
    [] pc[t] \in {"get", "pop"}               -> 2
    [] pc[t] \in {"sweep", "remove"}          -> Cardinality(held[t]) + 1
    [] pc[t] = "scan" -> Cardinality(held[t]) + 2 * (Len(entries) + 1 - scan.pos) + 2

MakesProgress(t) ==
  pc[t] # "idle" => \/ StepsLeft(t)' < StepsLeft(t)
                    \/ UNCHANGED <<pc[t], held[t], StepsLeft(t)>>

\* A call ends after a bounded number of its thread's own steps, however many entries it
\* has to walk over and to remove: each of them leaves fewer, and what the other threads
\* and the clock do meanwhile leaves as many.
CallsProgress == [][\A t \in Thread : MakesProgress(t)]_vars

\* A call can be held up for ever only by other threads that keep owning the
\* mutex: the recursive calls of a thread that owns it itself never block it, and
\* a thread that owns it releases it.
CallsReturn ==
  \A t \in Thread : <>[](mutex \in {NoThread, t}) => []<>(pc[t] = "idle")

\* What get's comment promises: the "optional value containing the returned object
\* from the cache if the key exists" (LRUTimedCache.h:155-160).  The code returns
\* none when the key's least recently used entry has expired, although the key has
\* a live one.
LiveKeyServed ==
  [][\A t \in Thread : pc[t] = "get" /\ pc'[t] = "expunge" =>
        \A e \in Range(entries), h \in held[t] : e[1] = h[1] => Expired(e[2])]_vars
=============================================================================
