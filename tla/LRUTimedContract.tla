--------------------------- MODULE LRUTimedContract ---------------------------
(***************************************************************************)
(* What a timed LRU cache promises the threads that share it, with no      *)
(* mutex, no list and no iterator: a set of stamped entries, and which of  *)
(* them were last used before which.                                       *)
(*                                                                         *)
(* getKey and remove(key, value) take effect at one moment, whatever they  *)
(* do before and after it.  put takes effect at one moment that comes      *)
(* after the one in which its value is stamped.  get and pop do not: they  *)
(* take an entry at one moment and judge it at a later one: they return it *)
(* if it has not expired, and a get that finds it expired removes it at a  *)
(* third.                                                                  *)
(***************************************************************************)
EXTENDS Integers, FiniteSets

CONSTANTS Thread, Key, Value,
          Capacity,          \* 0 for no limit
          Expiration,        \* in seconds, 0 for none
          TicksPerSecond,
          MaxTick,           \* bound: the clock stops there
          ClockMayStepBack

VARIABLES content,   \* the entries in the cache
          older,     \* pairs of entries: the first was last used before the second
          now,       \* the clock, in ticks
          phase,     \* phase[t]: how far t's call is
          taken,     \* taken[t]: the entry t's call has in its hands, or returns
          found      \* found[t]: the key t's getKey returns

vars == <<content, older, now, phase, taken, found>>

Entry == Key \X [value : Value, timestamp : Nat]

Expired(e) == Expiration # 0 /\ now >= (e[2].timestamp + Expiration) * TicksPerSecond

HasRoom == Capacity = 0 \/ Cardinality(content) < Capacity

\* The least recently used entry of S: no other one was last used before.
Oldest(S) == {e \in S : \A d \in S : <<d, e>> \notin older}

\* Only the entries of S stay; and e is used, after all those of S.
Keep(S) == content' = S /\ older' = older \cap (S \X S)

Use(e, S) == content' = S \cup {e} /\ older' = (older \cap (S \X S)) \cup (S \X {e})

Become(t, from, to, entry, key) ==
  /\ phase[t] = from
  /\ phase' = [phase EXCEPT ![t] = to]
  /\ taken' = [taken EXCEPT ![t] = entry]
  /\ found' = [found EXCEPT ![t] = key]

Init == /\ content = {} /\ older = {}
        /\ now = 0
        /\ phase = [t \in Thread |-> "idle"]
        /\ taken = [t \in Thread |-> {}]
        /\ found = [t \in Thread |-> {}]

Stamp(t, k, v) ==
  /\ Become(t, "idle", "put",
            {<<k, [value |-> v, timestamp |-> now \div TicksPerSecond]>>}, {})
  /\ UNCHANGED <<content, older>>

\* put drops an entry only when a new one finds no room, and then the least recently
\* used one.
Insert(t) ==
  /\ Become(t, "put", "idle", {}, {})
  /\ \E e \in taken[t] :
       \/ /\ e \in content \/ HasRoom
          /\ Use(e, content \ {e})
       \/ /\ e \notin content /\ ~HasRoom
          /\ \E d \in Oldest(content) : Use(e, content \ {d})

\* get uses the key's least recently used entry, then returns it or refuses it.
Look(t, k) ==
  \E e \in Oldest({c \in content : c[1] = k}) :
     Become(t, "idle", "get", {e}, {}) /\ Use(e, content \ {e})

Serve(t) ==
  /\ \E from \in {"get", "pop"} : Become(t, from, "return", taken[t], {})
  /\ \A e \in taken[t] : ~Expired(e)
  /\ UNCHANGED <<content, older>>

Refuse(t) ==
  /\ Become(t, "get", "expunge", taken[t], {})
  /\ \A e \in taken[t] : Expired(e)
  /\ UNCHANGED <<content, older>>

Expunge(t) == Become(t, "expunge", "idle", {}, {}) /\ Keep(content \ taken[t])

Pop(t, k) ==
  \E e \in Oldest({c \in content : c[1] = k}) :
     Become(t, "idle", "pop", {e}, {}) /\ Keep(content \ {e})

PopRefuse(t) ==
  /\ Become(t, "pop", "idle", {}, {})
  /\ \A e \in taken[t] : Expired(e)
  /\ UNCHANGED <<content, older>>

\* getKey finds the least recently used entry with the value that has not expired, and
\* expunges those it passes over, which have.  They need not have expired at this very
\* moment if the clock may be set back.
GetKey(t, v) ==
  \E gone \in SUBSET {c \in content : c[2].value = v} :
     LET rest == {c \in content \ gone : c[2].value = v}
     IN  /\ ~ClockMayStepBack => \A c \in gone : Expired(c)
         /\ \/ rest = {} /\ Become(t, "idle", "return", {}, {})
            \/ \E e \in Oldest(rest) :
                 /\ ~Expired(e) /\ gone \X {e} \subseteq older
                 /\ Become(t, "idle", "return", {}, {e[1]})
         /\ Keep(content \ gone)

RemoveValue(t, k, v) ==
  /\ Become(t, "idle", "return", {}, {})
  /\ Keep({c \in content : ~(c[1] = k /\ c[2].value = v)})

Return(t) == Become(t, "return", "idle", {}, {}) /\ UNCHANGED <<content, older>>

RemoveKey(t, k) ==
  /\ Become(t, "idle", "idle", {}, {})
  /\ Keep({c \in content : c[1] # k})

Clear(t) == Become(t, "idle", "idle", {}, {}) /\ Keep({})

\* The clock advances, and it may be set back.
Clock ==
  /\ \/ now < MaxTick /\ now' = now + 1
     \/ ClockMayStepBack /\ now > 0 /\ now' = now - 1
  /\ UNCHANGED <<content, older, phase, taken, found>>

Next ==
  \/ \E t \in Thread :
       /\ \/ \E k \in Key : Look(t, k) \/ Pop(t, k) \/ RemoveKey(t, k)
          \/ \E k \in Key, v \in Value : Stamp(t, k, v) \/ RemoveValue(t, k, v)
          \/ \E v \in Value : GetKey(t, v)
          \/ Insert(t) \/ Serve(t) \/ Refuse(t) \/ Expunge(t) \/ PopRefuse(t)
          \/ Return(t) \/ Clear(t)
       /\ UNCHANGED now
  \/ Clock

Spec == Init /\ [][Next]_vars
=============================================================================
