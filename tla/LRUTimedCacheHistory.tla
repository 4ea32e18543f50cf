------------------------- MODULE LRUTimedCacheHistory -------------------------
(***************************************************************************)
(* LRUTimedCache with history variables: when each entry that the cache or *)
(* a call still has was put, and which of them have been expired.  The two *)
(* are not one thing: the clock may be set back.                           *)
(***************************************************************************)
EXTENDS LRUTimedCache

VARIABLES births,   \* history: pairs <<entry, tick>>
          lapsed    \* history: the entries that have been expired at some moment

hvars == <<entries, mutex, now, pc, held, scan, births, lapsed>>

\* The entry a put has stamped in this step.
Stamped == UNION {held'[t] : t \in {u \in Thread : pc[u] = "idle" /\ pc'[u] = "put"}}

\* The entries in the container and in the threads' hands.
Around == Range(entries) \cup UNION {held[t] : t \in Thread}

Record == /\ births' = {b \in births \cup (Stamped \X {now}) : b[1] \in Around'}
          /\ lapsed' = {e \in Around' : e \in lapsed \/ Expired(e[2])'}

HInit == Init /\ births = {} /\ lapsed = {}
HNext == Next /\ Record
HSpec == HInit /\ [][HNext]_hvars

\* A thread inside a call is scheduled until the call returns.  Nobody has to
\* call, the clock need not advance, and the mutex may pass a waiter over for ever.
HFairSpec == HSpec /\ \A t \in Thread : WF_hvars(Step(t) /\ Record)

-----------------------------------------------------------------------------

\* The entry that a get, a pop or a walk of t serves in this step, and the one that it
\* refuses; and how many ticks ago an entry was put.
Served(t) ==
  CASE pc[t] \in {"get", "pop"} /\ pc'[t] = "answer"            -> held'[t]
    [] pc[t] = "scan" /\ pc'[t] = "sweep" /\ scan'.found # {} -> {entries[scan.pos]}
    [] OTHER                                                  -> {}

Refused(t) ==
  CASE pc[t] = "get" /\ pc'[t] = "expunge" -> held[t]
    [] pc[t] = "pop" /\ pc'[t] = "idle"    -> held[t]
    [] pc[t] = "scan" /\ pc'[t] = "scan"   -> held'[t] \ held[t]
    [] OTHER                               -> {}

Ages(e) == {now - b[2] : b \in {c \in births : c[1] = e}}

\* Nothing is served Expiration seconds or more after it was put, and nothing is refused
\* a second or more before that, although stamps are in whole seconds, rounded down, and
\* the clock is not, although get and pop judge an entry later than they took it, when
\* others may have removed it and put an equal pair, and whether the clock has been set
\* back or not.
Timely(t) ==
  /\ \A e \in Served(t) : /\ Ages(e) # {}
                          /\ \A age \in Ages(e) : age < Expiration * TicksPerSecond
  /\ \A e \in Refused(t) : /\ Ages(e) # {}
                           /\ \A age \in Ages(e) : age > (Expiration - 1) * TicksPerSecond

ExpirationWindow == [][Expiration # 0 => \A t \in Thread : Timely(t)]_hvars

\* Where nobody asked for it, no live entry leaves the container: what get and
\* getKey expunge has been expired, although get decides it without the mutex and
\* other threads may have removed the entry, put an equal pair, or set the clock back
\* in between; and put drops at most the entry at the list's front, when the cache is
\* full.
Dropped == Range(entries) \ Range(entries')

Moves(t) == pc'[t] # pc[t] \/ held'[t] # held[t]

KeepsLive(t) ==
  Moves(t) =>
     /\ pc[t] \in {"expunge", "sweep"} => Dropped \subseteq lapsed
     /\ pc[t] = "put" => \A e \in Dropped : /\ e = entries[1]
                                            /\ Capacity # 0 /\ Len(entries) = Capacity
                                            /\ held[t] \cap Range(entries) = {}

LiveEntriesKept == [][\A t \in Thread : KeepsLive(t)]_hvars
=============================================================================
