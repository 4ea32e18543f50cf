-------------------------- MODULE EzPropertiesHistory --------------------------
(***************************************************************************)
(* EzProperties with history variables: the calls that nobody has          *)
(* interfered with, and what a call could know of the two objects.         *)
(***************************************************************************)
EXTENDS EzProperties

VARIABLES alone,    \* history: the threads in a call during which nobody else has
                    \* changed the object's own table
          kept,     \* history: kept[t]: the names the object has had, of its own or by
                    \* default, ever since t's call began or itself put them there
          checked   \* history: checked[t]: the names that what t merges had when it was
                    \* compared

hvars == <<own, defaults, pc, job, outcome, alone, kept, checked>>

\* The names that getProperty finds a value for.
Found(table, dflt) == {k \in Key : Effective(table, dflt)[k] # {}}

FoundIn(t) == {k \in Key : \E props \in job[t].toMerge : k \in Found(props.own, props.defaults)}

OwnIn(t) == {k \in Key : \E props \in job[t].toMerge : props.own[k] # {}}

\* Every step of a call changes what the call has in local variables.
Disturbs(t) == own' # own /\ job'[t] = job[t]

Had(t) == CASE pc[t] = "idle"                     -> Found(own, defaults)
            [] pc[t] = "put" /\ pc'[t] = "load" -> kept[t] \cup OwnIn(t)
            [] OTHER                             -> kept[t]

Record ==
  /\ alone' = {t \in Thread : /\ pc'[t] # "idle"
                              /\ pc[t] = "idle" \/ t \in alone
                              /\ ~Disturbs(t)}
  /\ kept' = [t \in Thread |-> IF pc'[t] = "idle" THEN {}
                               ELSE Had(t) \cap Found(own', defaults')]
  /\ checked' = [t \in Thread |->
                   CASE pc[t] = "compare" /\ pc'[t] = "put" -> FoundIn(t)
                     [] pc[t] = "put" /\ pc'[t] = "put"     -> checked[t]
                     [] OTHER                               -> {}]

HInit == /\ Init
         /\ alone = {}
         /\ kept = [t \in Thread |-> {}]
         /\ checked = [t \in Thread |-> {}]
HNext == Next /\ Record
HSpec == HInit /\ [][HNext]_hvars

-----------------------------------------------------------------------------

\* The copy of a merge that must not override, alone or in a load of many files, whether
\* it succeeds or fails, changes no key that the object has had, of its own or by default,
\* since the call began or put it there from an earlier file, whatever others did before,
\* within and after the two readings of the check and however the defaults changed.  Only
\* a key that somebody adds to what is merged after it was compared is copied unseen.
\* (A key that another thread sets after the first reading is not one of these: the copy
\* may replace it, because the readings and the copy are three steps.)
Gained(t) == IF Shared(t) THEN OwnIn(t) \ checked[t] ELSE {}

KeepsKnown(t) ==
  pc[t] = "put" /\ pc'[t] # "put" /\ ~job[t].override =>
     \A k \in kept[t] \ Gained(t) :
        Effective(own', defaults')[k] = Effective(own, defaults)[k]

KeepsWhatItChecked == [][\A t \in Thread : KeepsKnown(t)]_hvars

\* A load that returns normally and must not override has put all that was in all
\* its files into the object, in whatever order it met the files, unless another
\* thread has changed the object meanwhile: a key that two files give is reported,
\* not lost.
LoadsAll(t) ==
  /\ pc[t] = "load" /\ pc'[t] = "idle" /\ outcome'[t] = Ok
  /\ ~job[t].override /\ t \in alone
  => \A f \in DOMAIN job[t].files : \A k \in Names(job[t].files[f]) :
        own[k] = job[t].files[f][k]

LoadIsComplete == [][\A t \in Thread : LoadsAll(t)]_hvars
=============================================================================
