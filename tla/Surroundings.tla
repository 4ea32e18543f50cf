----------------------------- MODULE Surroundings -----------------------------
(***************************************************************************)
(* A process that asks its surroundings: the environment for its           *)
(* directories, the text of a property or a variable for a number or a     *)
(* boolean, and the clock for the date and time.  The calls of             *)
(* OpenShiftUtil and Conversions read one thing and answer: they are       *)
(* operators, and here are the states they are called in.                  *)
(* DateUtils.getCurrentDateTime reads the clock and the time zone twice:   *)
(* it is two actions, and the clock goes on between them.                  *)
(***************************************************************************)
EXTENDS OpenShiftUtil, DateUtils, Conversions

CONSTANTS Variable,    \* the texts of OPENSHIFT_REPO_DIR considered
          File,        \* the paths asked for
          Text,        \* the texts converted, without Missing
          MaxInstant,  \* bound: the clock stays within 0 .. MaxInstant
          Offset       \* the offsets of the time zones

ASSUME SurroundingsAssumption ==
  /\ Variable \subseteq Seq(Name \cup {FILE_SEPARATOR, Space})
  /\ File \subseteq Seq(Name \cup {FILE_SEPARATOR, Space})
  /\ \A x \in Text : x \in Written
  /\ Missing \notin Text
  /\ MaxInstant \in Nat
  /\ Offset \subseteq Int

VARIABLES repo,      \* OPENSHIFT_REPO_DIR
          text,      \* the text to convert
          now,       \* the clock, an instant
          offset,    \* the time zone's offset at that instant
          date,      \* the date that a getCurrentDateTime has read
          dateTime   \* the answer of the last one, until something moves

readings == <<repo, text, now, offset, date, dateTime>>

SurroundingsInit ==
  /\ repo = {} /\ text = Missing
  /\ now = 0 /\ offset \in Offset
  /\ date = {} /\ dateTime = {}

\* setenv, before any call of this process that reads it.
SetEnvironment ==
  /\ repo' \in {{}} \cup {{p} : p \in Variable}
  /\ dateTime' = {}
  /\ UNCHANGED <<text, now, offset, date>>

SetText ==
  /\ text' \in Text \cup {Missing}
  /\ dateTime' = {}
  /\ UNCHANGED <<repo, now, offset, date>>

\* The clock advances, or is set; the zone's offset changes with it, or the default
\* zone is changed.
Tick ==
  /\ now' \in {now - 1, now + 1} \cap 0 .. MaxInstant
  /\ dateTime' = {}
  /\ UNCHANGED <<repo, text, offset, date>>

ChangeZone ==
  /\ offset' \in Offset
  /\ dateTime' = {}
  /\ UNCHANGED <<repo, text, now, date>>

\* getCurrentDateTime reads the date, then the time.
ReadDate ==
  /\ date = {}
  /\ date' = {GetCurrentDate(now, offset)}
  /\ dateTime' = {}
  /\ UNCHANGED <<repo, text, now, offset>>

ReadTime ==
  /\ date # {}
  /\ date' = {}
  /\ dateTime' = {[date |-> d, time |-> GetCurrentTime(now, offset)] : d \in date}
  /\ UNCHANGED <<repo, text, now, offset>>

SurroundingsNext == SetEnvironment \/ SetText \/ Tick \/ ChangeZone \/ ReadDate \/ ReadTime

SurroundingsSpec == SurroundingsInit /\ [][SurroundingsNext]_readings

-----------------------------------------------------------------------------

\* What is read is of its types: the parts of a time are those of a day and an hour,
\* whatever the offset, and the parts of the zone are not negative.
ReadingsTyped ==
  /\ now \in 0 .. MaxInstant /\ offset \in Offset
  /\ date \subseteq Int
  /\ \A dt \in dateTime :
       /\ dt.date \in Int
       /\ dt.time.hour \in 0 .. HoursPerDay - 1
       /\ dt.time.minute \in 0 .. MinutesPerHour - 1
       /\ dt.time.tz.hour \in Nat /\ dt.time.tz.minute \in 0 .. MinutesPerHour - 1

\* A DateTime denotes the instant at which its time was read, in every zone, east or
\* west of UTC and by any part of an hour, if its date was read on the same local day.
\* If midnight has passed between the two readings, or the clock or the zone was set
\* back over it, the DateTime is wrong by the whole days that passed, and by no less.
DateTimeIsRight ==
  \A dt \in dateTime :
     Denoted(dt.date, dt.time) - now = (dt.date - Day(now, offset)) * MinutesPerDay

\* In a process for which C++ sees a container, Java sees it too; neither throws; and
\* they name the same directories, the configuration directory being the one in the
\* repository however its name ends, and the same file for any path that a property
\* holds, the path itself only if it is absolute.
SidesFindTheSame ==
  InOpenShiftContainer(repo) =>
    /\ JavaInOpenShiftContainer(repo)
    /\ GetRepoDir(repo) = JavaGetRepoDir(repo) /\ GetRepoDir(repo).is = "path"
    /\ GetConfigurationDir(repo) = JavaGetConfigurationDir(repo)
    /\ \A d \in repo :
         /\ Places(GetConfigurationDir(repo)) = Path(Place(Under(d, <<Config>>)))
         /\ \A f \in File :
              /\ GetPath(repo, f) = GetRepoPath(repo, f)
              /\ GetPath(repo, f) = Path(IF StartsWithSeparator(f) THEN f ELSE Under(d, f))

\* Of a text without blanks around it: an integer that C++ makes of it is the same to
\* Java, which gives the default wherever C++ throws; a finite number that C++ makes of
\* it is the same to Java; what is not finite to C++ is the same or the default; and
\* where C++ throws, Java gives the default, or infinity for a number that is too large,
\* unless the spelling is one that only Java reads.  "true" and "false" are the same
\* boolean.  And the getters agree with one another: a narrower one never answers with
\* part of a number, nor a float with another one than the double, unless with infinity.
Same(java, cpp, dflt) == java = IF cpp.is = "value" THEN cpp ELSE Gives(dflt)

SameReal(java, cpp, dflt) ==
  /\ \A n \in cpp.of : java = cpp \/ (n \in {NaN, Infinity} /\ java = Gives(dflt))
  /\ cpp.is # "value" => text.spelled = "java" \/ java \in {Gives(dflt), Gives(Infinity)}

SidesReadTheSame ==
  text = Missing \/ ~text.blanks =>
    /\ \A d \in Width(ShortMax) :
         /\ Same(GetInteger(text, d), ConvertToInt(text, d), d)
         /\ Same(GetLong(text, d), ConvertToLong(text, d), d)
         /\ SameReal(GetDouble(text, d), ConvertToDouble(text, d), d)
         /\ SameReal(GetFloat(text, d), ConvertToFloat(text, d), d)
         /\ GetShort(text, d) \in {GetLong(text, d), Gives(d)}
         /\ GetInteger(text, d) \in {GetLong(text, d), Gives(d)}
         /\ GetLong(text, d) \in {GetDouble(text, d), Gives(d)}
         /\ GetFloat(text, d) \in {GetDouble(text, d), Gives(Infinity)}
    /\ \A d \in BOOLEAN :
         text = Missing \/ text.says \in {True, False} =>
            GetBoolean(text, d) = ConvertToBoolean(text, d)
=============================================================================
