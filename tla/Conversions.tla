------------------------------ MODULE Conversions ------------------------------
(***************************************************************************)
(* The numbers and booleans that both sides make of a text: in C++         *)
(* StringConversionUtil, over boost::lexical_cast; in Java the getters of  *)
(* EzProperties, over NumberUtils.                                         *)
(*                                                                         *)
(* A text says an integer, a decimal, NaN, infinity or another word, the   *)
(* words in letters of any case, and may have blanks around it.  It is     *)
(* spelled in the plain way that both libraries read, or in one that only  *)
(* lexical_cast does, nan and infinity in other cases and the short inf,   *)
(* or in one that only Java does, 1d, 1f and hexadecimal floats.  Left out *)
(* are what rounding a decimal loses, the sign of infinity, and a plus     *)
(* sign or zeros before an integer.                                        *)
(***************************************************************************)
EXTENDS Integers

CONSTANTS Missing,                    \* no text: an empty optional, or null
          Decimal, NaN, Infinity,     \* what a text may say besides an integer
          Letters,                    \* and what it says when it is no number
          True, False,                \* the words "true" and "false"
          AlsoTrue,                   \* the texts "t", "y" and "yes"
          ShortMax, IntMax, LongMax,  \* the greatest numbers of each width
          FloatHuge, DoubleHuge       \* the numbers that are too large for each width

ASSUME ConversionsAssumption ==
  /\ {True, False} \cup AlsoTrue \subseteq Letters
  /\ True # False /\ False \notin AlsoTrue
  /\ ShortMax \in Nat /\ IntMax \in Nat /\ LongMax \in Nat
  /\ ShortMax <= IntMax /\ IntMax <= LongMax
  /\ \A w \in Letters \cup Decimal \cup {NaN, Infinity} : w \notin Int
  /\ Letters \cap Decimal = {} /\ {NaN, Infinity} \cap (Letters \cup Decimal) = {}
  /\ DoubleHuge \subseteq FloatHuge /\ FloatHuge \subseteq Int \cup Decimal
  /\ \A n \in FloatHuge \cap Int : n < -LongMax - 1 \/ n > LongMax

Number == Int \cup Decimal

\* The spellings there are.
Written ==
  [says : Number \cup {NaN, Infinity} \cup Letters, spelled : {"plain"}, blanks : BOOLEAN]
    \cup [says : {NaN, Infinity}, spelled : {"lexical"}, blanks : BOOLEAN]
    \cup [says : Number, spelled : {"java"}, blanks : BOOLEAN]

Plain(x) == x.spelled = "plain" /\ ~x.blanks

Width(max) == (-max - 1) .. max

Gives(x)      == [is |-> "value", of |-> {x}]
Refused(what) == [is |-> what, of |-> {}]

(***************************************************************************)
(* C++.  The default is for a text that is missing.  One that says         *)
(* anything else, or says it between blanks, makes lexical_cast throw.     *)
(***************************************************************************)
\* Mutant: a number that is too wide is cut.
CastCut(x, max) ==
  IF x.says \in Int /\ Plain(x)
  THEN Gives(((x.says + max + 1) % (2 * max + 2)) - max - 1) ELSE Refused("bad_lexical_cast")
Cast(x, max) ==
  IF x.says \in Width(max) /\ Plain(x) THEN Gives(x.says) ELSE Refused("bad_lexical_cast")

ConvertToInt(x, dflt)  == IF x = Missing THEN Gives(dflt) ELSE Cast(x, IntMax)
ConvertToLong(x, dflt) == IF x = Missing THEN Gives(dflt) ELSE Cast(x, LongMax)

\* A number that is too large makes lexical_cast throw too.
CastReal(x, huge) ==
  IF x.says \notin Letters \cup huge /\ x.spelled # "java" /\ ~x.blanks
  THEN Gives(x.says) ELSE Refused("bad_lexical_cast")

ConvertToDouble(x, dflt) == IF x = Missing THEN Gives(dflt) ELSE CastReal(x, DoubleHuge)
ConvertToFloat(x, dflt)  == IF x = Missing THEN Gives(dflt) ELSE CastReal(x, FloatHuge)

ConvertToBoolean(x, dflt) ==
  IF x = Missing THEN Gives(dflt)
  ELSE Gives(x.says \in {True, 1} \cup AlsoTrue /\ Plain(x))

(***************************************************************************)
(* Java.  The default is for every text that says something else.  Blanks  *)
(* are cut off a boolean or a double before it is read, not an integer.    *)
(***************************************************************************)
GetNumber(x, dflt, max) ==
  IF x # Missing /\ x.says \in Width(max) /\ Plain(x) THEN Gives(x.says) ELSE Gives(dflt)

GetShort(x, dflt)   == GetNumber(x, dflt, ShortMax)
GetInteger(x, dflt) == GetNumber(x, dflt, IntMax)
GetLong(x, dflt)    == GetNumber(x, dflt, LongMax)

\* A number that is too large is infinity.
GetReal(x, dflt, huge) ==
  IF x = Missing \/ x.says \in Letters \/ x.spelled = "lexical" THEN Gives(dflt)
  ELSE Gives(IF x.says \in huge THEN Infinity ELSE x.says)

GetDouble(x, dflt) == GetReal(x, dflt, DoubleHuge)
GetFloat(x, dflt)  == GetReal(x, dflt, FloatHuge)

GetBoolean(x, dflt) ==
  IF x # Missing /\ x.says \in {True, False} THEN Gives(x.says = True) ELSE Gives(dflt)
=============================================================================
