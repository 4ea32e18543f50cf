----------------------------- MODULE HostAndPort -----------------------------
(***************************************************************************)
(* HostAndPort, the addresses of the C++ side, and the one place that      *)
(* makes them from the environment, OpenShiftUtil::getThriftPrivateInfo.   *)
(*                                                                         *)
(* A string is the sequence of its segments, what stands between two       *)
(* DELIMs.  A segment is a word, Blank (empty, or spaces), or a numeral,   *)
(* which stands for all the spellings of one integer.                      *)
(*                                                                         *)
(* A boost::optional<T> is a set with at most one element.                 *)
(***************************************************************************)
EXTENDS Integers, Sequences, FiniteSets

CONSTANTS Word, Blank, Numeral,  \* the segments
          String,      \* the strings considered
          Host,        \* those that are given as hosts
          Precedes,    \* std::string's operator<, on String: a set of pairs
          Modulus,     \* an unsigned int is in 0 .. Modulus - 1
          MAX_PORT,
          MaxHeld      \* bound: the addresses the program holds at a time

Segment == Word \cup {Blank} \cup Numeral

ASSUME AddressAssumption ==
  /\ Numeral \subseteq Int
  /\ (Word \cup {Blank}) \cap Numeral = {} /\ Blank \notin Word
  /\ String \subseteq Seq(Segment) /\ <<>> \notin String
  /\ Host \subseteq String
  /\ \A s \in String : <<Head(s)>> \in String
  /\ \A r, s \in String : r # s => (<<r, s>> \in Precedes <=> <<s, r>> \notin Precedes)
  /\ \A r, s, t \in String :
        <<r, s>> \in Precedes /\ <<s, t>> \in Precedes => <<r, t>> \in Precedes
  /\ Modulus \in Nat \ {0} /\ MAX_PORT \in 0 .. (Modulus - 1)
  /\ 0 .. MAX_PORT \subseteq Numeral
  /\ MaxHeld \in Nat \ {0}

VARIABLES held,     \* the addresses the program has
          outcome   \* how the last call to make one ended

vars == <<held, outcome>>

Port    == 0 .. MAX_PORT
Address == [host : String, port : {{}} \cup {{n} : n \in Port}]

Made(h, port) == [is |-> "address", of |-> {[host |-> h, port |-> port]}]
Throws(what)  == [is |-> what, of |-> {}]

(***************************************************************************)
(* The conversions of boost::lexical_cast.  A minus sign before an         *)
(* unsigned number is accepted: the number is negated modulo its width.    *)
(***************************************************************************)
IsNumeral(s) == Len(s) = 1 /\ s[1] \in Numeral

CastsToUnsigned(s) == IsNumeral(s) /\ s[1] \in (1 - Modulus) .. (Modulus - 1)
CastsToInt(s) == IsNumeral(s) /\ s[1] \in -(Modulus \div 2) .. (Modulus \div 2 - 1)

ToUnsigned(s) == s[1] % Modulus

(***************************************************************************)
(* Making an address.                                                      *)
(***************************************************************************)
FromHost(h) == Made(h, {})

\* Mutant: the range check is off by one.
FromPartsLax(h, n) == IF n > MAX_PORT + 1 THEN Throws("out_of_range") ELSE Made(h, {n})
FromParts(h, n) == IF n > MAX_PORT THEN Throws("out_of_range") ELSE Made(h, {n})

FromString(s) ==
  IF Len(s) = 1 THEN FromHost(s)
  ELSE IF ~CastsToUnsigned(Tail(s)) THEN Throws("bad_lexical_cast")
  ELSE FromParts(<<Head(s)>>, ToUnsigned(Tail(s)))

\* std::getenv of a variable that is not set returns a null pointer, and to make a
\* std::string of one throws.  Both variables are read before either is tested.
Unset == <<>>
IsBlank(s) == s = <<Blank>>

ThriftPrivateInfo(ip, port) ==
  IF Unset \in {ip, port} THEN Throws("logic_error")
  ELSE IF IsBlank(ip) \/ IsBlank(port) THEN Throws("runtime_error")
  ELSE IF ~CastsToInt(port) THEN Throws("bad_lexical_cast")
  ELSE FromParts(ip, ToUnsigned(port))

(***************************************************************************)
(* What an address answers.                                                *)
(***************************************************************************)
HasPort(a) == a.port # {}

\* Mutant: the delimiter and the port are left out for port 0.
PrintedNoZero(a) == IF HasPort(a) /\ a.port # {0}
                     THEN a.host \o <<CHOOSE n \in a.port : TRUE>> ELSE a.host
Printed(a) == a.host \o <<IF HasPort(a) THEN CHOOSE n \in a.port : TRUE ELSE Blank>>

\* operator==
Equal(a, b) ==
  /\ a.host = b.host
  /\ \/ HasPort(a) /\ HasPort(b) /\ a.port = b.port
     \/ ~HasPort(a) /\ ~HasPort(b)

\* operator<.  Mutant: a port, too, is less than none.
LessBackwards(a, b) ==
  IF a.host = b.host
  THEN \/ HasPort(a) /\ HasPort(b) /\ \A m \in a.port, n \in b.port : m < n
       \/ HasPort(a) /\ ~HasPort(b)
       \/ ~HasPort(a)
  ELSE <<a.host, b.host>> \in Precedes

Less(a, b) ==
  IF a.host = b.host
  THEN \/ HasPort(a) /\ HasPort(b) /\ \A m \in a.port, n \in b.port : m < n
       \/ ~HasPort(a)
  ELSE <<a.host, b.host>> \in Precedes

(***************************************************************************)
(* The program makes addresses, keeps some and lets others go.             *)
(***************************************************************************)
Init == held = {} /\ outcome = "none"

Take(result) ==
  /\ outcome' = result.is
  /\ \E kept \in SUBSET held : /\ Cardinality(kept) < MaxHeld
                               /\ held' = kept \cup result.of

Next ==
  \/ \E h \in Host : Take(FromHost(h))
  \/ \E h \in Host, n \in 0 .. (Modulus - 1) : Take(FromParts(h, n))
  \/ \E s \in String : Take(FromString(s))
  \/ \E ip \in Host \cup {Unset, <<Blank>>}, port \in String \cup {Unset} : Take(ThriftPrivateInfo(ip, port))

Spec == Init /\ [][Next]_vars

-----------------------------------------------------------------------------

\* No way of making an address gets a port past MAX_PORT, whatever the width of
\* the number and the sign it was written with.
TypeOK ==
  /\ held \subseteq Address
  /\ outcome \in {"none", "address", "out_of_range", "bad_lexical_cast", "logic_error",
                   "runtime_error"}

\* An address that has a port, and a host that can be written before one, is printed
\* as a string that is parsed as the same address.
PrintedParsesBack ==
  \A a \in held : HasPort(a) /\ Len(a.host) = 1 =>
                     FromString(Printed(a)) = Made(a.host, a.port)

\* Of two addresses that are not equal exactly one is less than the other, and less
\* is transitive among different addresses: with and without port, of one host or
\* several, whatever mix a sorted container holds.
DifferentAreOrdered ==
  \A a, b \in held : ~Equal(a, b) =>
     /\ Less(a, b) # Less(b, a)
     /\ \A c \in held : ~Equal(a, c) /\ Less(a, b) /\ Less(b, c) => Less(a, c)

\* Two addresses that compare equal, as HostAndPortTests.cpp:50 wants it of two that
\* have the same host and no port, are not less than each other.  The code makes each
\* less than the other: operator< compares no port with no port as less.
EqualIsNotLess == \A a, b \in held : Equal(a, b) => ~Less(a, b)
=============================================================================
