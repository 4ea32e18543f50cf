-------------------------- MODULE HostAndPortProofs --------------------------
(***************************************************************************)
(* What holds of the values a program takes from outside: of HostAndPort   *)
(* for all strings, every order of them, every width of the unsigned       *)
(* numbers and every greatest port; and of Surroundings for a day and an   *)
(* hour of any length, every instant and every offset of a time zone, and  *)
(* for numbers of any width.  The two share no state.                      *)
(***************************************************************************)
EXTENDS HostAndPort, Surroundings, SequenceTheorems, FiniteSetTheorems, TLAPS

Results == [is : {"address"}, of : SUBSET Address]
             \cup [is : {"out_of_range", "bad_lexical_cast", "logic_error", "runtime_error"},
                   of : SUBSET Address]

\* A number that lexical_cast accepts is an unsigned one afterwards.
LEMMA ToUnsignedIsUnsigned ==
  ASSUME NEW s, IsNumeral(s)
  PROVE  ToUnsigned(s) \in 0 .. (Modulus - 1)
<1>1. s[1] \in Int /\ Modulus \in Nat \ {0}
  BY AddressAssumption DEF IsNumeral
<1>2. QED
  BY <1>1 DEF ToUnsigned

\* The range check lets no other port through.
LEMMA FromPartsTyped ==
  ASSUME NEW h \in String, NEW n \in 0 .. (Modulus - 1)
  PROVE  FromParts(h, n) \in Results
<1>1. CASE n > MAX_PORT
  BY <1>1 DEF FromParts, Throws, Results
<1>2. CASE ~(n > MAX_PORT)
  <2>1. n \in Port
    BY <1>2, AddressAssumption DEF Port
  <2>2. QED
    BY <1>2, <2>1 DEF FromParts, Made, Results, Address
<1>3. QED
  BY <1>1, <1>2

\* A host alone is an address.
LEMMA FromHostTyped == \A h \in String : FromHost(h) \in Results
BY DEF FromHost, Made, Results, Address

\* So is what a string is parsed as.
LEMMA FromStringTyped ==
  ASSUME NEW s \in String
  PROVE  FromString(s) \in Results
<1>1. CASE Len(s) = 1
  BY <1>1, FromHostTyped DEF FromString
<1>2. CASE Len(s) # 1 /\ ~CastsToUnsigned(Tail(s))
  BY <1>2 DEF FromString, Throws, Results
<1>3. CASE Len(s) # 1 /\ CastsToUnsigned(Tail(s))
  <2>1. ToUnsigned(Tail(s)) \in 0 .. (Modulus - 1)
    BY <1>3, ToUnsignedIsUnsigned DEF CastsToUnsigned
  <2>2. <<Head(s)>> \in String
    BY AddressAssumption
  <2>3. QED
    BY <1>3, <2>1, <2>2, FromPartsTyped DEF FromString
<1>4. QED
  BY <1>1, <1>2, <1>3

\* So is what the environment gives.
LEMMA ThriftPrivateInfoTyped ==
  ASSUME NEW ip \in Host \cup {Unset, <<Blank>>}, NEW port \in String \cup {Unset}
  PROVE  ThriftPrivateInfo(ip, port) \in Results
<1>1. CASE Unset \in {ip, port} \/ IsBlank(ip) \/ IsBlank(port) \/ ~CastsToInt(port)
  BY <1>1 DEF ThriftPrivateInfo, Throws, Results
<1>2. CASE ~(Unset \in {ip, port} \/ IsBlank(ip) \/ IsBlank(port) \/ ~CastsToInt(port))
  <2>1. ip \in String
    BY <1>2, AddressAssumption DEF IsBlank
  <2>2. ToUnsigned(port) \in 0 .. (Modulus - 1)
    BY <1>2, ToUnsignedIsUnsigned DEF CastsToInt
  <2>3. QED
    BY <1>2, <2>1, <2>2, FromPartsTyped DEF ThriftPrivateInfo
<1>3. QED
  BY <1>1, <1>2

\* However an address is made, its port is at most MAX_PORT.
THEOREM PortsInRange == Spec => []TypeOK
<1>1. Init => TypeOK
  BY DEF Init, TypeOK
<1>2. ASSUME TypeOK, NEW result \in Results, Take(result)
      PROVE  TypeOK'
  BY <1>2 DEF TypeOK, Results, Take
<1>3. TypeOK /\ [Next]_vars => TypeOK'
  <2> SUFFICES ASSUME TypeOK, [Next]_vars PROVE TypeOK'
    OBVIOUS
  <2>1. ASSUME NEW h \in Host, Take(FromHost(h)) PROVE TypeOK'
    BY <1>2, <2>1, FromHostTyped, AddressAssumption
  <2>2. ASSUME NEW h \in Host, NEW n \in 0 .. (Modulus - 1), Take(FromParts(h, n))
        PROVE  TypeOK'
    BY <1>2, <2>2, FromPartsTyped, AddressAssumption
  <2>3. ASSUME NEW s \in String, Take(FromString(s)) PROVE TypeOK'
    BY <1>2, <2>3, FromStringTyped
  <2>4. ASSUME NEW ip \in Host \cup {Unset, <<Blank>>}, NEW port \in String \cup {Unset},
               Take(ThriftPrivateInfo(ip, port))
        PROVE  TypeOK'
    BY <1>2, <2>4, ThriftPrivateInfoTyped
  <2>5. CASE UNCHANGED vars
    BY <2>5 DEF vars, TypeOK
  <2>6. QED
    BY <2>1, <2>2, <2>3, <2>4, <2>5 DEF Next
<1>4. QED
  BY <1>1, <1>3, PTL DEF Spec

\* operator< orders any two different addresses one way, and is transitive among
\* different ones.
LEMMA LessOrdersDifferent ==
  ASSUME NEW a \in Address, NEW b \in Address, ~Equal(a, b)
  PROVE  Less(a, b) # Less(b, a)
<1>1. CASE a.host # b.host
  <2>1. a.host \in String /\ b.host \in String
    BY DEF Address
  <2>2. <<a.host, b.host>> \in Precedes <=> <<b.host, a.host>> \notin Precedes
    BY <1>1, <2>1, AddressAssumption
  <2>3. QED
    BY <1>1, <2>2 DEF Less
<1>2. CASE a.host = b.host
  <2>1. CASE HasPort(a) /\ HasPort(b)
    <3>1. PICK m \in Port, n \in Port : a.port = {m} /\ b.port = {n}
      BY <2>1 DEF Address, HasPort
    <3>2. m # n /\ m \in Int /\ n \in Int
      BY <1>2, <2>1, <3>1, AddressAssumption DEF Equal, Port
    <3>3. (Less(a, b) <=> m < n) /\ (Less(b, a) <=> n < m)
      BY <1>2, <2>1, <3>1 DEF Less
    <3>4. QED
      BY <3>2, <3>3
  <2>2. CASE ~(HasPort(a) /\ HasPort(b))
    BY <1>2, <2>2 DEF Less, Equal
  <2>3. QED
    BY <2>1, <2>2
<1>3. QED
  BY <1>1, <1>2

\* Over three addresses, with and without ports.
LEMMA LessIsTransitive ==
  ASSUME NEW a \in Address, NEW b \in Address, NEW c \in Address,
         ~Equal(a, c), Less(a, b), Less(b, c)
  PROVE  Less(a, c)
<1>1. /\ a.host \in String /\ b.host \in String /\ c.host \in String
      /\ \A x \in {a, b, c} : x.port = {} \/ \E n \in Port : x.port = {n}
  BY DEF Address
<1>2. CASE a.host = c.host
  <2>1. b.host = a.host
    BY <1>1, <1>2, AddressAssumption DEF Less
  <2>2. CASE ~HasPort(a)
    BY <1>2, <2>2 DEF Less
  <2>3. CASE HasPort(a)
    <3>1. HasPort(b) /\ HasPort(c)
      BY <1>2, <2>1, <2>3 DEF Less
    <3>2. PICK l \in Port, m \in Port, n \in Port :
             a.port = {l} /\ b.port = {m} /\ c.port = {n}
      BY <1>1, <2>3, <3>1 DEF HasPort
    <3>3. l < m /\ m < n
      BY <1>2, <2>1, <2>3, <3>1, <3>2 DEF Less
    <3>4. l < n
      BY <3>3, AddressAssumption DEF Port
    <3>5. QED
      BY <1>2, <2>3, <3>1, <3>2, <3>4 DEF Less
  <2>4. QED
    BY <2>2, <2>3
<1>3. CASE a.host # c.host
  BY <1>1, <1>3, AddressAssumption DEF Less
<1>4. QED
  BY <1>2, <1>3

\* Whatever addresses a program holds, different ones are strictly ordered: for a
\* sorted container only equal addresses without a port are a problem.
THEOREM Ordered == Spec => []DifferentAreOrdered
<1>1. TypeOK => DifferentAreOrdered
  <2> SUFFICES ASSUME TypeOK, NEW a \in held, NEW b \in held, ~Equal(a, b)
               PROVE  /\ Less(a, b) # Less(b, a)
                      /\ \A c \in held : ~Equal(a, c) /\ Less(a, b) /\ Less(b, c)
                                            => Less(a, c)
    BY DEF DifferentAreOrdered
  <2>1. held \subseteq Address
    BY DEF TypeOK
  <2>2. Less(a, b) # Less(b, a)
    BY <2>1, LessOrdersDifferent
  <2>3. ASSUME NEW c \in held, ~Equal(a, c), Less(a, b), Less(b, c)
        PROVE  Less(a, c)
    BY <2>1, <2>3, LessIsTransitive
  <2>4. QED
    BY <2>2, <2>3
<1>2. QED
  BY <1>1, PortsInRange, PTL

\* A sequence of one element and one more.
LEMMA OneThenAnother ==
  ASSUME NEW S, NEW h \in Seq(S), Len(h) = 1, NEW n \in S
  PROVE  /\ h \o <<n>> \in Seq(S) /\ Len(h \o <<n>>) = 2
         /\ <<Head(h \o <<n>>)>> = h
         /\ Tail(h \o <<n>>) = <<n>>
<1> DEFINE s == h \o <<n>>
<1>1. s \in Seq(S) /\ Len(s) = 2 /\ s[1] = h[1] /\ s[2] = n
  <2> DEFINE u == <<n>>
  <2>1. u \in Seq(S) /\ Len(u) = 1 /\ u[1] = n
    OBVIOUS
  <2> HIDE DEF u
  <2> QED
    BY <2>1, ConcatProperties DEF u
<1>2. h = <<h[1]>>
  OBVIOUS
<1>3. Tail(s) \in Seq(S) /\ Len(Tail(s)) = 1 /\ Tail(s)[1] = n
  BY <1>1, HeadTailProperties
<1>4. Tail(s) = <<n>>
  <2> HIDE DEF s
  <2> DEFINE t == Tail(s)
  <2>1. t \in Seq(S) /\ Len(t) = 1 /\ t[1] = n
    BY <1>3
  <2> HIDE DEF t
  <2>2. t = <<n>>
    BY <2>1
  <2>3. QED BY <2>2 DEF t
<1>5. Head(s) = h[1]
  BY <1>1
<1>6. QED
  BY <1>1, <1>2, <1>4, <1>5

\* An address with a port, and a host that has no delimiter in it, is parsed from
\* what it prints.
THEOREM ParsesBack == Spec => []PrintedParsesBack
<1>1. TypeOK => PrintedParsesBack
  <2> SUFFICES ASSUME TypeOK, NEW a \in held, HasPort(a), Len(a.host) = 1
               PROVE  FromString(Printed(a)) = Made(a.host, a.port)
    BY DEF PrintedParsesBack
  <2>1. PICK n \in Port : a.port = {n} /\ a.host \in String
    BY DEF TypeOK, Address, HasPort
  <2>2. a.host \in Seq(Segment) /\ n \in Numeral /\ n \in Nat
    BY <2>1, AddressAssumption DEF Port
  <2>3. Printed(a) = a.host \o <<n>>
    BY <2>1 DEF Printed
  <2> DEFINE s == a.host \o <<n>>
  <2>4. /\ Len(s) = 2 /\ <<Head(s)>> = a.host
        /\ Tail(s) = <<n>>
    BY <2>2, OneThenAnother DEF Segment
  <2> HIDE DEF s
  <2>5. CastsToUnsigned(Tail(s)) /\ ToUnsigned(Tail(s)) = n
    <3>1. n \in 0 .. (Modulus - 1) /\ Modulus \in Nat
      BY <2>1, AddressAssumption DEF Port
    <3>2. n % Modulus = n /\ n \in (1 - Modulus) .. (Modulus - 1)
      BY <3>1
    <3>3. Len(<<n>>) = 1 /\ <<n>>[1] = n
      OBVIOUS
    <3>4. CastsToUnsigned(<<n>>) /\ ToUnsigned(<<n>>) = n
      BY <2>2, <3>2, <3>3 DEF CastsToUnsigned, ToUnsigned, IsNumeral
    <3>5. QED
      BY <2>4, <3>4
  <2>6. FromParts(a.host, n) = Made(a.host, {n})
    BY <2>1, AddressAssumption DEF FromParts, Port
  <2>7. QED
    BY <2>1, <2>3, <2>4, <2>5, <2>6 DEF FromString, s
<1>2. QED
  BY <1>1, PortsInRange, PTL

(***************************************************************************)
(* The surroundings.                                                       *)
(***************************************************************************)

\* A number is so many times another and a rest, in no other way.
LEMMA DivisionIsUnique ==
  ASSUME NEW n \in Nat \ {0}, NEW q \in Int, NEW r \in 0 .. n - 1
  PROVE  (q * n + r) \div n = q /\ (q * n + r) % n = r
<1> DEFINE x == q * n + r
           e == x \div n
           s == x % n
<1>1. x \in Int /\ e \in Int /\ s \in 0 .. n - 1 /\ x = n * e + s
  OBVIOUS
<1>2. n * (q - e) = s - r
  BY <1>1
<1>3. ~(q - e >= 1)
  <2> SUFFICES ASSUME q - e >= 1 PROVE FALSE
    OBVIOUS
  <2>1. n * (q - e) >= n
    OBVIOUS
  <2>2. QED
    BY <1>1, <1>2, <2>1
<1>4. ~(q - e <= -1)
  <2> SUFFICES ASSUME q - e <= -1 PROVE FALSE
    OBVIOUS
  <2>1. n * (q - e) <= -n
    OBVIOUS
  <2>2. QED
    BY <1>1, <1>2, <2>1
<1>5. e = q /\ s = r
  BY <1>1, <1>2, <1>3, <1>4
<1>6. QED
  BY <1>5

\* And there is such a way.
LEMMA Division ==
  ASSUME NEW x \in Int, NEW n \in Nat \ {0}
  PROVE  /\ x \div n \in Int /\ x % n \in 0 .. n - 1
         /\ x = n * (x \div n) + (x % n)
         /\ x >= 0 => x \div n \in Nat
<1>1. x \div n \in Int /\ x % n \in 0 .. n - 1 /\ x = n * (x \div n) + (x % n)
  OBVIOUS
<1>2. ASSUME x >= 0, x \div n <= -1 PROVE FALSE
  <2>1. n * (x \div n) <= -n
    BY <1>1, <1>2
  <2>2. QED
    BY <1>1, <1>2, <2>1
<1>3. QED
  BY <1>1, <1>2

\* A day has minutes, and a local time is so many days and the rest of one.
LEMMA LocalTimes ==
  ASSUME NEW i \in Int, NEW o \in Int
  PROVE  /\ MinutesPerDay \in Nat \ {0}
         /\ Local(i, o) \in Int /\ Day(i, o) \in Int
         /\ Local(i, o) % MinutesPerDay \in 0 .. MinutesPerDay - 1
         /\ Local(i, o) = MinutesPerDay * Day(i, o) + (Local(i, o) % MinutesPerDay)
<1>1. MinutesPerDay \in Nat \ {0}
  BY CalendarAssumption DEF MinutesPerDay
<1>2. Local(i, o) \in Int
  BY DEF Local
<1>3. QED
  BY <1>1, <1>2, Division DEF Day

\* The hours and minutes of a local time are the rest of its day: the minutes, which
\* the calendar counts from the beginning of all days, are also those of the day.
LEMMA PartsOfADay ==
  ASSUME NEW i \in Int, NEW o \in Int
  PROVE  /\ Hour(i, o) \in 0 .. HoursPerDay - 1
         /\ Minute(i, o) \in 0 .. MinutesPerHour - 1
         /\ Hour(i, o) * MinutesPerHour + Minute(i, o) = Local(i, o) % MinutesPerDay
<1> DEFINE r == Local(i, o) % MinutesPerDay
           h == r \div MinutesPerHour
           m == r % MinutesPerHour
           d == Day(i, o)
<1>1. /\ MinutesPerHour \in Nat \ {0} /\ HoursPerDay \in Nat \ {0}
      /\ r \in Nat /\ r < HoursPerDay * MinutesPerHour /\ d \in Int
  BY LocalTimes, CalendarAssumption DEF MinutesPerDay
<1>2. r = h * MinutesPerHour + m /\ m \in 0 .. MinutesPerHour - 1 /\ h \in Nat
  <2> HIDE DEF r
  <2>1. r \in Int /\ r >= 0 /\ MinutesPerHour \in Nat \ {0}
    BY <1>1
  <2>2. /\ h \in Nat /\ m \in 0 .. MinutesPerHour - 1
        /\ r = MinutesPerHour * h + m
    BY <2>1, Division
  <2> HIDE DEF h, m
  <2>3. QED
    BY <2>1, <2>2
<1>3. h <= HoursPerDay - 1
  <2> SUFFICES ASSUME h >= HoursPerDay PROVE FALSE
    BY <1>1, <1>2
  <2> HIDE DEF r, h, m
  <2>1. h * MinutesPerHour >= HoursPerDay * MinutesPerHour
    BY <1>1, <1>2
  <2>2. QED
    BY <1>1, <1>2, <2>1
<1>4. Local(i, o) = (d * HoursPerDay + h) * MinutesPerHour + m
  <2>1. Local(i, o) = (MinutesPerHour * HoursPerDay) * d + r
    BY LocalTimes DEF MinutesPerDay
  <2> HIDE DEF r, h, m, d
  <2>2. (MinutesPerHour * HoursPerDay) * d = (d * HoursPerDay) * MinutesPerHour
    BY <1>1
  <2>3. QED
    BY <1>1, <1>2, <2>1, <2>2
<1>5. Minute(i, o) = m
  <2> HIDE DEF r, h, m, d
  <2>1. d * HoursPerDay + h \in Int
    BY <1>1, <1>2
  <2>2. QED
    BY <1>1, <1>2, <1>4, <2>1, DivisionIsUnique DEF Minute
<1>6. Hour(i, o) = h
  BY DEF Hour
<1>7. QED
  BY <1>1, <1>2, <1>3, <1>5, <1>6

\* The hours and minutes of the zone are its offset, with the sign apart.
LEMMA PartsOfAZone ==
  ASSUME NEW o \in Int
  PROVE  /\ TimeZone(o).hour \in Nat /\ TimeZone(o).minute \in 0 .. MinutesPerHour - 1
         /\ TimeZone(o).hour * MinutesPerHour + TimeZone(o).minute = Abs(o)
         /\ TimeZone(o).afterUtc = (o > 0)
<1>1. Abs(o) \in Nat /\ MinutesPerHour \in Nat \ {0}
  BY CalendarAssumption DEF Abs
<1>2. /\ Abs(o) \div MinutesPerHour \in Nat
      /\ Abs(o) % MinutesPerHour \in 0 .. MinutesPerHour - 1
      /\ Abs(o) = (Abs(o) \div MinutesPerHour) * MinutesPerHour + (Abs(o) % MinutesPerHour)
  <2> DEFINE a == Abs(o)
             h == a \div MinutesPerHour
             m == a % MinutesPerHour
  <2> HIDE DEF a
  <2>1. h \in Nat /\ m \in 0 .. MinutesPerHour - 1 /\ a = MinutesPerHour * h + m
    <3>1. a \in Int /\ a >= 0
      BY <1>1 DEF a
    <3>2. QED
      BY <1>1, <3>1, Division
  <2> HIDE DEF h, m
  <2>2. a = h * MinutesPerHour + m
    BY <1>1, <2>1
  <2>3. QED
    BY <2>1, <2>2 DEF a, h, m
<1>3. QED
  BY <1>2 DEF TimeZone

\* A date of any day with the time of an instant denotes that time on that day.
LEMMA DenotedIsExact ==
  ASSUME NEW i \in Int, NEW o \in Int, NEW d \in Int
  PROVE  Denoted(d, GetCurrentTime(i, o)) - i = (d - Day(i, o)) * MinutesPerDay
<1> DEFINE t == GetCurrentTime(i, o)
<1>1. /\ t.hour = Hour(i, o) /\ t.minute = Minute(i, o) /\ t.tz = TimeZone(o)
  BY DEF GetCurrentTime
<1>2. Denoted(d, t) = d * MinutesPerDay + Hour(i, o) * MinutesPerHour + Minute(i, o)
                        - (IF o > 0 THEN Abs(o) ELSE -Abs(o))
  BY <1>1, PartsOfAZone DEF Denoted
<1>3. (IF o > 0 THEN Abs(o) ELSE -Abs(o)) = o
  BY DEF Abs
<1> DEFINE r == Local(i, o) % MinutesPerDay
           e == Day(i, o)
<1>4. /\ MinutesPerDay \in Nat /\ e \in Int /\ r \in Int
      /\ i + o = MinutesPerDay * e + r
      /\ Hour(i, o) * MinutesPerHour + Minute(i, o) = r
      /\ Hour(i, o) \in Int /\ Minute(i, o) \in Int /\ MinutesPerHour \in Int
  BY LocalTimes, PartsOfADay, CalendarAssumption DEF Local
<1>5. Denoted(d, t) = d * MinutesPerDay + r - o
  <2> DEFINE x == d * MinutesPerDay
             y == Hour(i, o) * MinutesPerHour
  <2>1. Denoted(d, t) = x + y + Minute(i, o) - o
    BY <1>2, <1>3
  <2>2. /\ x \in Int /\ y \in Int /\ Minute(i, o) \in Int
        /\ y + Minute(i, o) = r
    BY <1>4
  <2> HIDE DEF t, r, x, y
  <2>3. Denoted(d, t) = x + r - o
    BY <2>1, <2>2
  <2>4. QED
    BY <2>3 DEF x
<1>6. (d - e) * MinutesPerDay = d * MinutesPerDay - MinutesPerDay * e
  <2> HIDE DEF e
  <2>1. QED
    BY <1>4
<1>7. QED
  <2> HIDE DEF t, r, e
  <2>1. Denoted(d, t) - i = (d - e) * MinutesPerDay
    BY <1>4, <1>5, <1>6
  <2>2. QED
    BY <2>1 DEF t, e

-----------------------------------------------------------------------------

\* The clock stays within its bounds, a date that has been read is a day, and the
\* environment holds one of the texts or none.
Read ==
  /\ repo = {} \/ \E p \in Variable : repo = {p}
  /\ now \in 0 .. MaxInstant /\ offset \in Offset
  /\ date \subseteq Int
  /\ text \in Text \cup {Missing}

\* What is answered is the date read and the time of the moment, until the next step.
Answered == \A dt \in dateTime : dt.date \in Int /\ dt.time = GetCurrentTime(now, offset)

IInv == Read /\ Answered

\* The clock and the zone are numbers.
LEMMA ReadsNumbers == IInv => now \in Int /\ offset \in Int
<1>1. MaxInstant \in Nat /\ Offset \subseteq Int
  BY SurroundingsAssumption
<1>2. QED
  BY <1>1 DEF IInv, Read

\* At first nothing has been read.
LEMMA InitIInv == SurroundingsInit => IInv
BY SurroundingsAssumption DEF SurroundingsInit, IInv, Read, Answered

\* Every step that moves anything takes the answer away.
LEMMA NextIInv == IInv /\ [SurroundingsNext]_readings => IInv'
<1> SUFFICES ASSUME IInv, [SurroundingsNext]_readings PROVE IInv'
  OBVIOUS
<1>1. CASE UNCHANGED readings
  BY <1>1 DEF readings, IInv, Read, Answered
<1>2. CASE SetEnvironment \/ SetText
  BY <1>2 DEF SetEnvironment, SetText, IInv, Read, Answered
<1>3. CASE Tick \/ ChangeZone
  <2>1. MaxInstant \in Nat /\ Offset \subseteq Int
    BY SurroundingsAssumption
  <2>2. CASE Tick
    BY <2>1, <2>2 DEF Tick, IInv, Read, Answered
  <2>3. CASE ChangeZone
    BY <2>1, <2>3 DEF ChangeZone, IInv, Read, Answered
  <2>4. QED
    BY <1>3, <2>2, <2>3
<1>4. CASE ReadDate
  <2>1. GetCurrentDate(now, offset) \in Int
    BY LocalTimes, ReadsNumbers DEF GetCurrentDate
  <2>2. QED
    BY <1>4, <2>1 DEF ReadDate, IInv, Read, Answered
<1>5. CASE ReadTime
  BY <1>5 DEF ReadTime, IInv, Read, Answered
<1>6. QED
  BY <1>1, <1>2, <1>3, <1>4, <1>5 DEF SurroundingsNext

\* However long days and hours are, and whatever the clock and the zone do between the
\* two readings of getCurrentDateTime, its answer denotes the instant of the second,
\* moved by the days between the date that was read and that instant's.
THEOREM DateTimesRight == SurroundingsSpec => []DateTimeIsRight
<1>1. IInv => DateTimeIsRight
  <2> SUFFICES ASSUME IInv, NEW dt \in dateTime
               PROVE  Denoted(dt.date, dt.time) - now
                        = (dt.date - Day(now, offset)) * MinutesPerDay
    BY DEF DateTimeIsRight
  <2>1. QED
    BY DenotedIsExact, ReadsNumbers DEF IInv, Answered
<1>2. QED
  BY <1>1, InitIInv, NextIInv, PTL DEF SurroundingsSpec

\* The parts of a time are those of a day and an hour of any length, and the parts of
\* a zone carry no sign.
THEOREM ReadingsCorrect == SurroundingsSpec => []ReadingsTyped
<1>1. IInv => ReadingsTyped
  <2> SUFFICES ASSUME IInv, NEW dt \in dateTime
               PROVE  /\ dt.time.hour \in 0 .. HoursPerDay - 1
                      /\ dt.time.minute \in 0 .. MinutesPerHour - 1
                      /\ dt.time.tz.hour \in Nat
                      /\ dt.time.tz.minute \in 0 .. MinutesPerHour - 1
    BY DEF ReadingsTyped, IInv, Read, Answered
  <2>1. /\ dt.time.hour = Hour(now, offset) /\ dt.time.minute = Minute(now, offset)
        /\ dt.time.tz = TimeZone(offset)
    BY DEF IInv, Answered, GetCurrentTime
  <2>2. QED
    BY <2>1, ReadsNumbers, PartsOfADay, PartsOfAZone
<1>2. QED
  BY <1>1, InitIInv, NextIInv, PTL DEF SurroundingsSpec

\* What the two sides make of a text that says a real number, for a width of which some
\* numbers are too large: it is the same, or one of the two does not know the spelling,
\* or the number is too large.
LEMMA RealsAgree ==
  ASSUME NEW huge, NEW dflt, text = Missing \/ ~text.blanks,
         NEW java, java = GetReal(text, dflt, huge),
         NEW cpp, cpp = IF text = Missing THEN Gives(dflt) ELSE CastReal(text, huge),
         text # Missing => text \in Written
  PROVE  SameReal(java, cpp, dflt)
<1>1. CASE text = Missing
  BY <1>1 DEF SameReal, GetReal, Gives
<1>2. CASE text # Missing
  <2>1. text \in Written /\ ~text.blanks
    BY <1>2
  <2>2. CASE text.spelled = "java"
    BY <1>2, <2>2 DEF SameReal, CastReal, Refused
  <2>3. CASE text.says \in huge \cup Letters
    <3>1. cpp.is # "value" /\ cpp.of = {}
      BY <1>2, <2>3 DEF CastReal, Refused
    <3>2. java \in {Gives(dflt), Gives(Infinity)}
      BY <1>2, <2>3 DEF GetReal
    <3>3. QED
      BY <3>1, <3>2 DEF SameReal
  <2>4. CASE text.spelled # "java" /\ text.says \notin huge \cup Letters
    <3>1. cpp = Gives(text.says)
      BY <1>2, <2>1, <2>4 DEF CastReal
    <3>2. cpp.is = "value" /\ cpp.of = {text.says}
      BY <3>1 DEF Gives
    <3>3. CASE text.spelled = "lexical"
      <4>1. text.says \in {NaN, Infinity}
        BY <2>1, <3>3 DEF Written
      <4>2. java = Gives(dflt)
        BY <1>2, <3>3 DEF GetReal
      <4>3. QED
        BY <3>2, <4>1, <4>2 DEF SameReal
    <3>4. CASE text.spelled # "lexical"
      <4>1. java = cpp
        BY <1>2, <2>4, <3>1, <3>4 DEF GetReal
      <4>2. QED
        BY <3>2, <4>1 DEF SameReal
    <3>5. QED
      BY <3>3, <3>4
  <2>5. QED
    BY <2>2, <2>3, <2>4
<1>3. QED
  BY <1>1, <1>2

\* Whatever the widths of the numbers are and however a text without blanks is spelled:
\* an integer or a finite number that C++ makes of it is the same to Java, and one that
\* only one side can make differs from the other's only as the default or infinity do.
THEOREM ReadTheSame == SurroundingsSpec => []SidesReadTheSame
<1>1. IInv => SidesReadTheSame
  <2> SUFFICES ASSUME IInv, text = Missing \/ ~text.blanks PROVE SidesReadTheSame
    BY DEF SidesReadTheSame
  <2>1. /\ ShortMax \in Nat /\ IntMax \in Nat /\ LongMax \in Nat
        /\ ShortMax <= IntMax /\ IntMax <= LongMax
        /\ DoubleHuge \subseteq FloatHuge
        /\ \A n \in FloatHuge \cap Int : n < -LongMax - 1 \/ n > LongMax
        /\ \A w \in Letters : w \notin Int
    BY ConversionsAssumption
  <2>2. Width(ShortMax) \subseteq Width(IntMax) /\ Width(IntMax) \subseteq Width(LongMax)
    BY <2>1 DEF Width
  <2>3. text # Missing => text \in Written
    BY SurroundingsAssumption DEF IInv, Read
  <2>4. ASSUME NEW d
        PROVE  /\ Same(GetInteger(text, d), ConvertToInt(text, d), d)
               /\ Same(GetLong(text, d), ConvertToLong(text, d), d)
    BY DEF Same, GetInteger, GetLong, GetNumber, ConvertToInt, ConvertToLong, Cast, Gives,
           Refused
  <2>5. ASSUME NEW d
        PROVE  /\ SameReal(GetDouble(text, d), ConvertToDouble(text, d), d)
               /\ SameReal(GetFloat(text, d), ConvertToFloat(text, d), d)
    <3>1. \A huge, java, cpp :
            /\ java = GetReal(text, d, huge)
            /\ cpp = IF text = Missing THEN Gives(d) ELSE CastReal(text, huge)
            => SameReal(java, cpp, d)
      BY <2>3, RealsAgree
    <3>2. QED
      BY <3>1 DEF GetDouble, GetFloat, ConvertToDouble, ConvertToFloat
  <2>6. ASSUME NEW d
        PROVE  /\ GetShort(text, d) \in {GetLong(text, d), Gives(d)}
               /\ GetInteger(text, d) \in {GetLong(text, d), Gives(d)}
    BY <2>2 DEF GetShort, GetInteger, GetLong, GetNumber
  <2>7. ASSUME NEW d
        PROVE  GetLong(text, d) \in {GetDouble(text, d), Gives(d)}
    <3>1. CASE text # Missing /\ text.says \in Width(LongMax) /\ Plain(text)
      <4>1. text.says \in Int /\ -LongMax - 1 <= text.says /\ text.says <= LongMax
        BY <2>1, <3>1 DEF Width
      <4>2. text.says \notin Letters /\ text.says \notin DoubleHuge
        BY <2>1, <4>1
      <4>3. GetDouble(text, d) = Gives(text.says)
        BY <3>1, <4>2 DEF GetDouble, GetReal, Plain
      <4>4. QED
        BY <3>1, <4>3 DEF GetLong, GetNumber
    <3>2. CASE ~(text # Missing /\ text.says \in Width(LongMax) /\ Plain(text))
      BY <3>2 DEF GetLong, GetNumber
    <3>3. QED
      BY <3>1, <3>2
  <2>8. ASSUME NEW d
        PROVE  GetFloat(text, d) \in {GetDouble(text, d), Gives(Infinity)}
    <3>1. text.says \in DoubleHuge => text.says \in FloatHuge
      BY <2>1
    <3>2. QED
      BY <3>1 DEF GetFloat, GetDouble, GetReal
  <2>9. ASSUME NEW d \in BOOLEAN, text = Missing \/ text.says \in {True, False}
        PROVE  GetBoolean(text, d) = ConvertToBoolean(text, d)
    <3>1. /\ False # True /\ False \notin AlsoTrue /\ False # 1
          /\ {True, False} \cap {NaN, Infinity} = {}
          /\ {True, False} \cap Number = {}
      BY ConversionsAssumption DEF Number
    <3>2. CASE text = Missing
      BY <3>2 DEF GetBoolean, ConvertToBoolean
    <3>3. CASE text # Missing
      <4>1. Plain(text) /\ text.says \in {True, False}
        BY <2>3, <2>9, <3>1, <3>3 DEF Written, Plain
      <4>2. QED
        BY <3>1, <3>3, <4>1 DEF GetBoolean, ConvertToBoolean, Gives
    <3>4. QED
      BY <3>2, <3>3
  <2>10. QED
    BY <2>4, <2>5, <2>6, <2>7, <2>8, <2>9 DEF SidesReadTheSame
<1>2. QED
  BY <1>1, InitIInv, NextIInv, PTL DEF SurroundingsSpec

(***************************************************************************)
(* The directories.                                                        *)
(***************************************************************************)

\* Of a finite set of numbers no two have the same rank.
LEMMA RanksDiffer ==
  ASSUME NEW S \in SUBSET Nat, IsFiniteSet(S), NEW i \in S, NEW j \in S,
         Rank(i, S) = Rank(j, S)
  PROVE  i = j
<1>1. ASSUME NEW k \in S, NEW l \in S, k < l PROVE Rank(k, S) # Rank(l, S)
  <2> DEFINE K == {h \in S : h <= k}
             L == {h \in S : h <= l}
  <2>1. S \subseteq Nat /\ k \in Nat /\ l \in Nat
    OBVIOUS
  <2>2. \A h \in S : h <= k => h <= l
    BY <1>1, <2>1
  <2>3. L \in SUBSET S /\ K \in SUBSET L /\ l \in L /\ l \notin K
    <3>1. L \in SUBSET S /\ K \in SUBSET L
      BY <2>2, Zenon
    <3>2. l <= l /\ ~(l <= k)
      BY <1>1, <2>1
    <3>3. QED
      BY <3>1, <3>2, Zenon
  <2>4. IsFiniteSet(L)
    BY <2>3, FS_Subset
  <2>5. Cardinality(K) # Cardinality(L)
    BY <2>3, <2>4, FS_Subset
  <2>6. QED
    BY <2>5 DEF Rank
<1>2. i < j \/ j < i \/ i = j
  OBVIOUS
<1>3. QED
  BY <1>1, <1>2

\* Ranks count from one to the size of the set.
LEMMA RanksCount ==
  ASSUME NEW S \in SUBSET Nat, IsFiniteSet(S)
  PROVE  /\ Cardinality(S) \in Nat
         /\ \A i \in S : Rank(i, S) \in 1 .. Cardinality(S)
         /\ \A n \in 1 .. Cardinality(S) : \E i \in S : Rank(i, S) = n
<1> DEFINE N == 1 .. Cardinality(S)
           rank == [i \in S |-> Rank(i, S)]
           R == {rank[i] : i \in S}
<1>1. Cardinality(S) \in Nat
  BY FS_CardinalityType
<1>2. ASSUME NEW i \in S PROVE Rank(i, S) \in N
  <2> DEFINE H == {h \in S : h <= i}
  <2>1. H \in SUBSET S /\ i \in H
    OBVIOUS
  <2>2. IsFiniteSet(H) /\ Cardinality(H) <= Cardinality(S)
    BY <2>1, FS_Subset
  <2>3. Cardinality(H) \in Nat /\ Cardinality(H) # 0
    BY <2>1, <2>2, FS_CardinalityType, FS_EmptySet
  <2>4. QED
    BY <1>1, <2>2, <2>3 DEF Rank
<1>3. rank \in Bijection(S, R)
  <2>1. rank \in [S -> R] /\ \A n \in R : \E i \in S : rank[i] = n
    OBVIOUS
  <2>2. \A i, j \in S : rank[i] = rank[j] => i = j
    BY RanksDiffer
  <2>3. QED
    BY <2>1, <2>2 DEF Bijection, Injection, Surjection, IsInjective
<1>4. IsFiniteSet(R) /\ Cardinality(R) = Cardinality(S)
  BY <1>3, FS_Bijection DEF ExistsBijection
<1>5. R \in SUBSET N
  BY <1>2
<1>6. IsFiniteSet(N) /\ Cardinality(N) = Cardinality(S)
  <2>1. 1 \in Int /\ Cardinality(S) \in Int
    BY <1>1
  <2>2. QED
    BY <1>1, <2>1, FS_Interval
<1>7. R = N
  BY <1>4, <1>5, <1>6, FS_Subset
<1>8. QED
  BY <1>1, <1>2, <1>7

\* Two paths name the same place if what is kept of the one is, in order, what is kept
\* of the other.
LEMMA SamePlace ==
  ASSUME NEW p, NEW q, NEW f,
         Kept(p) \in SUBSET Nat, IsFiniteSet(Kept(p)), Kept(q) \in SUBSET Nat,
         f \in Bijection(Kept(p), Kept(q)),
         \A h, i \in Kept(p) : h <= i <=> f[h] <= f[i],
         \A i \in Kept(p) : q[f[i]] = p[i]
  PROVE  Place(p) = Place(q)
<1> DEFINE S == Kept(p)
           T == Kept(q)
<1>1. IsFiniteSet(T) /\ Cardinality(T) = Cardinality(S)
  BY FS_Bijection DEF ExistsBijection
<1>2. ASSUME NEW i \in S PROVE Rank(f[i], T) = Rank(i, S)
  <2> DEFINE H == {h \in S : h <= i}
             G == {h \in T : h <= f[i]}
             g == [h \in H |-> f[h]]
  <2>1. /\ f \in [S -> T]
        /\ \A h, k \in S : f[h] = f[k] => h = k
        /\ \A k \in T : \E h \in S : f[h] = k
    BY DEF Bijection, Injection, Surjection, IsInjective
  <2>2. g \in [H -> G]
    BY <2>1
  <2>3. \A h, k \in H : g[h] = g[k] => h = k
    BY <2>1
  <2>4. \A k \in G : \E h \in H : g[h] = k
    BY <2>1
  <2>5. g \in Bijection(H, G)
    BY <2>2, <2>3, <2>4 DEF Bijection, Injection, Surjection, IsInjective
  <2>6. IsFiniteSet(H)
    BY FS_Subset
  <2>7. Cardinality(G) = Cardinality(H)
    BY <2>5, <2>6, FS_Bijection DEF ExistsBijection
  <2>8. QED
    BY <2>7 DEF Rank
<1>3. ASSUME NEW n \in 1 .. Cardinality(S)
      PROVE  p[CHOOSE i \in S : Rank(i, S) = n] = q[CHOOSE i \in T : Rank(i, T) = n]
  <2> DEFINE i == CHOOSE i \in S : Rank(i, S) = n
             k == CHOOSE k \in T : Rank(k, T) = n
  <2>1. i \in S /\ Rank(i, S) = n
    BY RanksCount
  <2>2. k \in T /\ Rank(k, T) = n
    BY <1>1, RanksCount
  <2>3. f[i] \in T
    BY <2>1 DEF Bijection, Injection
  <2>4. Rank(f[i], T) = n
    BY <1>2, <2>1
  <2>5. f[i] = k
    BY <1>1, <2>2, <2>3, <2>4, RanksDiffer
  <2>6. QED
    BY <2>1, <2>5
<1>4. Place(p) = [n \in 1 .. Cardinality(S) |-> q[CHOOSE i \in T : Rank(i, T) = n]]
  <2> DEFINE P(n) == p[CHOOSE i \in S : Rank(i, S) = n]
             Q(n) == q[CHOOSE i \in T : Rank(i, T) = n]
  <2>1. Place(p) = [n \in 1 .. Cardinality(S) |-> P(n)]
    BY Zenon DEF Place
  <2>2. \A n \in 1 .. Cardinality(S) : P(n) = Q(n)
    BY <1>3, Zenon
  <2> HIDE DEF P, Q, S, T
  <2>3. [n \in 1 .. Cardinality(S) |-> P(n)] = [n \in 1 .. Cardinality(S) |-> Q(n)]
    BY <2>2
  <2>4. QED
    BY <2>1, <2>3, Zenon DEF P, Q, S, T
<1>5. QED
  BY <1>1, <1>4, Zenon DEF Place

Element == Name \cup {FILE_SEPARATOR, Space}

\* What is kept of a path are some of its finitely many positions.
LEMMA KeptIsFinite ==
  ASSUME NEW p \in Seq(Element)
  PROVE  Kept(p) \in SUBSET Nat /\ IsFiniteSet(Kept(p))
<1>1. Len(p) \in Nat /\ DOMAIN p = 1 .. Len(p)
  OBVIOUS
<1>2. IsFiniteSet(1 .. Len(p))
  <2>1. 1 \in Int /\ Len(p) \in Int
    BY <1>1
  <2>2. QED
    BY <2>1, FS_Interval
<1>3. Kept(p) \in SUBSET (1 .. Len(p))
  BY <1>1 DEF Kept
<1>4. QED
  BY <1>2, <1>3, FS_Subset

\* A file under a directory, name by name.
LEMMA UnderHas ==
  ASSUME NEW d \in Seq(Element), NEW n \in Element
  PROVE  /\ Under(d, <<n>>) \in Seq(Element)
         /\ Len(Under(d, <<n>>)) = Len(d) + 2
         /\ \A i \in 1 .. Len(d) : Under(d, <<n>>)[i] = d[i]
         /\ Under(d, <<n>>)[Len(d) + 1] = FILE_SEPARATOR
         /\ Under(d, <<n>>)[Len(d) + 2] = n
<1> DEFINE a == <<FILE_SEPARATOR>>
           b == <<n>>
           e == d \o a
<1>1. /\ a \in Seq(Element) /\ Len(a) = 1 /\ a[1] = FILE_SEPARATOR
      /\ b \in Seq(Element) /\ Len(b) = 1 /\ b[1] = n
  BY DEF Element
<1> HIDE DEF a, b
<1>2. /\ e \in Seq(Element) /\ Len(e) = Len(d) + 1
      /\ \A i \in 1 .. Len(d) : e[i] = d[i]
      /\ e[Len(d) + 1] = FILE_SEPARATOR
  BY <1>1, ConcatProperties
<1> HIDE DEF e
<1>3. /\ e \o b \in Seq(Element) /\ Len(e \o b) = Len(d) + 2
      /\ \A i \in 1 .. Len(d) + 1 : (e \o b)[i] = e[i]
      /\ (e \o b)[Len(d) + 2] = n
  <2>1. Len(d) \in Nat
    OBVIOUS
  <2>2. /\ e \o b \in Seq(Element) /\ Len(e \o b) = Len(e) + Len(b)
        /\ \A i \in 1 .. Len(e) + Len(b) :
             (e \o b)[i] = IF i <= Len(e) THEN e[i] ELSE b[i - Len(e)]
    BY <1>1, <1>2, ConcatProperties
  <2>3. QED
    BY <1>1, <1>2, <2>1, <2>2
<1>4. QED
  BY <1>2, <1>3 DEF Under, a, b, e

\* A name joined to a directory that ends in a separator is where it is under it: the
\* second separator names no other place.
LEMMA NoSecondSeparator ==
  ASSUME NEW d \in Seq(Element), EndsWithSeparator(d)
  PROVE  Place(Append(d, Config)) = Place(Under(d, <<Config>>))
<1> DEFINE p == Append(d, Config)
           q == Under(d, <<Config>>)
           m == Len(d)
           f == [i \in Kept(p) |-> IF i < m THEN i ELSE i + 1]
<1>1. Config \in Element /\ Config # FILE_SEPARATOR
  BY NamesAssumption DEF Element
<1>2. m \in Nat \ {0} /\ d[m] = FILE_SEPARATOR
  BY DEF EndsWithSeparator, Last
<1>3. /\ p \in Seq(Element) /\ Len(p) = m + 1 /\ DOMAIN p = 1 .. m + 1
      /\ \A i \in 1 .. m : p[i] = d[i]
      /\ p[m + 1] = Config
  BY <1>1, AppendProperties
<1>4. /\ q \in Seq(Element) /\ Len(q) = m + 2 /\ DOMAIN q = 1 .. m + 2
      /\ \A i \in 1 .. m : q[i] = d[i]
      /\ q[m + 1] = FILE_SEPARATOR /\ q[m + 2] = Config
  BY <1>1, UnderHas
<1> HIDE DEF p, q, m
<1>5. \A i \in Nat : i \in Kept(p) <=>
        \/ i \in 1 .. m - 1 /\ (d[i] = FILE_SEPARATOR => d[i + 1] # FILE_SEPARATOR)
        \/ i = m \/ i = m + 1
  BY <1>1, <1>2, <1>3 DEF Kept
<1>6. \A i \in Nat : i \in Kept(q) <=>
        \/ i \in 1 .. m - 1 /\ (d[i] = FILE_SEPARATOR => d[i + 1] # FILE_SEPARATOR)
        \/ i = m + 1 \/ i = m + 2
  BY <1>1, <1>2, <1>4 DEF Kept
<1>7. /\ Kept(p) \in SUBSET Nat /\ IsFiniteSet(Kept(p)) /\ Kept(q) \in SUBSET Nat
  BY <1>3, <1>4, KeptIsFinite
<1>8. f \in Bijection(Kept(p), Kept(q))
  <2>1. f \in [Kept(p) -> Kept(q)]
    BY <1>2, <1>5, <1>6, <1>7
  <2>2. \A h, i \in Kept(p) : f[h] = f[i] => h = i
    BY <1>2, <1>7
  <2>3. \A k \in Kept(q) : \E h \in Kept(p) : f[h] = k
    <3> SUFFICES ASSUME NEW k \in Kept(q) PROVE \E h \in Kept(p) : f[h] = k
      OBVIOUS
    <3>1. CASE k < m
      <4>1. k \in Kept(p) /\ f[k] = k
        BY <1>2, <1>5, <1>6, <1>7, <3>1
      <4>2. QED
        BY <4>1
    <3>2. CASE ~(k < m)
      <4>1. k - 1 \in Kept(p) /\ ~(k - 1 < m) /\ k \in Nat
        BY <1>2, <1>5, <1>6, <1>7, <3>2
      <4>2. f[k - 1] = k
        BY <4>1
      <4>3. QED
        BY <4>1, <4>2
    <3>3. QED
      BY <3>1, <3>2
  <2>4. QED
    BY <2>1, <2>2, <2>3 DEF Bijection, Injection, Surjection, IsInjective
<1>9. \A h, i \in Kept(p) : h <= i <=> f[h] <= f[i]
  BY <1>2, <1>7
<1>10. \A i \in Kept(p) : q[f[i]] = p[i]
  BY <1>2, <1>3, <1>4, <1>5, <1>7
<1>11. Place(p) = Place(q)
  <2> HIDE DEF f
  <2>1. QED
    BY <1>7, <1>8, <1>9, <1>10, SamePlace
<1>12. QED
  BY <1>11 DEF p, q

\* A name joined to any other directory is under it.
LEMMA JoinedIsUnder ==
  ASSUME NEW d \in Seq(Element), ~EndsWithSeparator(d)
  PROVE  Joined(d, Config) = Under(d, <<Config>>)
<1>1. <<FILE_SEPARATOR, Config>> = <<FILE_SEPARATOR>> \o <<Config>>
  BY NamesAssumption
<1>2. d \o (<<FILE_SEPARATOR>> \o <<Config>>) = (d \o <<FILE_SEPARATOR>>) \o <<Config>>
  <2>1. <<FILE_SEPARATOR>> \in Seq(Element) /\ <<Config>> \in Seq(Element)
    BY NamesAssumption DEF Element
  <2>2. QED
    BY <2>1, ConcatAssociative
<1>3. QED
  BY <1>1, <1>2 DEF Joined, Under

\* So the configuration directory is always in the repository.
LEMMA ConfigIsUnder ==
  ASSUME NEW d \in Seq(Element)
  PROVE  Place(Joined(d, Config)) = Place(Under(d, <<Config>>))
<1>1. CASE EndsWithSeparator(d)
  BY <1>1, NoSecondSeparator DEF Joined
<1>2. CASE ~EndsWithSeparator(d)
  BY <1>2, JoinedIsUnder
<1>3. QED
  BY <1>1, <1>2

\* In whatever container C++ sees itself, and however its variable is written, Java
\* sees one too, with the same directories and the same place for every file.
THEOREM FindTheSame == SurroundingsSpec => []SidesFindTheSame
<1>1. IInv => SidesFindTheSame
  <2> SUFFICES ASSUME IInv, InOpenShiftContainer(repo) PROVE SidesFindTheSame
    BY DEF SidesFindTheSame
  <2>1. PICK d \in Variable : repo = {d}
    BY DEF IInv, Read, InOpenShiftContainer
  <2>2. d \in Seq(Element) /\ d # <<>> /\ repo # {} /\ repo # {<<>>}
    BY <2>1, SurroundingsAssumption DEF InOpenShiftContainer, Element
  <2>3. GetRepoDir(repo) = Path(d) /\ JavaGetRepoDir(repo) = Path(d)
    BY <2>1, <2>2 DEF GetRepoDir, JavaGetRepoDir, Path
  <2>4. JavaInOpenShiftContainer(repo)
    BY <2>2 DEF JavaInOpenShiftContainer
  <2>5. GetConfigurationDir(repo) = Path(Joined(d, Config))
    BY <2>3 DEF GetConfigurationDir, Path
  <2>6. GetConfigurationDir(repo) = JavaGetConfigurationDir(repo)
    BY <2>3 DEF GetConfigurationDir, JavaGetConfigurationDir
  <2>7. Places(GetConfigurationDir(repo)) = Path(Place(Under(d, <<Config>>)))
    <3>1. Places(Path(Joined(d, Config))) = Path(Place(Joined(d, Config)))
      BY DEF Places, Path
    <3>2. QED
      BY <2>2, <2>5, <3>1, ConfigIsUnder
  <2>8. ASSUME NEW g \in File
        PROVE  /\ GetPath(repo, g) = GetRepoPath(repo, g)
               /\ GetPath(repo, g) = Path(IF StartsWithSeparator(g) THEN g ELSE Under(d, g))
    BY <2>3, <2>4 DEF GetPath, GetRepoPath, Path
  <2>9. QED
    BY <2>1, <2>3, <2>4, <2>6, <2>7, <2>8 DEF SidesFindTheSame, Path
<1>2. QED
  BY <1>1, InitIInv, NextIInv, PTL DEF SurroundingsSpec
=============================================================================
