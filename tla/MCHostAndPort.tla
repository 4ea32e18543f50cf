---------------------------- MODULE MCHostAndPort ----------------------------
(***************************************************************************)
(* HostAndPort on a small instance.                                        *)
(***************************************************************************)
EXTENDS HostAndPort

CONSTANTS w1, w2, b

\* Unsigned numbers of three bits: below the least and above the greatest that is
\* accepted, negative ones that wrap to a port and to none, the least and the
\* greatest port, and the first number that is not one.
MCWord    == {w1, w2}
MCNumeral == {-8, -7, -5, -1, 0, 1, 2, 3, 4, 8}

\* Words, blanks and numerals alone, a word with anything and with two numerals, and
\* a blank with a numeral.  They are ordered as they stand: any order will do.
MCStrings ==
  << <<w1>>, <<w2>>, <<b>>, <<-7>>, <<-1>>, <<0>>, <<3>>, <<4>>,
     <<w1, w2>>, <<w1, b>>, <<b, 3>>, <<w1, 0, 3>>,
     <<w1, -8>>, <<w1, -7>>, <<w1, -5>>, <<w1, -1>>, <<w1, 0>>, <<w1, 3>>, <<w1, 4>>, <<w1, 8>> >>

MCString == {MCStrings[i] : i \in DOMAIN MCStrings}

Places     == {p \in (DOMAIN MCStrings) \X (DOMAIN MCStrings) : p[1] < p[2]}
MCPrecedes == {<<MCStrings[p[1]], MCStrings[p[2]]>> : p \in Places}

\* Two words, and a host that has the delimiter in it.
MCHost == {<<w1>>, <<w2>>, <<w1, 3>>}
=============================================================================
