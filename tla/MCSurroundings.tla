--------------------------- MODULE MCSurroundings ---------------------------
(***************************************************************************)
(* Surroundings with days of two hours of three minutes and numbers of     *)
(* one, two and three bits.                                                *)
(***************************************************************************)
EXTENDS Surroundings

CONSTANTS sep, blank, dir, config, file, true, false, yes, word, half, vast, vaster,
          nan, infinity

\* Empty, blank, the root, relative and absolute, with and without separators at the
\* end, with a blank and with a doubled separator.
MCVariable ==
  { <<>>, <<blank>>, <<blank, blank>>, <<sep>>, <<dir>>, <<sep, dir>>, <<sep, dir, sep>>,
    <<sep, dir, sep, sep>>, <<sep, sep, dir>>, <<dir, sep, config>>, <<blank, sep, dir>>,
    <<sep, dir, blank>> }

MCFile == { <<>>, <<file>>, <<sep>>, <<sep, file>>, <<dir, sep, file>>, <<file, sep>>,
            <<blank, file>> }

\* Numbers at the bounds of every width and past them, and every way to spell them.
MCText ==
  [says : {-5, -2, -1, 0, 1, 2, 4, 5, half, vast, vaster, nan, infinity, true, false, yes,
           word}, spelled : {"plain"}, blanks : {FALSE}]
    \cup [says : {1, half, vaster, nan, true}, spelled : {"plain"}, blanks : {TRUE}]
    \cup [says : {nan, infinity}, spelled : {"lexical"}, blanks : BOOLEAN]
    \cup [says : {1, half, vast, vaster}, spelled : {"java"}, blanks : {FALSE}]

\* Too large for a float: an integer past the longest one and two decimals, of which one
\* is too large for a double as well.
MCFloatHuge == {5, vast, vaster}

\* East and west of UTC, by parts of an hour and by more.
MCOffset == {-4, -2, -1, 0, 1, 3, 5}
=============================================================================
