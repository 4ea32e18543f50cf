--------------------- MODULE MCPbeMd5AndDesEncryptor ---------------------
(***************************************************************************)
(* PbeMd5AndDesEncryptor with blocks of two bytes and longs of three bits. *)
(***************************************************************************)
EXTENDS PbeMd5AndDesEncryptor

CONSTANTS p1, p2, left1, left2

MCByte == -4 .. 3

\* Nothing, less than a block, a block that is like a pad, and one that ends like none.
MCPlain == {<<>>, <<1>>, <<2, 2>>, <<1, -1>>}

\* Too short, the provider's, and one with the same first block.
MCSALT == <<1, 2>>
MCSalt == {<<1>>, MCSALT, <<1, 2, 1>>}

MCMinLong == -4
MCAsked   == {0, 1, 3}
MCWeak    == {<<p2, MCSALT, 1>>}

\* The last byte of noise is a pad, or none.
MCNoise == {-1, 1}
=============================================================================
