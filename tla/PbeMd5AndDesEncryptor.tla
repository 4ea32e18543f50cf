------------------------ MODULE PbeMd5AndDesEncryptor ------------------------
(***************************************************************************)
(* The C++ encryption of texts under a password: padding, the derivation   *)
(* of the key, encrypt and decrypt, and SharedSecretTextCryptoProvider,    *)
(* which calls them with a fixed salt and count.                           *)
(*                                                                         *)
(* A byte is a signed char.  MD5, DES in CBC mode and Base64 are ideal:    *)
(* different inputs have different digests, what was encrypted under one   *)
(* schedule is known again under the same schedule only, and is noise      *)
(* under any other.  A call is taken one digest at a time.                 *)
(***************************************************************************)
EXTENDS Integers, Sequences, FiniteSets

CONSTANTS ALGO_BLOCK_SIZE,
          Byte,         \* the signed chars
          Plain,        \* the texts that are encrypted
          Password,
          Salt,         \* the salts given, and the provider's:
          SALT,
          MinLong, MaxLong,  \* the least and the greatest long
          Asked,        \* the counts given as iterations, and the provider's:
          DefaultIterations,
          Weak,         \* the keys DES does not accept
          Leftover,     \* what may be in a schedule that was never set
          Noise,        \* the bytes of a wrong decryption
          MaxForeign,   \* bound: the bytes of a text that encrypt did not make
          MaxMade       \* bound: the encrypted texts kept

ASSUME EncryptorAssumption ==
  /\ ALGO_BLOCK_SIZE \in Nat \ {0}
  /\ Byte \subseteq Int /\ 0 .. ALGO_BLOCK_SIZE \subseteq Byte /\ Noise \subseteq Byte
  /\ Plain \subseteq Seq(Byte)
  /\ Salt \subseteq Seq(Byte) /\ SALT \in Salt /\ Len(SALT) >= ALGO_BLOCK_SIZE
  /\ MinLong \in Int /\ MaxLong \in Nat \ {0} /\ MinLong = -MaxLong - 1
  /\ Asked \subseteq MinLong .. MaxLong /\ DefaultIterations \in Asked
  /\ MaxForeign \in Nat /\ MaxMade \in Nat \ {0}

VARIABLES call,        \* the call under way, or the last one
          iterations,  \* generateDataHash's count
          digests,     \* the digests taken so far
          result,      \* what the call returns or throws
          made         \* encrypted texts the program has, and how it made them

vars == <<call, iterations, digests, result, made>>

Is(what)     == [is |-> what, of |-> {}]
Text(t)      == [is |-> "text", of |-> {t}]
Cipher(c)    == [is |-> "cipher", of |-> {c}]
Running      == result.is = "running"

(***************************************************************************)
(* Padding.  The pad is as many bytes as it takes to fill a block, at      *)
(* least one, each the size of the pad.  decrypt takes the last byte for   *)
(* that size unchecked: substr(0, length - pad) takes everything when the  *)
(* difference is negative (it is converted to an unsigned number) or more  *)
(* than there is.  Of no bytes at all it is some byte before the string    *)
(* that is taken, and nothing is left in any case.                         *)
(***************************************************************************)
\* Mutant: one byte short.
PaddingOneShort(p) == ALGO_BLOCK_SIZE - 1 - (Len(p) % ALGO_BLOCK_SIZE)
Padding(p) == ALGO_BLOCK_SIZE - (Len(p) % ALGO_BLOCK_SIZE)

\* Mutant: a text that fills its blocks is not padded.
PaddedIfNeeded(p) ==
  IF Len(p) % ALGO_BLOCK_SIZE = 0 THEN p ELSE p \o [i \in 1 .. Padding(p) |-> Padding(p)]
Padded(p) == p \o [i \in 1 .. Padding(p) |-> Padding(p)]

Unpadded(d) ==
  IF d # <<>> /\ d[Len(d)] \in 1 .. Len(d) THEN SubSeq(d, 1, Len(d) - d[Len(d)]) ELSE d

(***************************************************************************)
(* The key: a digest of the password and the first block of the salt,      *)
(* digested over and over.  A key that DES does not accept leaves the      *)
(* schedule as it was, and nobody looks.                                   *)
(***************************************************************************)
SaltSuffices(salt) == Len(salt) >= ALGO_BLOCK_SIZE

\* Mutant: all of the salt.
KeyOfAll(password, salt, n) == <<password, salt, n>>
Key(password, salt, n) == <<password, SubSeq(salt, 1, ALGO_BLOCK_SIZE), n>>
Schedules(key) == IF key \in Weak THEN Leftover ELSE {key}

\* Below the least long there is no number: the builds go on with the greatest.
Decremented(n) == IF n = MinLong THEN MaxLong ELSE n - 1

\* Mutant: the count is tested before it is decremented.
TestedFirst(n) == n # 0
GoesOn(n) == Decremented(n) # 0

(***************************************************************************)
(* Base64 and DES.  A text that encrypt did not make is Base64 of so many  *)
(* bytes, or, as -1, of none: BIO_read answers so.                         *)
(***************************************************************************)
Encoded(schedule, data) == [schedule |-> schedule, data |-> data]
Foreign == [length : -1 .. MaxForeign]
IsForeign(text) == "length" \in DOMAIN text

Decryptions(text, schedule) ==
  IF IsForeign(text) THEN [1 .. text.length -> Noise]
  ELSE IF text.schedule = schedule THEN {text.data}
  ELSE [1 .. Len(text.data) -> Noise]

(***************************************************************************)
(* The calls: of the encryptor's own functions, through the provider, and  *)
(* of PbeStringEncryptor's, which give no salt and one digest if the       *)
(* caller gives nothing else.                                              *)
(***************************************************************************)
Parameters ==
  {[via |-> "encryptor", password |-> p, salt |-> s, asked |-> n] :
       p \in Password, s \in Salt, n \in Asked}
  \cup {[via |-> "provider", password |-> p, salt |-> SALT, asked |-> DefaultIterations] :
            p \in Password}
  \cup {[via |-> "base", password |-> p, salt |-> <<>>, asked |-> 1] : p \in Password}

\* The provider makes one exception of all.
Thrown(par, what) == Is(IF par.via = "provider" THEN "SecurityException" ELSE what)

Calls(op, text) ==
  {[op |-> op, text |-> text, par |-> par] : par \in Parameters}

NoCall == [op |-> "none"]

Init ==
  /\ call = NoCall /\ result = Is("none")
  /\ iterations = 0 /\ digests = 0
  /\ made = {}

\* A text that is not Base64 is found out before the salt.
Refusals(c) ==
  IF c.op = "decrypt" /\ IsForeign(c.text) /\ c.text = [length |-> -1]
  THEN {Thrown(c.par, "length_error")}
  ELSE IF ~SaltSuffices(c.par.salt) THEN {Thrown(c.par, "StringEncryptorException")}
  ELSE {}

Refused(c) ==
  /\ result' \in Refusals(c)
  /\ UNCHANGED <<iterations, digests>>

\* The first digest, of password and salt.
Begun(c) ==
  /\ Refusals(c) = {}
  /\ result' = Is("running")
  /\ iterations' = c.par.asked /\ digests' = 1

Start(c) ==
  /\ ~Running
  /\ call' = c
  /\ Refused(c) \/ Begun(c)
  /\ UNCHANGED made

Encrypt == \E p \in Plain : \E c \in Calls("encrypt", [plain |-> p]) : Start(c)
Decrypt == \E t \in {m.cipher : m \in made} \cup Foreign :
              \E c \in Calls("decrypt", t) : Start(c)

\* Mutant: every turn of the loop begins again with the first digest and the whole count.
DigestAnew ==
  /\ Running /\ GoesOn(iterations)
  /\ iterations' = call.par.asked /\ digests' = 1
  /\ UNCHANGED <<call, result, made>>
Digest ==
  /\ Running /\ GoesOn(iterations)
  /\ iterations' = Decremented(iterations) /\ digests' = digests + 1
  /\ UNCHANGED <<call, result, made>>

\* The key is made.
KeyMade == Running /\ ~GoesOn(iterations) /\ iterations' = Decremented(iterations)
Made    == Schedules(Key(call.par.password, call.par.salt, digests))

EncryptEnds ==
  /\ KeyMade
  /\ call.op = "encrypt"
  /\ \E schedule \in Made :
        LET c == Encoded(schedule, Padded(call.text.plain))
        IN /\ result' = Cipher(c)
           /\ \E kept \in SUBSET made :
                 /\ Cardinality(kept) < MaxMade
                 /\ made' = kept \cup
                              {[cipher |-> c, plain |-> call.text.plain, par |-> call.par]}
  /\ UNCHANGED <<call, digests>>

DecryptEnds ==
  /\ KeyMade
  /\ call.op = "decrypt"
  /\ \E schedule \in Made : \E d \in Decryptions(call.text, schedule) :
        result' = Text(Unpadded(d))
  /\ UNCHANGED <<call, digests, made>>

Next == Encrypt \/ Decrypt \/ Digest \/ EncryptEnds \/ DecryptEnds

Spec == Init /\ [][Next]_vars

\* A call that was made runs.
FairSpec == Spec /\ WF_vars(Digest \/ EncryptEnds \/ DecryptEnds)

-----------------------------------------------------------------------------

\* A count of zero or less comes round to the greatest long.
Digests(asked) == IF asked >= 1 THEN asked ELSE asked + (MaxLong - MinLong + 1)

KeyFor(par) == Key(par.password, par.salt, Digests(par.asked))

SameKey(p, q) ==
  /\ p.password = q.password
  /\ SubSeq(p.salt, 1, ALGO_BLOCK_SIZE) = SubSeq(q.salt, 1, ALGO_BLOCK_SIZE)
  /\ p.asked = q.asked

\* The calls are those the program makes; a decryption answers with bytes, and what
\* is kept was encrypted from one of the texts.
TypeOK ==
  /\ call # NoCall => call.op \in {"encrypt", "decrypt"} /\ call.par \in Parameters
  /\ iterations \in MinLong .. MaxLong /\ digests \in 0 .. (MaxLong - MinLong + 1)
  /\ result.is \in {"none", "running", "text", "cipher", "length_error",
                     "StringEncryptorException", "SecurityException"}
  /\ result.is = "text" => result.of \subseteq Seq(Byte)
  /\ \A m \in made : /\ m.plain \in Plain /\ m.par \in Parameters
                     /\ Len(m.cipher.data) % ALGO_BLOCK_SIZE = 0

\* What encrypt made of a text, decrypt makes the text of again, given the same
\* password, a salt with the same first block and the same count, if DES accepts the
\* key: for every length of the text, empty and full blocks included, whatever its
\* last bytes are, and through the provider or not.
RoundTrip ==
  \A m \in made :
     result.is = "text" /\ call.text = m.cipher
     /\ SameKey(call.par, m.par) /\ KeyFor(m.par) \notin Weak
     => result.of = {m.plain}

\* What a program can tell providers apart by, if the salt suffices.
Secret(par) == <<par.password, SubSeq(par.salt, 1, ALGO_BLOCK_SIZE), par.asked>>

Sound(par) == SaltSuffices(par.salt) /\ KeyFor(par) \notin Weak

SoundPar == {par \in Parameters : Sound(par)}

Answered ==
  IF result.is \in {"none", "running"} \/ ~Sound(call.par) THEN Is("none")
  ELSE [op |-> call.op, by |-> Secret(call.par), text |-> call.text,
        of |-> IF result.is = "text" THEN {[plain |-> t] : t \in result.of} ELSE result.of]

Contract == INSTANCE TextCryptoProvider
  WITH Provider <- {Secret(par) : par \in SoundPar},
       Message  <- {[plain |-> p] : p \in Plain},
       None     <- Is("none"),
       issued   <- {[by |-> Secret(m.par), message |-> [plain |-> m.plain],
                      text |-> m.cipher] : m \in {n \in made : Sound(n.par)}},
       answer   <- Answered

\* With a salt that suffices and a key that DES accepts the encryptor keeps the promise
\* of a TextCryptoProvider: a text that encrypt has made is decrypted to what it was
\* made of, and never refused, through whichever interface the two calls are made, and
\* by everyone with the same password, first block of the salt and count.
ImplementsContract == Contract!Spec

\* A call that comes to its end has taken as many digests as it was asked to.
DigestedAsAsked ==
  result.is \in {"text", "cipher"} /\ call.par.asked >= 1 => digests = call.par.asked

\* A call that asks for at least one digest ends.
CallsEnd == (Running /\ call.par.asked >= 1) ~> ~Running
=============================================================================
