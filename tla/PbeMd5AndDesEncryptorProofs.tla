--------------------- MODULE PbeMd5AndDesEncryptorProofs ---------------------
(***************************************************************************)
(* What is proved of PbeMd5AndDesEncryptor: the pad comes off again, the   *)
(* count is kept whatever the width of a long, and with both the round     *)
(* trip of every text.                                                     *)
(***************************************************************************)
EXTENDS PbeMd5AndDesEncryptor, SequenceTheorems, TLAPS

\* The pad is taken off again: for every text and every size of a block.
LEMMA UnpadsWhatItPads ==
  ASSUME NEW p \in Seq(Byte)
  PROVE  Unpadded(Padded(p)) = p /\ Padded(p) \in Seq(Byte)
<1> DEFINE n == Padding(p)
           u == [i \in 1 .. n |-> n]
           d == p \o u
<1>1. n \in 1 .. ALGO_BLOCK_SIZE /\ Len(p) \in Nat
  <2>1. Len(p) % ALGO_BLOCK_SIZE \in 0 .. (ALGO_BLOCK_SIZE - 1) /\ Len(p) \in Nat
    BY EncryptorAssumption
  <2>2. QED
    BY <2>1, EncryptorAssumption DEF Padding
<1> HIDE DEF n
<1>2. u \in Seq(Byte) /\ Len(u) = n /\ \A i \in 1 .. n : u[i] = n
  BY <1>1, EncryptorAssumption
<1> HIDE DEF u
<1>3. /\ d \in Seq(Byte) /\ Len(d) = Len(p) + n
      /\ \A i \in 1 .. Len(p) + n : d[i] = IF i <= Len(p) THEN p[i] ELSE u[i - Len(p)]
  BY <1>2, ConcatProperties
<1> HIDE DEF d
<1>4. Len(d) \in 1 .. Len(d) /\ d[Len(d)] = n /\ n \in 1 .. Len(d)
  BY <1>1, <1>2, <1>3
<1>5. d # <<>>
  BY <1>4
<1>6. Unpadded(d) = SubSeq(d, 1, Len(p))
  BY <1>1, <1>3, <1>4, <1>5 DEF Unpadded
<1>7. SubSeq(d, 1, Len(p)) = p
  <2> DEFINE e == SubSeq(d, 1, Len(p))
  <2>1. /\ e \in Seq(Byte) /\ Len(e) = Len(p)
        /\ \A i \in 1 .. Len(p) : e[i] = d[i]
    BY <1>1, <1>3
  <2> HIDE DEF e
  <2>2. e = p
    BY <1>1, <1>3, <2>1, SeqEqual
  <2>3. QED
    BY <2>2 DEF e
<1>8. Padded(p) = d
  BY DEF Padded, d, u, n
<1>9. QED
  BY <1>3, <1>6, <1>7, <1>8

(***************************************************************************)
(* The inductive invariant: how the count and the digests taken add up,    *)
(* and that what is kept was padded, under the schedule of its key.        *)
(***************************************************************************)
Longs == MaxLong - MinLong + 1

InCall ==
  /\ result.is \in {"running", "text", "cipher"} => call.par \in Parameters
  /\ Running /\ call.op = "encrypt" => \E p \in Plain : call.text = [plain |-> p]

Counts ==
  /\ Running =>
       /\ iterations \in MinLong .. MaxLong /\ digests \in Nat
       /\ iterations <= 0 => iterations <= call.par.asked /\ call.par.asked <= 0
       /\ digests = 1 - iterations + IF iterations >= 1 THEN Digests(call.par.asked)
                                                       ELSE call.par.asked
  /\ result.is \in {"text", "cipher"} => digests = Digests(call.par.asked)

KeepsPadded ==
  \A m \in made :
     /\ m.plain \in Plain /\ m.par \in Parameters
     /\ ~IsForeign(m.cipher) /\ m.cipher.data = Padded(m.plain)
     /\ KeyFor(m.par) \notin Weak => m.cipher.schedule = KeyFor(m.par)

IInv == InCall /\ Counts /\ KeepsPadded

\* The counts are longs.
LEMMA LongCounts ==
  /\ MinLong \in Int /\ MaxLong \in Nat \ {0} /\ MinLong = -MaxLong - 1
  /\ \A par \in Parameters : par.asked \in MinLong .. MaxLong
  BY EncryptorAssumption DEF Parameters

\* When the count comes to zero, the digests are those that were asked for.
LEMMA EndsAsAsked ==
  ASSUME InCall, Counts, KeyMade
  PROVE  digests = Digests(call.par.asked) /\ call.par \in Parameters
<1>1. call.par \in Parameters /\ Running /\ Decremented(iterations) = 0
  BY DEF InCall, KeyMade, GoesOn, Running
<1>2. iterations = 1
  BY <1>1, LongCounts DEF Counts, Decremented
<1>3. QED
  BY <1>1, <1>2, LongCounts DEF Counts, Digests

\* A call that encrypts has a text to encrypt.
LEMMA HasPlain ==
  ASSUME InCall, Running, call.op = "encrypt"
  PROVE  call.text.plain \in Plain /\ call.text = [plain |-> call.text.plain]
<1>1. PICK p \in Plain : call.text = [plain |-> p]
  BY DEF InCall
<1>2. call.text.plain = p
  BY <1>1
<1>3. QED
  BY <1>1, <1>2

\* Every step keeps count and digests adding up.
LEMMA CountsAreKept ==
  ASSUME IInv, [Next]_vars
  PROVE  InCall' /\ Counts'
<1>1. CASE Encrypt \/ Decrypt
  <2>1. PICK c : /\ Start(c) /\ c.par \in Parameters
                 /\ c.op = "encrypt" => \E p \in Plain : c.text = [plain |-> p]
    BY <1>1 DEF Encrypt, Decrypt, Calls
  <2>2. CASE Refused(c)
    <3>1. result'.is \in {"SecurityException", "length_error", "StringEncryptorException"}
      BY <2>2 DEF Refused, Refusals, Thrown, Is
    <3>2. QED
      BY <3>1 DEF InCall, Counts, Running
  <2>3. CASE Begun(c)
    <3>1. /\ result'.is = "running" /\ call' = c
          /\ iterations' = c.par.asked /\ digests' = 1
      BY <2>1, <2>3 DEF Begun, Is, Start
    <3>2. c.par.asked \in MinLong .. MaxLong
      BY <2>1, LongCounts
    <3>3. InCall'
      BY <2>1, <3>1 DEF InCall
    <3>4. Counts'
      BY <3>1, <3>2, LongCounts DEF Counts, Digests
    <3>5. QED
      BY <3>3, <3>4
  <2>4. QED
    BY <2>1, <2>2, <2>3 DEF Start
<1>2. CASE Digest
  <2>1. /\ Running /\ Running' /\ result' = result /\ call' = call
        /\ iterations' = Decremented(iterations) /\ iterations' # 0
        /\ digests' = digests + 1
    BY <1>2 DEF Digest, GoesOn, Running
  <2>2. call.par.asked \in MinLong .. MaxLong
    BY <2>1, LongCounts DEF IInv, InCall, Running
  <2>3. Counts'
    BY <2>1, <2>2, LongCounts DEF IInv, Counts, Decremented, Digests, Running
  <2>4. InCall'
    BY <2>1 DEF IInv, InCall
  <2>5. QED
    BY <2>3, <2>4
<1>3. CASE EncryptEnds \/ DecryptEnds
  <2>1. KeyMade /\ call' = call /\ digests' = digests /\ result'.is \in {"text", "cipher"}
    BY <1>3 DEF EncryptEnds, DecryptEnds, Cipher, Text
  <2>2. digests = Digests(call.par.asked) /\ call.par \in Parameters
    BY <2>1, EndsAsAsked DEF IInv
  <2>3. QED
    BY <2>1, <2>2 DEF InCall, Counts, Running, Digests
<1>4. CASE UNCHANGED vars
  BY <1>4 DEF IInv, InCall, Counts, Running, vars
<1>5. QED
  BY <1>1, <1>2, <1>3, <1>4 DEF Next

\* What is kept is padded, and under the schedule of its key.
LEMMA PaddedIsKept ==
  ASSUME IInv, [Next]_vars
  PROVE  KeepsPadded'
<1>1. CASE EncryptEnds
  <2>1. PICK schedule \in Made, kept \in SUBSET made :
          made' = kept \cup {[cipher |-> Encoded(schedule, Padded(call.text.plain)),
                               plain |-> call.text.plain, par |-> call.par]}
    BY <1>1 DEF EncryptEnds
  <2> DEFINE m == [cipher |-> Encoded(schedule, Padded(call.text.plain)),
                   plain |-> call.text.plain, par |-> call.par]
  <2>2. /\ digests = Digests(call.par.asked) /\ call.par \in Parameters
        /\ call.text.plain \in Plain
    BY <1>1, EndsAsAsked, HasPlain DEF EncryptEnds, IInv, KeyMade
  <2>3. KeyFor(call.par) \notin Weak => schedule = KeyFor(call.par)
    BY <2>1, <2>2 DEF Made, Schedules, KeyFor
  <2>4. ~IsForeign(m.cipher) /\ m.cipher.data = Padded(m.plain) /\ m.cipher.schedule = schedule
    BY DEF Encoded, IsForeign
  <2>5. /\ m.plain \in Plain /\ m.par \in Parameters /\ m.par = call.par
    BY <2>2
  <2> HIDE DEF m
  <2>6. \A k \in kept \cup {m} :
          /\ k.plain \in Plain /\ k.par \in Parameters
          /\ ~IsForeign(k.cipher) /\ k.cipher.data = Padded(k.plain)
          /\ KeyFor(k.par) \notin Weak => k.cipher.schedule = KeyFor(k.par)
    BY <2>3, <2>4, <2>5 DEF IInv, KeepsPadded
  <2>7. QED
    BY <2>1, <2>6 DEF KeepsPadded, m
<1>2. CASE UNCHANGED made
  BY <1>2 DEF IInv, KeepsPadded
<1>3. QED
  BY <1>1, <1>2 DEF Next, vars, Encrypt, Decrypt, Start, Digest, DecryptEnds

\* The invariant holds.
LEMMA IsInductive == Spec => []IInv
<1>1. Init => IInv
  BY DEF Init, IInv, InCall, Counts, KeepsPadded, Running, Is
<1>2. IInv /\ [Next]_vars => IInv'
  BY CountsAreKept, PaddedIsKept DEF IInv
<1>3. QED
  BY <1>1, <1>2, PTL DEF Spec

\* Whatever is asked for, and whatever the width of a long, a call that ends has
\* taken as many digests.
THEOREM Counted == Spec => []DigestedAsAsked
<1>1. IInv => DigestedAsAsked
  BY DEF IInv, Counts, DigestedAsAsked, Digests
<1>2. QED
  BY <1>1, IsInductive, PTL

\* A decryption with what the text was encrypted with.
LEMMA DecryptsBack ==
  ASSUME IInv, DecryptEnds, NEW m \in made,
         call.text = m.cipher, SameKey(call.par, m.par), KeyFor(m.par) \notin Weak
  PROVE  result'.of = {m.plain}
<1>1. /\ ~IsForeign(m.cipher) /\ m.cipher.data = Padded(m.plain)
      /\ m.cipher.schedule = KeyFor(m.par) /\ m.plain \in Seq(Byte)
  BY EncryptorAssumption DEF IInv, KeepsPadded
<1>2. KeyFor(call.par) = KeyFor(m.par)
  BY DEF SameKey, KeyFor, Key
<1>3. Key(call.par.password, call.par.salt, digests) = KeyFor(m.par)
  BY <1>2, EndsAsAsked DEF DecryptEnds, IInv, KeyFor
<1>4. Made = {m.cipher.schedule}
  BY <1>1, <1>3 DEF Made, Schedules
<1>5. Decryptions(call.text, m.cipher.schedule) = {Padded(m.plain)}
  BY <1>1 DEF Decryptions
<1>6. result' = Text(Unpadded(Padded(m.plain)))
  BY <1>4, <1>5 DEF DecryptEnds
<1>7. QED
  BY <1>1, <1>6, UnpadsWhatItPads DEF Text

\* For every size of a block, every text and every number of digests: with the same
\* password, first block of the salt and count, decrypt undoes encrypt.
THEOREM RoundTrips == Spec => []RoundTrip
<1>1. Init => RoundTrip
  BY DEF Init, RoundTrip
<1>2. ASSUME IInv, RoundTrip, [Next]_vars
      PROVE  RoundTrip'
  <2>1. CASE DecryptEnds
    <3>1. call' = call /\ made' = made
      BY <2>1 DEF DecryptEnds
    <3>2. QED
      BY <1>2, <2>1, <3>1, DecryptsBack DEF RoundTrip
  <2>2. CASE result'.is # "text"
    BY <2>2 DEF RoundTrip
  <2>3. CASE UNCHANGED vars
    BY <1>2, <2>3 DEF RoundTrip, vars
  <2>4. CASE Encrypt \/ Decrypt \/ Digest \/ EncryptEnds
    <3>1. CASE Encrypt \/ Decrypt
      <4>1. PICK c : Refused(c) \/ Begun(c)
        BY <3>1 DEF Encrypt, Decrypt, Start
      <4>2. result'.is # "text"
        BY <4>1 DEF Refused, Begun, Refusals, Thrown, Is
      <4>3. QED
        BY <2>2, <4>2
    <3>2. CASE Digest
      BY <2>2, <3>2 DEF Digest, Running
    <3>3. CASE EncryptEnds
      BY <2>2, <3>3 DEF EncryptEnds, Cipher
    <3>4. QED
      BY <2>4, <3>1, <3>2, <3>3
  <2>5. QED
    BY <1>2, <2>1, <2>3, <2>4 DEF Next
<1>3. QED
  BY <1>1, <1>2, IsInductive, PTL DEF Spec

-----------------------------------------------------------------------------

\* What is issued, as the contract sees it.
Issued == {[by |-> Secret(m.par), message |-> [plain |-> m.plain], text |-> m.cipher] :
             m \in {n \in made : Sound(n.par)}}

Nobody == Is("none")

\* While a call is under way, and after one that is not sound, there is no answer.
LEMMA NoAnswer ==
  ASSUME result'.is \in {"none", "running"} \/ ~Sound(call'.par), made' = made
  PROVE  Contract!Next
<1>1. Answered' = Nobody
  BY DEF Answered, Nobody
<1>2. Issued' = Issued
  BY DEF Issued, Secret, Sound, KeyFor
<1>3. QED
  BY <1>1, <1>2 DEF Contract!Next, Contract!Elsewhere, Issued, Nobody

\* A call that is refused has issued nothing, and was not given what is issued.
LEMMA RefusalsImplement ==
  ASSUME IInv, NEW c, c.par \in Parameters, c.op \in {"encrypt", "decrypt"},
         c.op = "encrypt" => \E p \in Plain : c.text = [plain |-> p],
         Start(c)
  PROVE  Contract!Next
<1>1. call' = c /\ made' = made
  BY DEF Start
<1>2. CASE Begun(c)
  BY <1>1, <1>2, NoAnswer DEF Begun, Is
<1>3. CASE Refused(c) /\ ~Sound(c.par)
  BY <1>1, <1>3, NoAnswer
<1>4. CASE Refused(c) /\ Sound(c.par)
  <2>1. /\ c.op = "decrypt" /\ IsForeign(c.text)
        /\ \E what \in {"length_error", "SecurityException"} : result' = Is(what)
    BY <1>4 DEF Refused, Refusals, Sound, Thrown
  <2>2. Answered' = [op |-> "decrypt", by |-> Secret(c.par), text |-> c.text, of |-> {}]
    <3>1. result'.is \in {"length_error", "SecurityException"} /\ result'.of = {}
      BY <2>1 DEF Is
    <3>2. QED
      BY <1>1, <1>4, <2>1, <3>1 DEF Answered
  <2>3. Issued' = Issued
    BY <1>1 DEF Issued, Secret, Sound, KeyFor
  <2>4. \A i \in Issued : i.text # c.text
    BY <2>1 DEF IInv, KeepsPadded, Issued
  <2>5. Answered' # Nobody
    BY <2>2 DEF Nobody, Is
  <2>6. Secret(c.par) \in {Secret(par) : par \in SoundPar}
    BY <1>4 DEF SoundPar
  <2>7. Contract!Decrypt
    BY <2>2, <2>3, <2>4, <2>5, <2>6 DEF Contract!Decrypt, Contract!Answers, Issued, Nobody
  <2>8. QED
    BY <2>7 DEF Contract!Next
<1>5. QED
  BY <1>2, <1>3, <1>4 DEF Start

\* An encryption that ends has issued its text.
LEMMA EncryptionsImplement ==
  ASSUME IInv, EncryptEnds
  PROVE  Contract!Next
<1>1. /\ call' = call /\ call.op = "encrypt" /\ call.text.plain \in Plain
      /\ call.text = [plain |-> call.text.plain] /\ call.par \in Parameters
  BY EndsAsAsked, HasPlain DEF EncryptEnds, IInv, KeyMade
<1>2. PICK schedule \in Made, kept \in SUBSET made :
        /\ result' = Cipher(Encoded(schedule, Padded(call.text.plain)))
        /\ made' = kept \cup {[cipher |-> Encoded(schedule, Padded(call.text.plain)),
                               plain |-> call.text.plain, par |-> call.par]}
  BY DEF EncryptEnds
<1> DEFINE c == Encoded(schedule, Padded(call.text.plain))
           new == [by |-> Secret(call.par), message |-> call.text, text |-> c]
<1>3. Issued' \subseteq Issued \cup {new} /\ (~Sound(call.par) => Issued' \subseteq Issued)
  BY <1>1, <1>2 DEF Issued
<1>4. CASE ~Sound(call.par)
  <2>1. Answered' = Nobody
    BY <1>1, <1>4 DEF Answered, Nobody
  <2>2. QED
    BY <1>3, <1>4, <2>1 DEF Contract!Next, Contract!Elsewhere, Issued, Nobody
<1>5. CASE Sound(call.par)
  <2>1. result'.is = "cipher" /\ result'.of = {c}
    BY <1>2 DEF Cipher
  <2>2. Answered' = [op |-> "encrypt", by |-> Secret(call.par), text |-> call.text, of |-> {c}]
    BY <1>1, <1>5, <2>1 DEF Answered
  <2>3. new \in Issued'
    <3> DEFINE m == [cipher |-> c, plain |-> call.text.plain, par |-> call.par]
    <3>1. m \in made' /\ m.par = call.par /\ m.plain = call.text.plain /\ m.cipher = c
      BY <1>2
    <3>2. QED
      BY <1>1, <1>5, <3>1 DEF Issued
  <2>4. Answered' # Nobody
    BY <2>2 DEF Nobody, Is
  <2>5. /\ Secret(call.par) \in {Secret(par) : par \in SoundPar}
        /\ call.text \in {[plain |-> p] : p \in Plain}
    BY <1>1, <1>5 DEF SoundPar
  <2> HIDE DEF c
  <2>6. {[by |-> Answered'.by, message |-> Answered'.text, text |-> x] : x \in Answered'.of}
          = {new}
    BY <2>2
  <2>7. Contract!Encrypt
    BY <1>3, <2>2, <2>3, <2>4, <2>5, <2>6
       DEF Contract!Encrypt, Contract!Answers, Issued, Nobody
  <2>8. QED
    BY <2>7 DEF Contract!Next
<1>6. QED
  BY <1>4, <1>5

\* A decryption that ends gives the message of what was issued.
LEMMA DecryptionsImplement ==
  ASSUME IInv, DecryptEnds
  PROVE  Contract!Next
<1>1. /\ call' = call /\ made' = made /\ call.op = "decrypt"
      /\ call.par \in Parameters /\ result'.is = "text"
  BY EndsAsAsked DEF DecryptEnds, IInv, Text
<1>2. CASE ~Sound(call.par)
  BY <1>1, <1>2, NoAnswer
<1>3. CASE Sound(call.par)
  <2>1. Answered' = [op |-> "decrypt", by |-> Secret(call.par), text |-> call.text,
                     of |-> {[plain |-> t] : t \in result'.of}]
    BY <1>1, <1>3 DEF Answered
  <2>2. ASSUME NEW i \in Issued, i.by = Secret(call.par), i.text = call.text
        PROVE  {[plain |-> t] : t \in result'.of} = {i.message}
    <3>1. PICK m \in made : /\ Sound(m.par) /\ i.by = Secret(m.par)
                            /\ i.message = [plain |-> m.plain] /\ i.text = m.cipher
      BY DEF Issued
    <3>2. SameKey(call.par, m.par) /\ KeyFor(m.par) \notin Weak
      <4>1. Secret(call.par) = Secret(m.par)
        BY <2>2, <3>1
      <4>2. QED
        BY <3>1, <4>1 DEF SameKey, Secret, Sound
    <3>3. result'.of = {m.plain}
      BY <2>2, <3>1, <3>2, DecryptsBack
    <3>4. QED
      BY <3>1, <3>3
  <2>3. Issued' = Issued
    BY <1>1 DEF Issued
  <2>4. Answered' # Nobody
    BY <2>1 DEF Nobody, Is
  <2>5. Secret(call.par) \in {Secret(par) : par \in SoundPar}
    BY <1>1, <1>3 DEF SoundPar
  <2>6. Contract!Decrypt
    BY <2>1, <2>2, <2>3, <2>4, <2>5 DEF Contract!Decrypt, Contract!Answers, Issued, Nobody
  <2>7. QED
    BY <2>6 DEF Contract!Next
<1>4. QED
  BY <1>2, <1>3

\* For every size of a block, every text, password, salt and count, the encryptor keeps
\* the promise of a TextCryptoProvider wherever the salt suffices and DES accepts the
\* key.
THEOREM Implements == Spec => ImplementsContract
<1>1. Init => Contract!Init
  BY DEF Init, Contract!Init, Issued, Nobody, Answered, Is
<1>2. ASSUME IInv, [Next]_vars
      PROVE  [Contract!Next]_Contract!vars
  <2>1. CASE Encrypt \/ Decrypt
    <3>1. PICK c : /\ Start(c) /\ c.par \in Parameters /\ c.op \in {"encrypt", "decrypt"}
                   /\ c.op = "encrypt" => \E p \in Plain : c.text = [plain |-> p]
      BY <2>1 DEF Encrypt, Decrypt, Calls
    <3>2. QED
      BY <1>2, <3>1, RefusalsImplement
  <2>2. CASE Digest
    BY <2>2, NoAnswer DEF Digest, Running
  <2>3. CASE EncryptEnds
    BY <1>2, <2>3, EncryptionsImplement
  <2>4. CASE DecryptEnds
    BY <1>2, <2>4, DecryptionsImplement
  <2>5. CASE UNCHANGED vars
    BY <2>5 DEF vars, Contract!vars, Answered, Issued, Secret, Sound, KeyFor
  <2>6. QED
    BY <1>2, <2>1, <2>2, <2>3, <2>4, <2>5 DEF Next
<1>3. QED
  BY <1>1, <1>2, IsInductive, PTL DEF Spec, ImplementsContract, Contract!Spec

(***************************************************************************)
(* The types.                                                              *)
(***************************************************************************)

\* A number of whole blocks leaves no rest.
LEMMA WholeBlocks ==
  ASSUME NEW n \in Nat \ {0}, NEW q \in Int
  PROVE  (n * q) % n = 0
<1> DEFINE x == n * q
           e == x \div n
           r == x % n
<1>1. x \in Int /\ e \in Int /\ r \in 0 .. n - 1 /\ x = n * e + r
  OBVIOUS
<1>2. n * (q - e) = r
  BY <1>1
<1>3. ~(q - e >= 1)
  <2> SUFFICES ASSUME q - e >= 1 PROVE FALSE
    OBVIOUS
  <2>1. n * (q - e) >= n
    OBVIOUS
  <2>2. QED
    BY <1>1, <1>2, <2>1
<1>4. ~(q - e <= -1)
  <2> SUFFICES ASSUME q - e <= -1 PROVE FALSE
    OBVIOUS
  <2>1. n * (q - e) <= -n
    OBVIOUS
  <2>2. QED
    BY <1>1, <1>2, <2>1
<1>5. q = e
  BY <1>1, <1>3, <1>4
<1>6. QED
  BY <1>1, <1>2, <1>5

\* A padded text is of whole blocks.
LEMMA PaddedIsWhole ==
  ASSUME NEW p \in Seq(Byte)
  PROVE  Len(Padded(p)) % ALGO_BLOCK_SIZE = 0
<1> DEFINE B == ALGO_BLOCK_SIZE
           n == Padding(p)
           l == Len(p)
           q == l \div B
           u == [i \in 1 .. n |-> n]
<1>1. B \in Nat \ {0} /\ l \in Nat
  BY EncryptorAssumption
<1>2. q \in Int /\ l = B * q + (l % B) /\ l % B \in 0 .. B - 1
  <2> HIDE DEF l
  <2>1. QED
    BY <1>1
<1>3. n = B - (l % B)
  BY DEF Padding
<1>4. l + n = B * (q + 1)
  <2> HIDE DEF l, n, q
  <2>1. l + n = B * q + B
    BY <1>1, <1>2, <1>3
  <2>2. QED
    BY <1>1, <1>2, <2>1
<1>5. Len(p \o u) = l + n
  <2>1. n \in Nat /\ n \in Byte
    BY <1>1, <1>2, <1>3, EncryptorAssumption
  <2> HIDE DEF n, l
  <2>2. u \in Seq(Byte) /\ Len(u) = n
    BY <2>1
  <2> HIDE DEF u
  <2>3. QED
    BY <2>2, ConcatProperties DEF l
<1>6. (B * (q + 1)) % B = 0
  BY <1>1, <1>2, WholeBlocks
<1>7. Padded(p) = p \o u
  BY DEF Padded
<1>8. QED
  BY <1>4, <1>5, <1>6, <1>7

\* What a decryption is given.
Readable(t) == IF IsForeign(t) THEN t.length \in Int ELSE t.data \in Seq(Byte)

TInv == TypeOK /\ (Running /\ call.op = "decrypt" => Readable(call.text))

\* Whatever is decrypted, under whatever schedule, the pad is taken off bytes.
LEMMA DecryptsToBytes ==
  ASSUME NEW t, Readable(t), NEW schedule, NEW d \in Decryptions(t, schedule)
  PROVE  Unpadded(d) \in Seq(Byte)
<1>1. d \in Seq(Byte)
  <2>1. ASSUME NEW n \in Int, d \in [1 .. n -> Noise] PROVE d \in Seq(Byte)
    <3>1. d \in [1 .. n -> Byte]
      BY <2>1, EncryptorAssumption
    <3>2. CASE n \in Nat
      BY <3>1, <3>2
    <3>3. CASE n \notin Nat
      <4>1. 1 .. n = 1 .. 0
        BY <3>3
      <4>2. d \in [1 .. 0 -> Byte]
        BY <3>1, <4>1
      <4>3. QED
        BY <4>2
    <3>4. QED
      BY <3>2, <3>3
  <2>2. CASE IsForeign(t)
    BY <2>1, <2>2 DEF Decryptions, Readable
  <2>3. CASE ~IsForeign(t)
    <3>1. t.data \in Seq(Byte) /\ Len(t.data) \in Int
      BY <2>3 DEF Readable
    <3>2. QED
      BY <2>1, <2>3, <3>1 DEF Decryptions
  <2>4. QED
    BY <2>2, <2>3
<1>2. CASE d # <<>> /\ d[Len(d)] \in 1 .. Len(d)
  <2> DEFINE k == Len(d) - d[Len(d)]
  <2>1. Len(d) \in Nat /\ d[Len(d)] \in Int /\ k \in 0 .. Len(d)
    BY <1>1, <1>2
  <2>2. \A i \in 1 .. k : d[i] \in Byte
    BY <1>1, <2>1
  <2>3. SubSeq(d, 1, k) \in Seq(Byte)
    BY <2>1, <2>2, SubSeqProperties
  <2>4. QED
    BY <1>2, <2>3 DEF Unpadded
<1>3. CASE ~(d # <<>> /\ d[Len(d)] \in 1 .. Len(d))
  BY <1>1, <1>3 DEF Unpadded
<1>4. QED
  BY <1>2, <1>3

\* Every step keeps the types.
LEMMA NextTInv ==
  ASSUME IInv, IInv', TInv, [Next]_vars
  PROVE  TInv'
<1>1. CASE Encrypt \/ Decrypt
  <2>1. PICK c : /\ Start(c) /\ c.par \in Parameters /\ c.op \in {"encrypt", "decrypt"}
                 /\ c.op = "decrypt" => c.text \in {m.cipher : m \in made} \cup Foreign
    BY <1>1 DEF Encrypt, Decrypt, Calls
  <2>2. ASSUME c.op = "decrypt" PROVE Readable(c.text)
    <3>1. CASE c.text \in Foreign
      <4>1. PICK n \in -1 .. MaxForeign : c.text = [length |-> n]
        BY <3>1 DEF Foreign
      <4>2. QED
        BY <4>1, EncryptorAssumption DEF Readable, IsForeign
    <3>2. ASSUME NEW m \in made, c.text = m.cipher PROVE Readable(c.text)
      <4>1. m.plain \in Seq(Byte) /\ ~IsForeign(m.cipher) /\ m.cipher.data = Padded(m.plain)
        BY EncryptorAssumption DEF IInv, KeepsPadded
      <4>2. QED
        BY <3>2, <4>1, UnpadsWhatItPads DEF Readable
    <3>3. QED
      BY <2>1, <2>2, <3>1, <3>2
  <2>3. call' = c /\ UNCHANGED made
    BY <2>1 DEF Start
  <2>4. CASE Refused(c)
    <3>1. result'.is \in {"SecurityException", "length_error", "StringEncryptorException"}
          /\ UNCHANGED <<iterations, digests>>
      BY <2>4 DEF Refused, Refusals, Thrown, Is
    <3>2. QED
      BY <2>1, <2>3, <3>1 DEF TInv, TypeOK, Running
  <2>5. CASE Begun(c)
    <3>1. result'.is = "running" /\ iterations' = c.par.asked
      BY <2>5 DEF Begun, Is
    <3>2. digests' \in 0 .. (MaxLong - MinLong + 1) /\ iterations' \in MinLong .. MaxLong
      <4>1. digests' = 1 /\ 1 \in 0 .. (MaxLong - MinLong + 1)
        BY <2>5, LongCounts DEF Begun
      <4>2. QED
        BY <2>1, <3>1, <4>1, LongCounts
    <3>3. QED
      BY <2>1, <2>2, <2>3, <3>1, <3>2 DEF TInv, TypeOK
  <2>6. QED
    BY <2>1, <2>4, <2>5 DEF Start
<1>2. CASE Digest
  <2>1. Running' /\ UNCHANGED <<call, result, made>>
    BY <1>2 DEF Digest, Running
  <2>2. digests' \in 0 .. (MaxLong - MinLong + 1)
    <3>1. call.par.asked \in MinLong .. MaxLong
      BY <1>2, LongCounts DEF Digest, IInv, InCall, Running
    <3>2. /\ digests' \in Nat /\ iterations' \in MinLong .. MaxLong
          /\ digests' = 1 - iterations' + IF iterations' >= 1 THEN Digests(call.par.asked)
                                                             ELSE call.par.asked
          /\ iterations' <= 0 => call.par.asked <= 0
      BY <2>1 DEF IInv, Counts
    <3>3. QED
      BY <3>1, <3>2, LongCounts DEF Digests
  <2>3. iterations' \in MinLong .. MaxLong
    BY <2>1 DEF IInv, Counts
  <2>4. QED
    BY <2>1, <2>2, <2>3 DEF TInv, TypeOK, Running
<1>3. CASE EncryptEnds \/ DecryptEnds
  <2>1. KeyMade /\ call' = call /\ digests' = digests /\ Running
    BY <1>3 DEF EncryptEnds, DecryptEnds, KeyMade
  <2>2. iterations' = 0 /\ 0 \in MinLong .. MaxLong
    BY <2>1, LongCounts DEF KeyMade, GoesOn
  <2>3. digests' \in 0 .. (MaxLong - MinLong + 1)
    BY <2>1 DEF TInv, TypeOK
  <2>4. ASSUME NEW m \in made'
        PROVE  m.plain \in Plain /\ m.par \in Parameters
               /\ Len(m.cipher.data) % ALGO_BLOCK_SIZE = 0
    <3>1. m.plain \in Plain /\ m.par \in Parameters /\ m.cipher.data = Padded(m.plain)
      BY DEF IInv, KeepsPadded
    <3>2. QED
      BY <3>1, PaddedIsWhole, EncryptorAssumption
  <2>5. call # NoCall => call.op \in {"encrypt", "decrypt"} /\ call.par \in Parameters
    BY DEF TInv, TypeOK
  <2>6. CASE EncryptEnds
    <3>1. result'.is = "cipher"
      BY <2>6 DEF EncryptEnds, Cipher
    <3>2. QED
      BY <2>1, <2>2, <2>3, <2>4, <2>5, <3>1 DEF TInv, TypeOK, Running
  <2>7. CASE DecryptEnds
    <3>1. PICK schedule \in Made : \E d \in Decryptions(call.text, schedule) :
             result' = Text(Unpadded(d))
      BY <2>7 DEF DecryptEnds
    <3>2. \A d \in Decryptions(call.text, schedule) : Unpadded(d) \in Seq(Byte)
      BY <2>1, <2>7, DecryptsToBytes DEF DecryptEnds, TInv
    <3>3. result'.is = "text" /\ result'.of \subseteq Seq(Byte)
      BY <3>1, <3>2 DEF Text
    <3>4. QED
      BY <2>1, <2>2, <2>3, <2>4, <2>5, <3>3 DEF TInv, TypeOK, Running
  <2>8. QED
    BY <1>3, <2>6, <2>7
<1>4. CASE UNCHANGED vars
  BY <1>4 DEF vars, TInv, TypeOK, Running
<1>5. QED
  BY <1>1, <1>2, <1>3, <1>4 DEF Next

\* For a long of any width and every size of a block, the counts stay within their
\* bounds, whatever is asked for, and what is kept is of whole blocks.
THEOREM TypeCorrect == Spec => []TypeOK
<1>1. Init => TInv
  <2>1. ASSUME Init PROVE 0 \in MinLong .. MaxLong /\ 0 \in 0 .. (MaxLong - MinLong + 1)
    BY LongCounts
  <2>2. QED
    BY <2>1 DEF Init, TInv, TypeOK, Running, Is
<1>2. IInv /\ IInv' /\ TInv /\ [Next]_vars => TInv'
  BY NextTInv
<1>3. TInv => TypeOK
  BY DEF TInv
<1>4. QED
  BY <1>1, <1>2, <1>3, IsInductive, PTL DEF Spec
=============================================================================
