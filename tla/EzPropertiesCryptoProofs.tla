----------------------- MODULE EzPropertiesCryptoProofs -----------------------
(***************************************************************************)
(* What holds of EzPropertiesCrypto for any number of threads, keys and    *)
(* providers.                                                              *)
(***************************************************************************)
EXTENDS EzPropertiesCrypto, SequenceTheorems, TLAPS

Known == Provider \cup {Null}

Deciphers == {"getCheck", "getDecrypt"}

Typed ==
  /\ cryptoProvider \in Known
  /\ visible \in [Thread -> SUBSET Known]
  /\ during \in [Thread -> SUBSET Known]
  /\ pc \in [Thread -> {"idle", "setCheck", "setEncrypt", "setStore", "getFetch"}
                         \cup Deciphers]

\* The provider of the moment is always among those that were current during a call,
\* so a call that takes the monitor sees nothing else.
Fresh(t) ==
  /\ pc[t] # "idle" => cryptoProvider \in during[t]
  /\ pc[t] \in Deciphers => visible[t] \subseteq during[t]

IInv == Typed /\ \A t \in Thread : Fresh(t)

\* Nobody is in a call at first.
LEMMA InitIInv == Init => IInv
BY DEF Init, IInv, Typed, Fresh, Known, Deciphers

\* What one thread does, other than setting the provider, leaves the others alone.
LEMMA OthersStayFresh ==
  ASSUME IInv, NEW t \in Thread, UNCHANGED cryptoProvider,
         \A u \in Thread \ {t} : pc'[u] = pc[u] /\ visible'[u] = visible[u]
                                                /\ during'[u] = during[u],
         Typed', Fresh(t)'
  PROVE  IInv'
<1>1. ASSUME NEW u \in Thread PROVE Fresh(u)'
  <2>1. CASE u = t
    BY <2>1
  <2>2. CASE u # t
    BY <2>2 DEF IInv, Fresh
  <2>3. QED
    BY <2>1, <2>2
<1>2. QED
  BY <1>1 DEF IInv

\* A call that begins has read nothing.
LEMMA BeginningKeepsIInv ==
  ASSUME IInv, NEW t \in Thread, NEW to \in {"setCheck", "getFetch"}, NEW call,
         Begin(t, to, call), UNCHANGED <<cryptoProvider, visible>>
  PROVE  IInv'
<1>1. /\ pc' = [pc EXCEPT ![t] = to]
      /\ during' = [during EXCEPT ![t] = {cryptoProvider}]
  BY DEF Begin, Goto
<1>2. /\ Typed'
      /\ \A u \in Thread \ {t} : pc'[u] = pc[u] /\ visible'[u] = visible[u]
                                               /\ during'[u] = during[u]
  BY <1>1 DEF IInv, Typed
<1>3. Fresh(t)'
  BY <1>1 DEF IInv, Typed, Fresh, Deciphers
<1>4. QED
  BY <1>2, <1>3, OthersStayFresh

\* A call that ends: what it can see no longer matters.
LEMMA EndingKeepsIInv ==
  ASSUME IInv, NEW t \in Thread, NEW from, NEW how, End(t, from, how),
         UNCHANGED cryptoProvider, Synchronizes(t) \/ UNCHANGED visible
  PROVE  IInv'
<1>1. /\ pc' = [pc EXCEPT ![t] = "idle"]
      /\ during' = [during EXCEPT ![t] = {}]
  BY DEF End, Goto
<1>2. /\ visible' \in [Thread -> SUBSET Known]
      /\ \A u \in Thread \ {t} : visible'[u] = visible[u]
  BY DEF IInv, Typed, Synchronizes
<1>3. /\ Typed'
      /\ \A u \in Thread \ {t} : pc'[u] = pc[u] /\ during'[u] = during[u]
  BY <1>1, <1>2 DEF IInv, Typed
<1>4. Fresh(t)'
  BY <1>1 DEF IInv, Typed, Fresh, Deciphers
<1>5. QED
  BY <1>2, <1>3, <1>4, OthersStayFresh

\* A call that goes on without the monitor.
LEMMA GoingOnKeepsIInv ==
  ASSUME IInv, NEW t \in Thread,
         NEW from \in {"setCheck", "setEncrypt", "getCheck", "getDecrypt"},
         NEW to \in {"setEncrypt", "setStore", "getCheck", "getDecrypt"},
         to \in Deciphers => from \in Deciphers,
         Goto(t, from, to), UNCHANGED <<cryptoProvider, visible, during>>
  PROVE  IInv'
<1>1. pc[t] = from /\ pc' = [pc EXCEPT ![t] = to]
  BY DEF Goto
<1>2. /\ Typed'
      /\ \A u \in Thread \ {t} : pc'[u] = pc[u] /\ visible'[u] = visible[u]
                                               /\ during'[u] = during[u]
  BY <1>1 DEF IInv, Typed, Deciphers
<1>3. Fresh(t)'
  BY <1>1 DEF IInv, Typed, Fresh, Deciphers
<1>4. QED
  BY <1>2, <1>3, OthersStayFresh

\* Every step keeps the invariant, if the table's methods lock the object.
LEMMA NextIInv == TableLocksObject /\ IInv /\ [Next]_vars => IInv'
<1> SUFFICES ASSUME TableLocksObject, IInv, [Next]_vars PROVE IInv'
  OBVIOUS
<1>1. CASE UNCHANGED vars
  BY <1>1 DEF vars, IInv, Typed, Fresh
<1>2. ASSUME NEW t \in Thread, NEW p \in Provider \cup {Null}, SetTextCryptoProvider(t, p)
      PROVE  IInv'
  <2>1. Typed'
    BY <1>2 DEF SetTextCryptoProvider, IInv, Typed, Known
  <2>2. ASSUME NEW u \in Thread PROVE Fresh(u)'
    BY <1>2, CryptoAssumption DEF SetTextCryptoProvider, IInv, Typed, Fresh, Deciphers
  <2>3. QED
    BY <2>1, <2>2 DEF IInv
<1>3. ASSUME NEW t \in Thread, NEW k \in Key, NEW x \in Text, SetPlain(t, k, x)
      PROVE  IInv'
  <2>1. /\ Typed'
        /\ \A u \in Thread \ {t} : visible'[u] = visible[u]
    BY <1>3 DEF SetPlain, Synchronizes, IInv, Typed
  <2>2. Fresh(t)'
    BY <1>3 DEF SetPlain, Fresh, Deciphers
  <2>3. QED
    BY <1>3, <2>1, <2>2, OthersStayFresh DEF SetPlain
<1>4. ASSUME NEW t \in Thread, NEW k \in Key, NEW x \in Text,
             SetEncrypted(t, k, x) \/ GetPropertyOr(t, k, x)
      PROVE  IInv'
  BY <1>4, BeginningKeepsIInv DEF SetEncrypted, GetPropertyOr
<1>5. ASSUME NEW t \in Thread, NEW k \in Key, GetProperty(t, k)
      PROVE  IInv'
  BY <1>5, BeginningKeepsIInv DEF GetProperty
<1>6. ASSUME NEW t \in Thread, SetCheck(t) PROVE IInv'
  <2>1. CASE End(t, "setCheck", Illegal)
    BY <1>6, <2>1, EndingKeepsIInv DEF SetCheck
  <2>2. CASE Goto(t, "setCheck", "setEncrypt") /\ UNCHANGED during
    BY <1>6, <2>2, GoingOnKeepsIInv DEF SetCheck, Deciphers
  <2>3. QED
    BY <1>6, <2>1, <2>2 DEF SetCheck
<1>7. ASSUME NEW t \in Thread, SetEncrypt(t) PROVE IInv'
  <2>1. CASE End(t, "setEncrypt", NullPointer)
    BY <1>7, <2>1, EndingKeepsIInv DEF SetEncrypt
  <2>2. CASE Goto(t, "setEncrypt", "setStore") /\ UNCHANGED during
    BY <1>7, <2>2, GoingOnKeepsIInv DEF SetEncrypt, Deciphers
  <2>3. QED
    BY <1>7, <2>1, <2>2 DEF SetEncrypt
<1>8. ASSUME NEW t \in Thread, SetStore(t) PROVE IInv'
  BY <1>8, EndingKeepsIInv DEF SetStore
<1>9. ASSUME NEW t \in Thread, GetFetch(t) PROVE IInv'
  <2>1. /\ visible' = [visible EXCEPT ![t] = {cryptoProvider}]
        /\ Synchronizes(t) /\ UNCHANGED cryptoProvider
    BY <1>9 DEF GetFetch, Synchronizes
  <2>2. CASE Goto(t, "getFetch", "getCheck") /\ UNCHANGED during
    <3>1. pc[t] = "getFetch" /\ pc' = [pc EXCEPT ![t] = "getCheck"]
      BY <2>2 DEF Goto
    <3>2. /\ Typed'
          /\ \A u \in Thread \ {t} : pc'[u] = pc[u] /\ visible'[u] = visible[u]
                                                   /\ during'[u] = during[u]
      BY <2>1, <2>2, <3>1 DEF IInv, Typed, Deciphers
    <3>3. Fresh(t)'
      BY <2>1, <2>2, <3>1 DEF IInv, Typed, Fresh
    <3>4. QED
      BY <2>1, <3>2, <3>3, OthersStayFresh
  <2>3. ASSUME NEW how, End(t, "getFetch", how) PROVE IInv'
    BY <2>1, <2>3, EndingKeepsIInv
  <2>4. QED
    BY <1>9, <2>2, <2>3 DEF GetFetch, Produce
<1>10. ASSUME NEW t \in Thread, GetCheck(t) PROVE IInv'
  <2>1. CASE End(t, "getCheck", Illegal)
    BY <1>10, <2>1, EndingKeepsIInv DEF GetCheck
  <2>2. CASE Goto(t, "getCheck", "getDecrypt") /\ UNCHANGED during
    BY <1>10, <2>2, GoingOnKeepsIInv DEF GetCheck, Deciphers
  <2>3. QED
    BY <1>10, <2>1, <2>2 DEF GetCheck
<1>11. ASSUME NEW t \in Thread, GetDecrypt(t) PROVE IInv'
  <2>1. UNCHANGED <<cryptoProvider, visible>>
    BY <1>11 DEF GetDecrypt
  <2>2. ASSUME NEW how, End(t, "getDecrypt", how) PROVE IInv'
    BY <2>1, <2>2, EndingKeepsIInv
  <2>3. CASE Goto(t, "getDecrypt", "getCheck") /\ UNCHANGED during
    BY <2>1, <2>3, GoingOnKeepsIInv DEF Deciphers
  <2>4. QED
    BY <1>11, <2>2, <2>3 DEF GetDecrypt, Produce
<1>12. QED
  BY <1>1, <1>2, <1>3, <1>4, <1>5, <1>6, <1>7, <1>8, <1>9, <1>10, <1>11 DEF Next

\* Where the methods of the table lock the object, as up to Java 8, a getProperty
\* decrypts with a provider that was current during the call, for any number of
\* threads and providers, although it reads the field without the lock.
THEOREM ReadsFresh == TableLocksObject => (Spec => []ReadsAreFresh)
<1>1. SUFFICES ASSUME TableLocksObject PROVE Spec => []ReadsAreFresh
  OBVIOUS
<1>2. IInv /\ [Next]_vars => IInv'
  BY <1>1, NextIInv
<1>3. IInv => ReadsAreFresh
  BY DEF IInv, Fresh, ReadsAreFresh, Deciphers
<1>4. QED
  BY <1>2, <1>3, InitIInv, PTL DEF Spec

(***************************************************************************)
(* What was set comes back.                                                *)
(***************************************************************************)
SetCall == [text : Text, by : Provider]

Wrapped(g) == EncryptPropertyValue(g.text, g.by)

Work == [key : SUBSET Key, text : SUBSET Text, passes : 0 .. 2, twice : BOOLEAN,
         set : SUBSET SetCall]

How == [is : {"value", "null", "IllegalStateException", "NullPointerException",
              "SecurityException"},
        text : SUBSET Text]

\* What was set last for a key, if it was set encrypted, is stored wrapped.
Stored(k) == \/ given[k] = {}
             \/ \E g \in SetCall : given[k] = {g} /\ table[k] = {Wrapped(g)}

\* A call that decrypts twice has come to decrypt something else: what was set looks
\* encrypted itself, or a provider that the call can see is not the one that encrypted it.
Astray(t, g) ==
  job[t].twice /\ (IsEncryptedValue(g.text) \/ \E q \in visible[t] : q # g.by)

\* What a call has in its local variables.
Carries(t) ==
  /\ pc[t] \in {"setCheck", "setEncrypt"} =>
       \A x \in job[t].text : Len(x.layers) < MaxLayers
  /\ pc[t] = "setStore" =>
       \E g \in SetCall : job[t].set = {g} /\ job[t].text = {Wrapped(g)}
  /\ pc[t] = "getFetch" => \E k \in Key : job[t].key = {k}
  /\ pc[t] \in Deciphers => \A x \in job[t].text : x.layers # <<>>
  /\ pc[t] \in {"getFetch"} \cup Deciphers =>
       job[t].passes > 0 /\ (~job[t].twice => job[t].passes = 1)
  /\ pc[t] \in Deciphers =>
       \A g \in job[t].set : job[t].text = {Wrapped(g)} \/ Astray(t, g)

Tables == /\ table \in [Key -> SUBSET Text] /\ given \in [Key -> SUBSET SetCall]
          /\ \A k \in Key : Stored(k)

Works == /\ job \in [Thread -> Work]
         /\ outcome \in [Thread -> How]
         /\ \A t \in Thread : Carries(t)

CInv == Typed /\ Tables /\ Works

\* The layers of a text are a sequence.
LEMMA LayersAreSequences ==
  ASSUME NEW x \in Text
  PROVE  x.layers \in Seq(Layer) /\ Len(x.layers) \in 0 .. MaxLayers
<1>1. PICK n \in 0 .. MaxLayers : x.layers \in [1 .. n -> Layer]
  BY DEF Text
<1>2. n \in Nat
  BY CryptoAssumption
<1>3. QED
  BY <1>1, <1>2

\* Encrypting puts a layer around a text, decrypting takes it off.
LEMMA WrappingUnwraps ==
  ASSUME NEW x \in Text, NEW p \in Provider
  PROVE  LET y == EncryptPropertyValue(x, p)
         IN  /\ Len(x.layers) < MaxLayers => y \in Text
             /\ y.layers # <<>>
             /\ Head(y.layers) = [by |-> p, blank |-> FALSE]
             /\ [y EXCEPT !.layers = Tail(@)] = x
<1> DEFINE l == [by |-> p, blank |-> FALSE]
           one == <<l>>
           ls == one \o x.layers
           y == [x EXCEPT !.layers = ls]
<1>1. x.layers \in Seq(Layer) /\ Len(x.layers) \in 0 .. MaxLayers /\ x.word \in Word
  BY LayersAreSequences DEF Text
<1>2. l \in Layer /\ one \in Seq(Layer) /\ Len(one) = 1 /\ one[1] = l
  <2>1. l \in Layer
    <3>1. FALSE \in Blanks
      BY CryptoAssumption
    <3>2. QED
      BY <3>1 DEF Layer
  <2> HIDE DEF l
  <2>2. QED
    BY <2>1
<1> HIDE DEF l, one
<1>3. /\ ls \in Seq(Layer) /\ Len(ls) = 1 + Len(x.layers)
      /\ \A i \in 1 .. 1 + Len(x.layers) : ls[i] = IF i <= 1 THEN one[i] ELSE x.layers[i - 1]
  <2> DEFINE old == x.layers
  <2>1. old \in Seq(Layer)
    BY <1>1
  <2> HIDE DEF old
  <2>2. /\ one \o old \in Seq(Layer) /\ Len(one \o old) = Len(one) + Len(old)
        /\ \A i \in 1 .. Len(one) + Len(old) :
              (one \o old)[i] = IF i <= Len(one) THEN one[i] ELSE old[i - Len(one)]
    BY <1>2, <2>1, ConcatProperties
  <2>3. QED
    BY <1>2, <2>2 DEF old
<1> HIDE DEF ls
<1>4. ls # <<>> /\ Head(ls) = l
  BY <1>1, <1>2, <1>3
<1>5. Tail(ls) = x.layers
  <2>1. /\ Tail(ls) \in Seq(Layer) /\ Len(Tail(ls)) = Len(x.layers)
        /\ \A i \in 1 .. Len(Tail(ls)) : Tail(ls)[i] = ls[i + 1]
    BY <1>1, <1>3, <1>4, HeadTailProperties
  <2>2. \A i \in 1 .. Len(x.layers) : Tail(ls)[i] = x.layers[i]
    BY <1>1, <1>3, <2>1
  <2>3. QED
    BY <1>1, <2>1, <2>2, SeqEqual
<1>6. x = [word |-> x.word, layers |-> x.layers]
  BY DEF Text
<1>7. y = [word |-> x.word, layers |-> ls]
  BY <1>6
<1>8. [y EXCEPT !.layers = Tail(@)] = x
  <2>1. [y EXCEPT !.layers = Tail(@)] = [word |-> x.word, layers |-> Tail(ls)]
    <3> DEFINE z == [word |-> x.word, layers |-> ls]
    <3>1. z.layers = ls
      OBVIOUS
    <3>2. ASSUME NEW w PROVE [z EXCEPT !.layers = w] = [word |-> x.word, layers |-> w]
      OBVIOUS
    <3>3. [y EXCEPT !.layers = Tail(@)] = [z EXCEPT !.layers = Tail(ls)]
      BY <1>7, <3>1
    <3>4. QED
      BY <3>2, <3>3
  <2>2. QED
    BY <1>5, <1>6, <2>1
<1>9. Len(x.layers) < MaxLayers => y \in Text
  <2> SUFFICES ASSUME Len(x.layers) < MaxLayers PROVE y \in Text
    OBVIOUS
  <2>1. Len(ls) \in 0 .. MaxLayers /\ ls \in [1 .. Len(ls) -> Layer]
    BY <1>1, <1>3, CryptoAssumption, LenProperties
  <2>2. QED
    BY <1>1, <1>7, <2>1 DEF Text
<1>10. y = EncryptPropertyValue(x, p)
  BY DEF EncryptPropertyValue, ls, one, l
<1>11. y.layers = ls
  BY <1>7
<1> HIDE DEF y
<1>12. QED
  BY <1>4, <1>8, <1>9, <1>10, <1>11 DEF l

\* What decrypting a text answers is a text.
LEMMA UnwrappedIsText ==
  ASSUME NEW x \in Text, x.layers # <<>>
  PROVE  [x EXCEPT !.layers = Tail(@)] \in Text
<1> DEFINE r == Tail(x.layers)
<1>1. x.layers \in Seq(Layer) /\ Len(x.layers) \in 0 .. MaxLayers /\ x.word \in Word
  BY LayersAreSequences DEF Text
<1>2. r \in Seq(Layer) /\ Len(r) = Len(x.layers) - 1
  BY <1>1, HeadTailProperties
<1> HIDE DEF r
<1>3. Len(r) \in 0 .. MaxLayers /\ r \in [1 .. Len(r) -> Layer]
  BY <1>1, <1>2, CryptoAssumption, LenProperties
<1>4. [x EXCEPT !.layers = Tail(@)] = [word |-> x.word, layers |-> r]
  <2>1. x = [word |-> x.word, layers |-> x.layers]
    BY DEF Text
  <2>2. [x EXCEPT !.layers = Tail(x.layers)] = [word |-> x.word, layers |-> Tail(x.layers)]
    BY <2>1
  <2>3. QED
    BY <2>2 DEF r
<1>5. QED
  BY <1>1, <1>3, <1>4 DEF Text

Places == {"idle", "setCheck", "setEncrypt", "setStore", "getFetch"} \cup Deciphers

\* A thread goes somewhere with what it carries there; the others stay.
LEMMA MovingKeepsCInv ==
  ASSUME CInv, NEW t \in Thread, NEW to \in Places,
         NEW how \in How, NEW S \in SUBSET Known,
         UNCHANGED cryptoProvider, UNCHANGED visible \/ Synchronizes(t),
         pc' = [pc EXCEPT ![t] = to],
         job' \in [Thread -> Work], \A u \in Thread \ {t} : job'[u] = job[u],
         UNCHANGED outcome \/ outcome' = [outcome EXCEPT ![t] = how],
         UNCHANGED during \/ during' = [during EXCEPT ![t] = S],
         UNCHANGED <<table, given>> \/ Tables',
         Carries(t)'
  PROVE  CInv'
<1>1. Typed'
  BY DEF CInv, Typed, Places, Synchronizes
<1>2. Tables'
  BY DEF CInv, Tables, Stored
<1>3. outcome' \in [Thread -> How]
  BY DEF CInv, Works
<1>4. ASSUME NEW u \in Thread \ {t} PROVE Carries(u)'
  <2>1. /\ pc'[u] = pc[u] /\ job'[u] = job[u] /\ Carries(u)
        /\ visible'[u] = visible[u]
    BY DEF CInv, Typed, Works, Synchronizes
  <2>2. QED
    BY <2>1 DEF Carries, Astray
<1>5. QED
  BY <1>1, <1>2, <1>3, <1>4 DEF CInv, Works

\* Where it is then, and with what.
LEMMA Moved ==
  ASSUME CInv, NEW t \in Thread, NEW to, NEW w \in Work,
         pc' = [pc EXCEPT ![t] = to], job' = [job EXCEPT ![t] = w]
  PROVE  /\ pc'[t] = to /\ job'[t] = w
         /\ job' \in [Thread -> Work] /\ \A u \in Thread \ {t} : job'[u] = job[u]
BY DEF CInv, Typed, Works

\* A thread without a call carries nothing.
LEMMA NoJobIsWork == NoJob \in Work
BY DEF NoJob, Work

\* Nor do arguments make it carry anything else.
LEMMA ArgumentsAreWork ==
  ASSUME NEW K \in SUBSET Key, NEW X \in SUBSET Text, NEW n \in 0 .. 2, NEW b \in BOOLEAN
  PROVE  /\ [NoJob EXCEPT !.key = K, !.passes = n] \in Work
         /\ [NoJob EXCEPT !.key = K, !.text = X] \in Work
         /\ [NoJob EXCEPT !.key = K, !.text = X, !.passes = n, !.twice = b] \in Work
BY NoJobIsWork DEF Work

\* A call that ends carries nothing.
LEMMA EndingKeepsCInv ==
  ASSUME CInv, NEW t \in Thread, NEW from, NEW how \in How,
         End(t, from, how),
         UNCHANGED cryptoProvider, UNCHANGED visible \/ Synchronizes(t),
         UNCHANGED <<table, given>> \/ Tables'
  PROVE  CInv'
<1>1. /\ pc' = [pc EXCEPT ![t] = "idle"] /\ job' = [job EXCEPT ![t] = NoJob]
      /\ outcome' = [outcome EXCEPT ![t] = how] /\ during' = [during EXCEPT ![t] = {}]
  BY DEF End, Goto
<1>2. NoJob \in Work
  BY NoJobIsWork
<1>3. Carries(t)'
  <2>1. pc'[t] = "idle"
    BY <1>1, <1>2, Moved
  <2>2. QED
    BY <2>1 DEF Carries, Deciphers
<1>4. "idle" \in Places /\ {} \in SUBSET Known
  BY DEF Places
<1>5. job' \in [Thread -> Work] /\ \A u \in Thread \ {t} : job'[u] = job[u]
  BY <1>1, <1>2, Moved
<1>6. QED
  BY <1>1, <1>3, <1>4, <1>5, MovingKeepsCInv

\* How calls end.
LEMMA Outcomes ==
  /\ {None, Illegal, NullPointer, Security} \subseteq How
  /\ \A x \in Text : Value(x) \in How
BY DEF How, Value, None, Illegal, NullPointer, Security

\* A call begins with its arguments.
LEMMA BeginningKeepsCInv ==
  ASSUME CInv, NEW t \in Thread, NEW k \in Key, UNCHANGED <<table, cryptoProvider, visible, given>>,
         \/ \E x \in Text : SetEncrypted(t, k, x) \/ GetPropertyOr(t, k, x)
         \/ GetProperty(t, k)
  PROVE  CInv'
<1>1. PICK to \in {"setCheck", "getFetch"}, w \in Work :
        /\ Begin(t, to, w)
        /\ to = "setCheck" => \A x \in w.text : Len(x.layers) < MaxLayers
        /\ to = "getFetch" => w.key = {k} /\ w.passes > 0 /\ (~w.twice => w.passes = 1)
  <2>1. CASE GetProperty(t, k)
    <3> DEFINE w == [NoJob EXCEPT !.key = {k}, !.passes = 1]
    <3>1. Begin(t, "getFetch", w)
      BY <2>1 DEF GetProperty
    <3>2. w \in Work
      <4>1. {k} \in SUBSET Key /\ {} \in SUBSET Text /\ 1 \in 0 .. 2 /\ TRUE \in BOOLEAN
        OBVIOUS
      <4>2. QED
        BY <4>1, ArgumentsAreWork, Zenon
    <3>3. w.key = {k} /\ w.passes = 1
      BY DEF NoJob
    <3> HIDE DEF w
    <3>4. QED
      BY <3>1, <3>2, <3>3
  <2>2. ASSUME NEW x \in Text, GetPropertyOr(t, k, x)
        PROVE  \E w \in Work : /\ Begin(t, "getFetch", w) /\ w.key = {k}
                               /\ w.passes > 0 /\ w.twice
    <3> DEFINE w == [NoJob EXCEPT !.key = {k}, !.text = {x}, !.passes = 2, !.twice = TRUE]
    <3>1. Begin(t, "getFetch", w)
      BY <2>2 DEF GetPropertyOr
    <3>2. w \in Work
      <4>1. {k} \in SUBSET Key /\ {x} \in SUBSET Text /\ 2 \in 0 .. 2 /\ TRUE \in BOOLEAN
        OBVIOUS
      <4>2. QED
        BY <4>1, ArgumentsAreWork, Zenon
    <3>3. w.key = {k} /\ w.passes = 2 /\ w.twice
      BY DEF NoJob
    <3> HIDE DEF w
    <3>4. QED
      BY <3>1, <3>2, <3>3
  <2>3. ASSUME NEW x \in Text, SetEncrypted(t, k, x)
        PROVE  \E w \in Work : /\ Begin(t, "setCheck", w)
                               /\ \A y \in w.text : Len(y.layers) < MaxLayers
    <3> DEFINE w == [NoJob EXCEPT !.key = {k}, !.text = {x}]
    <3>1. Begin(t, "setCheck", w) /\ Len(x.layers) < MaxLayers
      BY <2>3 DEF SetEncrypted
    <3>2. w \in Work
      <4>1. {k} \in SUBSET Key /\ {x} \in SUBSET Text /\ 1 \in 0 .. 2 /\ TRUE \in BOOLEAN
        OBVIOUS
      <4>2. QED
        BY <4>1, ArgumentsAreWork, Zenon
    <3>3. w.text = {x}
      BY DEF NoJob
    <3> HIDE DEF w
    <3>4. QED
      BY <3>1, <3>2, <3>3
  <2>4. QED
    BY <2>1, <2>2, <2>3
<1>2. /\ pc' = [pc EXCEPT ![t] = to] /\ job' = [job EXCEPT ![t] = w]
      /\ outcome' = [outcome EXCEPT ![t] = None]
      /\ during' = [during EXCEPT ![t] = {cryptoProvider}]
  BY <1>1 DEF Begin, Goto
<1>3. Carries(t)'
  BY <1>1, <1>2, Moved DEF Carries, Deciphers
<1>4. to \in Places /\ {cryptoProvider} \in SUBSET Known
  BY <1>1 DEF Places, CInv, Typed
<1>5. job' \in [Thread -> Work] /\ \A u \in Thread \ {t} : job'[u] = job[u]
  BY <1>2, Moved
<1>6. QED
  BY <1>2, <1>3, <1>4, <1>5, Outcomes, MovingKeepsCInv

\* A call that only looks at the provider goes on with what it carries.
LEMMA CheckingKeepsCInv ==
  ASSUME CInv, NEW t \in Thread, SetCheck(t) \/ GetCheck(t)
  PROVE  CInv'
<1>1. UNCHANGED <<table, cryptoProvider, visible, given>>
  BY DEF SetCheck, GetCheck
<1>2. ASSUME NEW from, End(t, from, Illegal) PROVE CInv'
  BY <1>1, <1>2, Outcomes, EndingKeepsCInv
<1>3. ASSUME NEW from, NEW to, Goto(t, from, to), UNCHANGED <<job, outcome, during>>,
             <<from, to>> \in {<<"setCheck", "setEncrypt">>, <<"getCheck", "getDecrypt">>}
      PROVE  CInv'
  <2>1. pc[t] = from /\ pc' = [pc EXCEPT ![t] = to] /\ pc'[t] = to /\ to \in Places
    BY <1>3 DEF Goto, CInv, Typed, Places, Deciphers
  <2>2. job' \in [Thread -> Work] /\ Carries(t)
    BY <1>3 DEF CInv, Works
  <2>3. Carries(t)'
    BY <1>1, <1>3, <2>1, <2>2 DEF Carries, Deciphers, Astray
  <2>4. {} \in SUBSET Known
    OBVIOUS
  <2>5. QED
    BY <1>1, <1>3, <2>1, <2>2, <2>3, <2>4, Outcomes, MovingKeepsCInv
<1>4. QED
  BY <1>2, <1>3 DEF SetCheck, GetCheck

\* setProperty keeps what it was given, with what it has made of it.
LEMMA EncryptingKeepsCInv ==
  ASSUME CInv, NEW t \in Thread, SetEncrypt(t)
  PROVE  CInv'
<1>1. UNCHANGED <<table, cryptoProvider, visible, given>>
  BY DEF SetEncrypt
<1>2. CASE End(t, "setEncrypt", NullPointer)
  BY <1>1, <1>2, Outcomes, EndingKeepsCInv
<1>3. ASSUME NEW p \in visible[t], NEW x \in job[t].text, p # Null,
             Goto(t, "setEncrypt", "setStore"),
             job' = [job EXCEPT ![t].text = {EncryptPropertyValue(x, p)},
                                ![t].set = {[text |-> x, by |-> p]}],
             UNCHANGED <<outcome, during>>
      PROVE  CInv'
  <2>1. pc[t] = "setEncrypt" /\ pc' = [pc EXCEPT ![t] = "setStore"] /\ pc'[t] = "setStore"
    BY <1>3 DEF Goto, CInv, Typed
  <2>2. job[t] \in Work /\ job \in [Thread -> Work] /\ Carries(t)
    BY DEF CInv, Works
  <2>3. p \in Provider /\ x \in Text /\ Len(x.layers) < MaxLayers
    BY <1>3, <2>1, <2>2 DEF CInv, Typed, Known, Carries, Work
  <2> DEFINE g == [text |-> x, by |-> p]
             y == EncryptPropertyValue(x, p)
  <2>4. g \in SetCall /\ y \in Text /\ y = Wrapped(g)
    BY <2>3, WrappingUnwraps DEF SetCall, Wrapped
  <2> HIDE DEF g, y
  <2>5. job' = [job EXCEPT ![t].text = {y}, ![t].set = {g}]
    BY <1>3 DEF g, y
  <2>6. /\ job' \in [Thread -> Work] /\ \A u \in Thread \ {t} : job'[u] = job[u]
        /\ job'[t].text = {y} /\ job'[t].set = {g}
    BY <2>2, <2>4, <2>5 DEF Work
  <2>7. Carries(t)'
    BY <2>1, <2>4, <2>6 DEF Carries, Deciphers
  <2>8. {} \in SUBSET Known /\ "setStore" \in Places
    BY DEF Places
  <2>9. QED
    BY <1>1, <1>3, <2>1, <2>6, <2>7, <2>8, Outcomes, MovingKeepsCInv
<1>4. QED
  BY <1>2, <1>3 DEF SetEncrypt

\* And stores both.
LEMMA StoringKeepsCInv ==
  ASSUME CInv, NEW t \in Thread, SetStore(t) \/ \E k \in Key, x \in Text : SetPlain(t, k, x)
  PROVE  CInv'
<1>1. Tables /\ Works /\ job[t] \in Work
  BY DEF CInv, Works
<1>2. ASSUME NEW k \in Key, NEW x \in Text, SetPlain(t, k, x) PROVE CInv'
  <2>1. Tables'
    <3>1. table' \in [Key -> SUBSET Text] /\ given' \in [Key -> SUBSET SetCall]
      BY <1>1, <1>2 DEF SetPlain, Tables
    <3>2. ASSUME NEW l \in Key PROVE Stored(l)'
      BY <1>1, <1>2 DEF SetPlain, Tables, Stored
    <3>3. QED
      BY <3>1, <3>2 DEF Tables
  <2>2. Typed'
    BY <1>2 DEF SetPlain, Synchronizes, CInv, Typed
  <2>3. Works'
    <3>1. ASSUME NEW u \in Thread PROVE Carries(u)'
      <4>1. pc'[u] = pc[u] /\ job'[u] = job[u] /\ Carries(u)
        BY <1>1, <1>2 DEF SetPlain, Works
      <4>2. visible'[u] = visible[u] \/ pc[u] = "idle"
        BY <1>2 DEF SetPlain, Synchronizes, CInv, Typed
      <4>3. QED
        BY <4>1, <4>2 DEF Carries, Astray, Deciphers
    <3>2. QED
      BY <1>1, <1>2, <3>1 DEF SetPlain, Works
  <2>4. QED
    BY <2>1, <2>2, <2>3 DEF CInv
<1>3. CASE SetStore(t)
  <2>1. PICK k \in job[t].key : /\ table' = [table EXCEPT ![k] = job[t].text]
                                /\ given' = [given EXCEPT ![k] = job[t].set]
    BY <1>3 DEF SetStore
  <2>2. End(t, "setStore", None) /\ Synchronizes(t) /\ UNCHANGED cryptoProvider
    BY <1>3 DEF SetStore
  <2>3. PICK g \in SetCall : job[t].set = {g} /\ job[t].text = {Wrapped(g)}
    BY <1>1, <2>2 DEF End, Goto, Works, Carries
  <2>4. k \in Key /\ job[t].text \in SUBSET Text
    BY <1>1 DEF Work
  <2>5. Tables'
    <3>1. table' \in [Key -> SUBSET Text] /\ given' \in [Key -> SUBSET SetCall]
      BY <1>1, <2>1, <2>3, <2>4 DEF Tables
    <3>2. ASSUME NEW l \in Key PROVE Stored(l)'
      <4>1. CASE l = k
        <5>1. table'[l] = {Wrapped(g)} /\ given'[l] = {g}
          BY <1>1, <2>1, <2>3, <2>4, <4>1 DEF Tables
        <5>2. QED
          BY <5>1 DEF Stored
      <4>2. CASE l # k
        <5>1. table'[l] = table[l] /\ given'[l] = given[l]
          BY <1>1, <2>1, <2>4, <4>2 DEF Tables
        <5>2. QED
          BY <1>1, <5>1 DEF Tables, Stored
      <4>3. QED
        BY <4>1, <4>2
    <3>3. QED
      BY <3>1, <3>2 DEF Tables
  <2>6. QED
    BY <2>2, <2>5, Outcomes, EndingKeepsCInv
<1>4. QED
  BY <1>2, <1>3

\* A getProperty that has more to decrypt carries what is owed for it.
LEMMA ProducingKeepsCInv ==
  ASSUME CInv, NEW t \in Thread, NEW from, NEW x \in Text, NEW n \in 0 .. 2,
         Produce(t, from, x, n),
         UNCHANGED <<table, cryptoProvider, given>>, UNCHANGED visible \/ Synchronizes(t),
         Owed(t) \subseteq SetCall,
         n > 0 /\ ~job[t].twice => n = 1,
         n > 0 /\ IsEncryptedValue(x) =>
           \A g \in Owed(t) : x = Wrapped(g) \/ (Astray(t, g) /\ UNCHANGED visible)
  PROVE  CInv'
<1>1. ASSUME End(t, from, Value(x)) PROVE CInv'
  BY <1>1, Outcomes, EndingKeepsCInv
<1>2. ASSUME n > 0, IsEncryptedValue(x),
             Goto(t, from, "getCheck"), UNCHANGED <<outcome, during>>,
             job' = [job EXCEPT ![t].text = {x}, ![t].passes = n, ![t].set = Owed(t)]
      PROVE  CInv'
  <2>1. pc' = [pc EXCEPT ![t] = "getCheck"] /\ pc'[t] = "getCheck"
    BY <1>2 DEF Goto, CInv, Typed
  <2>2. job \in [Thread -> Work]
    BY DEF CInv, Works
  <2> DEFINE o == Owed(t)
  <2> HIDE DEF o
  <2>3. job' = [job EXCEPT ![t].text = {x}, ![t].passes = n, ![t].set = o] /\ o \in SUBSET SetCall
    BY <1>2 DEF o
  <2>4. /\ job' \in [Thread -> Work] /\ \A u \in Thread \ {t} : job'[u] = job[u]
        /\ job'[t].text = {x} /\ job'[t].set = o /\ job'[t].passes = n
        /\ job'[t].twice = job[t].twice
    BY <2>2, <2>3 DEF Work
  <2>5. \A g \in o : x = Wrapped(g) \/ Astray(t, g)'
    BY <1>2, <2>4 DEF Astray, o
  <2>6. Carries(t)'
    BY <1>2, <2>1, <2>4, <2>5 DEF Carries, Deciphers, IsEncryptedValue
  <2>7. {} \in SUBSET Known /\ "getCheck" \in Places
    BY DEF Places, Deciphers
  <2>8. QED
    BY <1>2, <2>1, <2>4, <2>6, <2>7, Outcomes, MovingKeepsCInv
<1>3. QED
  BY <1>1, <1>2 DEF Produce

\* The value a getProperty fetches is the one that was stored for its key, or the default.
LEMMA FetchingKeepsCInv ==
  ASSUME CInv, NEW t \in Thread, GetFetch(t)
  PROVE  CInv'
<1>1. /\ UNCHANGED <<table, cryptoProvider, given>> /\ Synchronizes(t)
      /\ Tables /\ Works /\ job[t] \in Work /\ Carries(t)
  BY DEF GetFetch, CInv, Works
<1>2. pc[t] = "getFetch"
  BY DEF GetFetch, Produce, Goto, End
<1>3. PICK k \in job[t].key :
        \/ \E x \in table[k] : Produce(t, "getFetch", x, job[t].passes)
        \/ table[k] = {} /\ job[t].text = {} /\ End(t, "getFetch", None)
        \/ \E d \in job[t].text : table[k] = {} /\ Produce(t, "getFetch", d, 1)
  BY DEF GetFetch
<1>4. /\ k \in Key /\ job[t].key = {k} /\ job[t].passes \in 0 .. 2
      /\ ~job[t].twice => job[t].passes = 1
  BY <1>1, <1>2, <1>3 DEF Work, Carries
<1>5. Owed(t) = given[k]
  BY <1>2, <1>4 DEF Owed
<1>6. /\ given[k] \subseteq SetCall /\ table[k] \subseteq Text
      /\ \A g \in given[k] : table[k] = {Wrapped(g)}
  BY <1>1, <1>4 DEF Tables, Stored
<1>7. ASSUME NEW x \in table[k], Produce(t, "getFetch", x, job[t].passes) PROVE CInv'
  <2>1. x \in Text /\ \A g \in Owed(t) : x = Wrapped(g)
    BY <1>5, <1>6, <1>7
  <2>2. Owed(t) \subseteq SetCall
    BY <1>5, <1>6
  <2> DEFINE n == job[t].passes
  <2>3. n \in 0 .. 2 /\ Produce(t, "getFetch", x, n) /\ (n > 0 /\ ~job[t].twice => n = 1)
    BY <1>4, <1>7
  <2> HIDE DEF n
  <2>4. QED
    BY <1>1, <2>1, <2>2, <2>3, ProducingKeepsCInv
<1>8. ASSUME NEW d \in job[t].text, table[k] = {}, Produce(t, "getFetch", d, 1) PROVE CInv'
  <2>1. d \in Text /\ Owed(t) = {} /\ 1 \in 0 .. 2
    BY <1>1, <1>5, <1>6, <1>8 DEF Work
  <2>2. QED
    BY <1>1, <1>8, <2>1, ProducingKeepsCInv
<1>9. CASE End(t, "getFetch", None)
  BY <1>1, <1>9, Outcomes, EndingKeepsCInv
<1>10. QED
  BY <1>3, <1>7, <1>8, <1>9

\* What decrypting gives is a text, and another pass is for a getProperty with a default.
LEMMA DecryptingKeepsCInv ==
  ASSUME CInv, NEW t \in Thread, GetDecrypt(t)
  PROVE  CInv'
<1>1. /\ UNCHANGED <<table, cryptoProvider, visible, given>>
      /\ job[t] \in Work /\ Carries(t) /\ pc[t] = "getDecrypt"
  BY DEF GetDecrypt, CInv, Works
<1>2. /\ job[t].passes \in 1 .. 2 /\ Owed(t) \subseteq SetCall
      /\ ~job[t].twice => job[t].passes = 1
  BY <1>1 DEF Work, Carries, Deciphers, Owed
<1>3. ASSUME NEW p \in visible[t], NEW x \in job[t].text, p # Null,
             NEW how \in DecryptPropertyValue(x, p), NEW y \in how.text,
             Produce(t, "getDecrypt", y, job[t].passes - 1)
      PROVE  CInv'
  <2>1. x \in Text /\ x.layers # <<>>
    BY <1>1 DEF Work, Carries, Deciphers
  <2>2. y \in Text
    BY <1>3, <2>1, UnwrappedIsText DEF DecryptPropertyValue, Value, Security
  <2>3. job[t].passes - 1 \in 0 .. 2 /\ (~job[t].twice => ~(job[t].passes - 1 > 0))
    BY <1>2
  <2>4. ASSUME job[t].passes - 1 > 0, IsEncryptedValue(y), NEW g \in Owed(t)
        PROVE  Astray(t, g)
    <3>1. /\ job[t].twice /\ g \in SetCall
          /\ job[t].text = {Wrapped(g)} \/ Astray(t, g)
      BY <1>1, <1>2, <2>3, <2>4 DEF Carries, Deciphers, Owed
    <3>2. CASE p = g.by /\ x = Wrapped(g)
      <4>1. g.by \in Provider /\ g.text \in Text
        BY <3>1 DEF SetCall
      <4>2. DecryptPropertyValue(Wrapped(g), g.by) = {Value(g.text)}
        BY <4>1, WrappingUnwraps DEF DecryptPropertyValue, Wrapped
      <4>3. y = g.text
        BY <1>3, <3>2, <4>2 DEF Value
      <4>4. QED
        BY <2>4, <3>1, <4>3 DEF Astray
    <3>3. CASE p # g.by
      BY <1>3, <3>1, <3>3 DEF Astray
    <3>4. QED
      BY <1>3, <3>1, <3>2, <3>3
  <2>5. QED
    BY <1>1, <1>2, <1>3, <2>2, <2>3, <2>4, ProducingKeepsCInv
<1>4. CASE End(t, "getDecrypt", NullPointer) \/ End(t, "getDecrypt", Security)
  BY <1>1, <1>4, Outcomes, EndingKeepsCInv
<1>5. QED
  BY <1>3, <1>4 DEF GetDecrypt

\* Every step keeps what was set.
LEMMA NextCInv == CInv /\ [Next]_vars => CInv'
<1> SUFFICES ASSUME CInv, [Next]_vars PROVE CInv'
  OBVIOUS
<1>1. CASE UNCHANGED vars
  BY <1>1 DEF vars, CInv, Typed, Tables, Stored, Works, Carries, Astray
<1>2. ASSUME NEW t \in Thread, NEW p \in Provider \cup {Null}, SetTextCryptoProvider(t, p)
      PROVE  CInv'
  <2>1. Typed'
    BY <1>2 DEF SetTextCryptoProvider, CInv, Typed, Known
  <2>2. ASSUME NEW u \in Thread PROVE Carries(u)'
    <3>1. /\ pc'[u] = pc[u] /\ job'[u] = job[u] /\ Carries(u)
          /\ pc[u] = "idle" \/ visible[u] \subseteq visible'[u]
      BY <1>2 DEF SetTextCryptoProvider, CInv, Works
    <3>2. QED
      BY <3>1 DEF Carries, Astray, Deciphers
  <2>3. Tables' /\ Works'
    BY <1>2, <2>2 DEF SetTextCryptoProvider, CInv, Tables, Stored, Works
  <2>4. QED
    BY <2>1, <2>3 DEF CInv
<1>3. ASSUME NEW t \in Thread, NEW k \in Key, NEW x \in Text,
             SetEncrypted(t, k, x) \/ GetPropertyOr(t, k, x)
      PROVE  CInv'
  BY <1>3, BeginningKeepsCInv DEF SetEncrypted, GetPropertyOr
<1>4. ASSUME NEW t \in Thread, NEW k \in Key, GetProperty(t, k) PROVE CInv'
  BY <1>4, BeginningKeepsCInv DEF GetProperty
<1>5. QED
  BY <1>1, <1>2, <1>3, <1>4, CheckingKeepsCInv, EncryptingKeepsCInv, StoringKeepsCInv,
     FetchingKeepsCInv, DecryptingKeepsCInv DEF Next

\* So it is kept for ever.
LEMMA AlwaysCInv == Spec => []CInv
<1>1. Init => CInv
  <2> SUFFICES ASSUME Init PROVE CInv
    OBVIOUS
  <2>1. Typed
    BY InitIInv DEF IInv
  <2>2. Tables
    BY DEF Init, Tables, Stored
  <2>3. Works
    <3>1. ASSUME NEW t \in Thread PROVE Carries(t)
      BY DEF Init, Carries, Deciphers
    <3>2. job \in [Thread -> Work] /\ outcome \in [Thread -> How]
      BY NoJobIsWork, Outcomes DEF Init
    <3>3. QED
      BY <3>1, <3>2 DEF Works
  <2>4. QED
    BY <2>1, <2>2, <2>3 DEF CInv
<1>2. QED
  BY <1>1, NextCInv, PTL DEF Spec

\* For any number of threads, keys, providers and layers, a value has no more layers
\* than the calls put on it, and a call has local variables of their types.
THEOREM TypeCorrect == Spec => []TypeOK
<1>1. CInv => TypeOK
  <2> SUFFICES ASSUME CInv PROVE TypeOK
    OBVIOUS
  <2>1. ASSUME NEW k \in Key PROVE table[k] \subseteq Text
    BY DEF CInv, Tables
  <2>2. ASSUME NEW t \in Thread
        PROVE  /\ job[t].key \subseteq Key /\ job[t].text \subseteq Text
               /\ job[t].passes \in 0 .. 2 /\ outcome[t].text \subseteq Text
    <3>1. job[t] \in Work /\ outcome[t] \in How
      BY DEF CInv, Works
    <3>2. QED
      BY <3>1 DEF Work, How
  <2>3. QED
    BY <2>1, <2>2 DEF TypeOK, CInv, Typed, Known, Deciphers
<1>2. QED
  BY <1>1, AlwaysCInv, PTL

\* Only the thread itself ends its call.
LEMMA EndsAlone ==
  ASSUME CInv, [Next]_vars, NEW t \in Thread,
         pc[t] \in {"getFetch"} \cup Deciphers, pc'[t] = "idle"
  PROVE  GetFetch(t) \/ GetCheck(t) \/ GetDecrypt(t)
<1>1. pc'[t] # pc[t]
  BY DEF Deciphers
<1>2. PICK u \in Thread :
        \/ \E p \in Provider \cup {Null} : SetTextCryptoProvider(u, p)
        \/ \E k \in Key, x \in Text : SetPlain(u, k, x) \/ SetEncrypted(u, k, x)
        \/ SetCheck(u) \/ SetEncrypt(u) \/ SetStore(u)
        \/ \E k \in Key : GetProperty(u, k)
        \/ \E k \in Key, x \in Text : GetPropertyOr(u, k, x)
        \/ GetFetch(u) \/ GetCheck(u) \/ GetDecrypt(u)
  BY <1>1 DEF Next, vars
<1>3. ASSUME NEW from, NEW to, Goto(u, from, to) PROVE u = t /\ pc[t] = from /\ to = "idle"
  BY <1>1, <1>3 DEF Goto, CInv, Typed
<1>4. \A p \in Provider \cup {Null} : ~SetTextCryptoProvider(u, p)
  BY <1>1 DEF SetTextCryptoProvider
<1>5. \A k \in Key, x \in Text : ~SetPlain(u, k, x)
  BY <1>1 DEF SetPlain
<1>6. \A k \in Key, x \in Text : ~SetEncrypted(u, k, x) /\ ~GetPropertyOr(u, k, x)
  BY <1>3 DEF SetEncrypted, GetPropertyOr, Begin
<1>7. \A k \in Key : ~GetProperty(u, k)
  BY <1>3 DEF GetProperty, Begin
<1>8. ~SetCheck(u) /\ ~SetEncrypt(u) /\ ~SetStore(u)
  <2>1. ASSUME NEW from \in {"setCheck", "setEncrypt", "setStore"}, NEW to, Goto(u, from, to)
        PROVE  FALSE
    BY <1>3, <2>1 DEF Deciphers
  <2>2. ASSUME NEW from \in {"setCheck", "setEncrypt", "setStore"}, NEW how, End(u, from, how)
        PROVE  FALSE
    BY <2>1, <2>2 DEF End
  <2>3. QED
    BY <2>1, <2>2 DEF SetCheck, SetEncrypt, SetStore
<1>9. u = t
  BY <1>2, <1>3, <1>4, <1>5, <1>6, <1>7, <1>8
     DEF GetFetch, GetCheck, GetDecrypt, Produce, End
<1>10. QED
  BY <1>2, <1>4, <1>5, <1>6, <1>7, <1>8, <1>9

\* A getProperty that is owed a text, and can see only the provider that encrypted it,
\* answers with that text.
LEMMA AnswersWhatIsOwed ==
  ASSUME CInv, [Next]_vars, NEW t \in Thread, NEW g \in Owed(t),
         job[t].twice => ~IsEncryptedValue(g.text)
  PROVE  Delivers(t, g)
<1> SUFFICES ASSUME pc[t] \in {"getFetch"} \cup Deciphers, pc'[t] = "idle",
                    visible[t] \cup visible'[t] = {g.by}
             PROVE  outcome'[t] = Value(g.text)
  BY DEF Delivers, Deciphers
<1>1. /\ Tables /\ job[t] \in Work /\ Carries(t)
      /\ outcome \in [Thread -> How] /\ visible[t] \subseteq {g.by}
      /\ pc \in [Thread -> Places]
  BY DEF CInv, Works, Typed, Places
<1>2. GetFetch(t) \/ GetCheck(t) \/ GetDecrypt(t)
  BY EndsAlone
<1>3. CASE GetFetch(t)
  <2>1. pc[t] = "getFetch"
    BY <1>3 DEF GetFetch, Produce, Goto, End
  <2>2. PICK k \in job[t].key :
          \/ \E x \in table[k] : Produce(t, "getFetch", x, job[t].passes)
          \/ table[k] = {}
    BY <1>3 DEF GetFetch
  <2>3. k \in Key /\ Owed(t) = given[k] /\ job[t].passes > 0
    BY <1>1, <2>1, <2>2 DEF Carries, Work, Owed
  <2>4. g \in SetCall /\ table[k] = {Wrapped(g)}
    BY <1>1, <2>3 DEF Tables, Stored
  <2>5. IsEncryptedValue(Wrapped(g))
    BY <2>4, WrappingUnwraps DEF SetCall, Wrapped, IsEncryptedValue
  <2>6. Goto(t, "getFetch", "getCheck")
    BY <2>2, <2>3, <2>4, <2>5 DEF Produce
  <2>7. QED
    BY <1>1, <2>6 DEF Goto
<1>4. CASE ~GetFetch(t)
  <2>1. GetCheck(t) \/ GetDecrypt(t)
    BY <1>2, <1>4
  <2>2. pc[t] \in Deciphers
    BY <2>1 DEF GetCheck, GetDecrypt, Goto, End, Deciphers
  <2>3. /\ g \in SetCall /\ job[t].text = {Wrapped(g)}
        /\ ~job[t].twice => job[t].passes = 1
    <3>1. g \in job[t].set /\ ~Astray(t, g)
      BY <1>1, <2>2 DEF Owed, Deciphers, Astray
    <3>2. QED
      BY <1>1, <2>2, <3>1 DEF Carries, Work
  <2>4. g.by \in Provider /\ g.by # Null /\ g.text \in Text
    BY <2>3, CryptoAssumption DEF SetCall
  <2>5. \A p \in visible[t] : p = g.by
    BY <1>1
  <2>6. CASE GetCheck(t)
    <3>1. Goto(t, "getCheck", "getDecrypt")
      BY <2>4, <2>5, <2>6 DEF GetCheck
    <3>2. QED
      BY <1>1, <3>1 DEF Goto
  <2>7. CASE GetDecrypt(t)
    <3>1. DecryptPropertyValue(Wrapped(g), g.by) = {Value(g.text)}
      BY <2>4, WrappingUnwraps DEF DecryptPropertyValue, Wrapped
    <3>2. PICK how \in DecryptPropertyValue(Wrapped(g), g.by) :
             \/ how = Security /\ End(t, "getDecrypt", Security)
             \/ \E y \in how.text : Produce(t, "getDecrypt", y, job[t].passes - 1)
      BY <2>3, <2>4, <2>5, <2>7 DEF GetDecrypt
    <3>3. how = Value(g.text) /\ how # Security /\ how.text = {g.text}
      BY <3>1 DEF Value, Security
    <3>4. Produce(t, "getDecrypt", g.text, job[t].passes - 1)
      BY <3>2, <3>3
    <3>5. End(t, "getDecrypt", Value(g.text))
      BY <2>3, <3>4 DEF Produce
    <3>6. QED
      BY <1>1, <3>5 DEF End
  <2>8. QED
    BY <2>1, <2>6, <2>7
<1>5. QED
  BY <1>3, <1>4

\* For any number of threads, whoever sets properties and providers meanwhile,
\* getProperty answers with exactly what setProperty(key, value, true) was given, if the
\* only provider it can see is the one that encrypted the value; the one with a default,
\* which decrypts twice, does so for what does not look encrypted.
THEOREM AnswersWhatWasSet == Spec => ReturnsWhatWasSet
<1>1. ASSUME CInv, [Next]_vars
      PROVE  [\A t \in Thread : \A g \in Owed(t) :
                (job[t].twice => ~IsEncryptedValue(g.text)) => Delivers(t, g)]_vars
  BY <1>1, AnswersWhatIsOwed
<1>2. QED
  BY <1>1, AlwaysCInv, PTL DEF Spec, ReturnsWhatWasSet
=============================================================================
