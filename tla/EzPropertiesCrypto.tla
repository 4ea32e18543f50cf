-------------------------- MODULE EzPropertiesCrypto --------------------------
(***************************************************************************)
(* EzProperties and its TextCryptoProvider: properties whose values are    *)
(* stored encrypted, between the markers ENC~( and )~, and are decrypted   *)
(* when they are read.                                                     *)
(*                                                                         *)
(* setTextCryptoProvider is synchronized; setProperty and decrypt read the *)
(* field twice, once to check it and once to use it, and are not.  So a    *)
(* read may return any provider that was current when its thread last took *)
(* the monitor of the object, or that was set since (the Java memory model *)
(* orders a racing read no further).                                       *)
(*                                                                         *)
(* A text is a word wrapped in layers of encryption, the outermost first.  *)
(* A layer has the provider that encrypts it and says whether blanks       *)
(* surround its markers, as they may in a value that comes from a file.    *)
(***************************************************************************)
EXTENDS Integers, Sequences

CONSTANTS Thread,
          Key, Word,
          Provider, Null,     \* the providers; Null is not one
          MaxLayers,          \* bound: layers of a text
          Blanks,             \* bound: may there be blanks around the markers?
          TableLocksObject    \* do the table's methods lock the object?  (They do in
                              \* a Java up to 8, where Properties is the Hashtable.)

ASSUME CryptoAssumption == /\ Null \notin Provider
                           /\ MaxLayers \in Nat
                           /\ Blanks \in {{FALSE}, BOOLEAN}
                           /\ TableLocksObject \in BOOLEAN

VARIABLES table,           \* the values as stored: a set with at most one text a key
          cryptoProvider,  \* the field
          visible,         \* visible[t]: what a racing read of the field may return
          pc,              \* pc[t]: where t is in its call
          job,             \* job[t]: what t's call has in local variables
          outcome,         \* outcome[t]: how t's last call ended
          given,           \* history: given[k] is the text last set for k, encrypted,
                           \* with the provider that did it
          during           \* history: the providers current during t's call

vars == <<table, cryptoProvider, visible, pc, job, outcome, given, during>>

Layer == [by : Provider, blank : Blanks]
Text  == [word : Word, layers : UNION {[1 .. n -> Layer] : n \in 0 .. MaxLayers}]

(***************************************************************************)
(* PropertiesEncryptionUtil.                                               *)
(***************************************************************************)
IsEncryptedValue(x) == x.layers # <<>>

\* encryptPropertyValue.  Mutant: the value is encrypted twice.
WrapTwice(x, p) == [x EXCEPT !.layers = [i \in 1 .. 2 |-> [by |-> p, blank |-> FALSE]] \o @]
EncryptPropertyValue(x, p) == [x EXCEPT !.layers = <<[by |-> p, blank |-> FALSE]>> \o @]

Value(x)     == [is |-> "value", text |-> {x}]
None         == [is |-> "null", text |-> {}]
Illegal      == [is |-> "IllegalStateException", text |-> {}]
NullPointer  == [is |-> "NullPointerException", text |-> {}]
Security     == [is |-> "SecurityException", text |-> {}]

\* What may come of decryptPropertyValue(x, p).  isEncryptedValue ignores blanks
\* around the markers, getInnerValue cuts at fixed distances from the ends: with
\* blanks the provider is given something else than what it once returned.  That,
\* or another provider's text, it refuses or turns into any other text.
DecryptPropertyValue(x, p) ==
  IF Head(x.layers) = [by |-> p, blank |-> FALSE]
  THEN {Value([x EXCEPT !.layers = Tail(@)])}
  ELSE {Security} \cup {Value(y) : y \in Text}

\* passes: how often getProperty will still decrypt; twice: is it the one with a
\* default; set: history, what the setProperty that is encrypting, or the one whose
\* text the getProperty has fetched, was given, and the provider it encrypted with.
NoJob == [key |-> {}, text |-> {}, passes |-> 0, twice |-> FALSE, set |-> {}]

Init ==
  /\ table = [k \in Key |-> {}]
  /\ cryptoProvider = Null
  /\ visible = [t \in Thread |-> {Null}]
  /\ pc = [t \in Thread |-> "idle"]
  /\ job = [t \in Thread |-> NoJob]
  /\ outcome = [t \in Thread |-> None]
  /\ given = [k \in Key |-> {}]
  /\ during = [t \in Thread |-> {}]

Goto(t, from, to) == pc[t] = from /\ pc' = [pc EXCEPT ![t] = to]

Begin(t, to, call) ==
  /\ Goto(t, "idle", to)
  /\ job' = [job EXCEPT ![t] = call]
  /\ outcome' = [outcome EXCEPT ![t] = None]
  /\ during' = [during EXCEPT ![t] = {cryptoProvider}]

End(t, from, how) ==
  /\ Goto(t, from, "idle")
  /\ job' = [job EXCEPT ![t] = NoJob]
  /\ outcome' = [outcome EXCEPT ![t] = how]
  /\ during' = [during EXCEPT ![t] = {}]

\* t holds the object's monitor in this step: it sees all that was done under it.
\* Mutant: nothing is seen for it.
SynchronizesNothing(t) == UNCHANGED visible
Synchronizes(t) == visible' = IF TableLocksObject
                              THEN [visible EXCEPT ![t] = {cryptoProvider}] ELSE visible

SetTextCryptoProvider(t, p) ==
  /\ pc[t] = "idle"
  /\ cryptoProvider' = p
  /\ visible' = [u \in Thread |-> IF u = t THEN {p} ELSE visible[u] \cup {p}]
  /\ during' = [u \in Thread |-> IF pc[u] = "idle" THEN {} ELSE during[u] \cup {p}]
  /\ UNCHANGED <<table, pc, job, outcome, given>>

(***************************************************************************)
(* setProperty(key, value) and setProperty(key, value, isEncrypted).       *)
(***************************************************************************)
SetPlain(t, k, x) ==
  /\ pc[t] = "idle"
  /\ table' = [table EXCEPT ![k] = {x}]
  /\ given' = [given EXCEPT ![k] = {}]
  /\ Synchronizes(t)
  /\ UNCHANGED <<cryptoProvider, pc, job, outcome, during>>

SetEncrypted(t, k, x) ==
  /\ Len(x.layers) < MaxLayers
  /\ Begin(t, "setCheck", [NoJob EXCEPT !.key = {k}, !.text = {x}])
  /\ UNCHANGED <<table, cryptoProvider, visible, given>>

SetCheck(t) ==
  /\ \E p \in visible[t] :
       \/ p = Null /\ End(t, "setCheck", Illegal)
       \/ p # Null /\ Goto(t, "setCheck", "setEncrypt") /\ UNCHANGED <<job, outcome, during>>
  /\ UNCHANGED <<table, cryptoProvider, visible, given>>

SetEncrypt(t) ==
  /\ \E p \in visible[t], x \in job[t].text :
       \/ p = Null /\ End(t, "setEncrypt", NullPointer)
       \/ /\ p # Null
          /\ Goto(t, "setEncrypt", "setStore")
          /\ job' = [job EXCEPT ![t].text = {EncryptPropertyValue(x, p)},
                                ![t].set = {[text |-> x, by |-> p]}]
          /\ UNCHANGED <<outcome, during>>
  /\ UNCHANGED <<table, cryptoProvider, visible, given>>

SetStore(t) ==
  /\ \E k \in job[t].key :
       /\ table' = [table EXCEPT ![k] = job[t].text]
       /\ given' = [given EXCEPT ![k] = job[t].set]
  /\ Synchronizes(t)
  /\ End(t, "setStore", None)
  /\ UNCHANGED cryptoProvider

(***************************************************************************)
(* getProperty(key) decrypts what it finds, once.  getProperty(key, value) *)
(* asks java.util.Properties, which calls the overridden getProperty(key), *)
(* takes the default for a key that is not there, and decrypts the result  *)
(* once more.                                                              *)
(***************************************************************************)

\* History: what was set for the value that the call fetches in this step, or has
\* fetched.
Owed(t) == IF pc[t] = "getFetch" THEN UNION {given[k] : k \in job[t].key} ELSE job[t].set

\* A step of the call has produced x: it is the answer unless it looks encrypted
\* and is to be decrypted.
Produce(t, from, x, passes) ==
  IF passes > 0 /\ IsEncryptedValue(x)
  THEN /\ Goto(t, from, "getCheck")
       /\ job' = [job EXCEPT ![t].text = {x}, ![t].passes = passes, ![t].set = Owed(t)]
       /\ UNCHANGED <<outcome, during>>
  ELSE End(t, from, Value(x))

GetProperty(t, k) ==
  /\ Begin(t, "getFetch", [NoJob EXCEPT !.key = {k}, !.passes = 1])
  /\ UNCHANGED <<table, cryptoProvider, visible, given>>

GetPropertyOr(t, k, dflt) ==
  /\ Begin(t, "getFetch", [NoJob EXCEPT !.key = {k}, !.text = {dflt}, !.passes = 2,
                                        !.twice = TRUE])
  /\ UNCHANGED <<table, cryptoProvider, visible, given>>

GetFetch(t) ==
  /\ \E k \in job[t].key :
       \/ \E x \in table[k] : Produce(t, "getFetch", x, job[t].passes)
       \/ table[k] = {} /\ job[t].text = {} /\ End(t, "getFetch", None)
       \/ \E d \in job[t].text : table[k] = {} /\ Produce(t, "getFetch", d, 1)
  /\ Synchronizes(t)
  /\ UNCHANGED <<table, cryptoProvider, given>>

GetCheck(t) ==
  /\ \E p \in visible[t] :
       \/ p = Null /\ End(t, "getCheck", Illegal)
       \/ p # Null /\ Goto(t, "getCheck", "getDecrypt") /\ UNCHANGED <<job, outcome, during>>
  /\ UNCHANGED <<table, cryptoProvider, visible, given>>

GetDecrypt(t) ==
  /\ pc[t] = "getDecrypt"
  /\ \E p \in visible[t], x \in job[t].text :
       \/ p = Null /\ End(t, "getDecrypt", NullPointer)
       \/ /\ p # Null
          /\ \E how \in DecryptPropertyValue(x, p) :
               \/ how = Security /\ End(t, "getDecrypt", Security)
               \/ \E y \in how.text : Produce(t, "getDecrypt", y, job[t].passes - 1)
  /\ UNCHANGED <<table, cryptoProvider, visible, given>>

Next ==
  \E t \in Thread :
    \/ \E p \in Provider \cup {Null} : SetTextCryptoProvider(t, p)
    \/ \E k \in Key, x \in Text : SetPlain(t, k, x) \/ SetEncrypted(t, k, x)
    \/ SetCheck(t) \/ SetEncrypt(t) \/ SetStore(t)
    \/ \E k \in Key : GetProperty(t, k)
    \/ \E k \in Key, x \in Text : GetPropertyOr(t, k, x)
    \/ GetFetch(t) \/ GetCheck(t) \/ GetDecrypt(t)

Spec == Init /\ [][Next]_vars

-----------------------------------------------------------------------------

\* Values have no more layers of encryption than the calls put on them, and what a
\* call has in its local variables is of their types.
TypeOK ==
  /\ \A k \in Key : table[k] \subseteq Text
  /\ cryptoProvider \in Provider \cup {Null}
  /\ visible \in [Thread -> SUBSET (Provider \cup {Null})]
  /\ pc \in [Thread -> {"idle", "setCheck", "setEncrypt", "setStore", "getFetch",
                   "getCheck", "getDecrypt"}]
  /\ \A t \in Thread : /\ job[t].key \subseteq Key /\ job[t].text \subseteq Text
                       /\ job[t].passes \in 0 .. 2
                       /\ outcome[t].text \subseteq Text

\* getProperty decrypts with a provider that was current at some time during the
\* call, although it reads the field without synchronization: fetching the value
\* takes the monitor that setTextCryptoProvider takes.
ReadsAreFresh ==
  \A t \in Thread : pc[t] \in {"getCheck", "getDecrypt"} => visible[t] \subseteq during[t]

\* The getProperty that t ends answers with exactly the text g was set with, even one that
\* looks encrypted itself, if the only provider it can see is the one that encrypted it.
Delivers(t, g) ==
  /\ pc[t] \in {"getFetch", "getCheck", "getDecrypt"} /\ pc'[t] = "idle"
  /\ visible[t] \cup visible'[t] = {g.by}
  => outcome'[t] = Value(g.text)

\* getProperty(key) returns what setProperty(key, value, true) was given, whoever sets the
\* property or the provider meanwhile; and getProperty(key, defaultValue), which decrypts
\* twice, does so if that does not look encrypted.
ReturnsWhatWasSet ==
  [][\A t \in Thread : \A g \in Owed(t) :
       (job[t].twice => ~IsEncryptedValue(g.text)) => Delivers(t, g)]_vars

\* So does getProperty(key, defaultValue) in any case, if it "obtains the property value for
\* the specified key, decrypting it if needed" and returns "the decrypted value"
\* (EzProperties.java:110-119).  The code does not deliver it for a value that looks
\* encrypted itself: it decrypts a second time.
ReturnsWhatWasSetOrDefault ==
  [][\A t \in Thread : \A g \in Owed(t) : job[t].twice => Delivers(t, g)]_vars
=============================================================================
