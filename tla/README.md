# A verification development for ezbake-common

TLA+ modules for the C++ and Java utilities of ezbake-common: what they keep, what each
call does to it, how threads and the environment interleave with it, and what holds
whatever they do. TLC checks small instances; TLAPS proves what matters most for all of
them. Source paths below are relative to `src/main` of the repository (in
`PROJECT.json`: `src/src/main`).

## 1. The system

The repository is a library. Nothing in it runs by itself: its users' threads call it, and
the operating system (clock, files, environment, class path) changes beneath it.

| Component | State | Operations | Interacts with | What is hard |
|---|---|---|---|---|
| `LRUCache<K,V>` (`cpp/.../lrucache/LRUCache.h`) | a Boost bimap: a list of key-value pairs in order of use, with an index by key; a capacity, 0 for none; a recursive mutex | put, get, pop, remove, clear and the queries | its users; `LRUTimedCache` derives from it | the list order is the only record of use; a put into a full cache; a pair put again; several values of a key |
| `LRUTimedCache<K,V>` (`LRUTimedCache.h`) | the same container over values with the second they were put in; an expiration | put, get, pop, getKey, containsValue, remove | `LRUCache` and its mutex; the wall clock | get and pop judge what they took after they gave up the mutex; getKey walks the list and removes as it goes; the clock may be set back; stamps are truncated and the clock is not |
| `EzProperties`, the store (`java/.../properties`) | a hash table and a reference to a table of defaults | mergeProperties, loadFromDirectory, loadFromClassPath, setProperty | `java.util.Properties`, whose methods lock; whoever changes the defaults or what is merged | the two readings of the check and the copy are three calls; a load is a merge for each file, in any order, and may fail after some |
| `EzProperties`, encrypted values | the `TextCryptoProvider` field | setTextCryptoProvider, setProperty, getProperty | providers; the markers of `PropertiesEncryptionUtil` | the field is read twice, without the lock its setter takes; values that look encrypted; getProperty with a default calls getProperty |
| `HostAndPort` (`HostAndPort.h`) | none: values | fromHost, fromParts, fromString, toString, ==, < | `OpenShiftUtil::getThriftPrivateInfo` makes one of the environment | port bounds and signs; equality against order; printing against parsing |
| `PbeMd5AndDesEncryptor`, `Base64Util` (`cpp/security`) | none between calls | encrypt, decrypt, key derivation | OpenSSL; `SharedSecretTextCryptoProvider` | padding at the edges, the count of digests, bytes of a wrong decryption |
| `ClasspathResources`, `SSLContextUtil` | none between calls | getResource, loadKeystore, getSSLContext | the file system, class loaders, the JDK's key stores | files replaced between looking, opening and reading; one of two stores failing |
| `TextCryptoProvider` and its implementations (both sides) | none | encrypt, decrypt | `EzProperties`; the encryptor; Jasypt in Java | who can decrypt what whom encrypted: secret, salt and count in two places |
| `OpenShiftUtil` (C++ and Java), `EzProperties.getPath` | none | the directories of a container, paths in them | the environment | variables not set, empty or blank; separators at the end; two languages in one container |
| `StringConversionUtil` (C++), the typed getters of `EzProperties` (Java) | none | numbers and booleans of texts | texts of properties and variables | bounds of each width, blanks, what says nothing |
| `DateUtils` (Java) | none | the date, the time with its zone, both | the clock, the default zone | a date and time of two readings of the clock; zones west of UTC by parts of an hour |

What makes each of them correct: the cache is an LRU multimap (4.1); the timed cache serves
nothing too old and loses nothing live for nothing (4.2); a merge that must not override
does not, a load that succeeds is complete (4.3); a reader sees what was set, decrypted by
a provider of its time (4.4); addresses have ports in range, print and parse, and are ordered
consistently with equality (4.5); decrypt undoes encrypt (4.6); a context is made of all
the stores that were asked for and of their content at the time (4.7); a date and time
denotes the instant it was made, and the two languages find the same directories and read the
same values (4.8).

## 2. The modules

| Module | Models |
|---|---|
| `LRUList` | the container's operators: relocation, insertion with eviction, erasure, the search for a key's least recently used entry. No state |
| `LRUCache` | `LRUCache`: one action for every public method, over `LRUList` |
| `LRUContract` | the abstract LRU multimap: a set of pairs and, for every pair, those used since it was |
| `LRUCacheHistory` | `LRUCache` with that history, and the refinement of `LRUContract` |
| `LRUTimedCache` | `LRUTimedCache` for several threads, an action between every two points where the mutex is taken or released or the clock is read, over `LRUList`; its refinement of `LRUTimedContract` |
| `LRUTimedCacheHistory` | the same with the tick at which every entry was put, and which entries have been expired at some moment (with a clock that is set back the two are not one thing) |
| `LRUTimedContract` | what threads that share the timed cache are promised: a set of stamped entries and which were last used before which; getKey and remove(key, value) in one step each |
| `EzProperties`, `EzPropertiesHistory` | the store; the history says which calls nobody disturbed, which keys the object has had all through a call, and what a call has compared |
| `EzPropertiesCrypto` | the provider and encrypted values |
| `HostAndPort` | addresses, and the program that makes and keeps some |
| `TextCryptoProvider` | the contract of the interface: the texts that somebody has, and what encrypt and decrypt may answer |
| `PbeMd5AndDesEncryptor` | padding, key derivation one digest at a time, encrypt, decrypt, the provider's way of calling them; the refinement of `TextCryptoProvider` |
| `SSLContextUtil`, `SSLContextUtilHistory` | `getSSLContext` step by step against changing files; the history is what each path has named during the call |
| `OpenShiftUtil` | the directories in C++ and in Java, and `getPath`, as operators of the variable |
| `Conversions` | `StringConversionUtil` and the Java getters of numbers and booleans, as operators of a text |
| `DateUtils` | the date, and the time with its zone, of an instant |
| `Surroundings` | the states those three are called in: an environment, a text, a clock and a zone that change; the two steps of `getCurrentDateTime` |
| `*Proofs` | theorems and their proofs (section 5) |
| `MC*` and `*.cfg` | the instances for TLC (section 4) |

How state and actions correspond to the code is in `PROJECT.json` under `map`, definition by
definition, with the lines. The choices a reader should know of:

- **LRUCache.** The bimap is the sequence of its right view (the list), front first. Its
  left view is an index of the same pairs; what the code finds there is a set of positions.
  Every method locks the mutex for all of its body, so every method is one action, and
  the threads that call them need not be told apart. `capacity` is a variable that never
  changes, so that one run covers several.
- **LRUTimedCache.** `put` stamps before it locks; `get` and `pop` judge after they unlock;
  `getKey` and `remove(key, value)` keep the mutex through many steps. So there is a program
  counter a thread, `held[t]` is what its local variables hold, and `scan` is the loop of
  the `getKey` that owns the mutex. The mutex is recursive: its owner passes. A get or a pop that serves its entry still holds it at
  `answer`, until it returns, so that what was served is seen by the properties.
- **The contract of the timed cache.** An entry that a getKey or a remove is going to remove before it
  releases the mutex counts as gone (`Content`): nobody else can look. So getKey takes
  effect when its walk ends, remove(key, value) when it takes the mutex. put is stamped at one
  moment and inserted at another; get and pop take an entry at one moment and judge it at a
  later, and a get that finds it expired removes it at a third: the code promises no more, and
  neither does the contract.
- **EzProperties.** The methods of `java.util.Properties` are synchronized, `getCollisions` is not: it
  reads the names of this object under its monitor, releases it, and reads those of what is to be merged
  under the monitor of that object; `putAll` is a third call. So `Check`, `Compare` and `Put` are three actions,
  between which others set keys here, change the defaults, and change what is merged or
  its defaults; every file of a load is such a triple. The directory stream gives the files in any order.
- **EzPropertiesCrypto.** A text is a word in layers of encryption. `visible[t]` is what a
  read of the unsynchronized field may return to `t` under the Java memory model: every
  provider since `t` last took the object's monitor. `TableLocksObject` says whether
  the table's methods take that monitor: they do where `Properties` is the `Hashtable`
  (Java up to 8); from Java 9 on it delegates to a map and reads do not lock.
- **HostAndPort.** A string is the sequence of what stands between its delimiters. A numeral
  is the integer it says, so `lexical_cast<unsigned>` of a negative one is its remainder.
- **PbeMd5AndDesEncryptor.** MD5, DES-CBC and Base64 are ideal: a decryption under another
  schedule, or of a text that encrypt did not make, is any bytes of that length. The padding
  arithmetic, the signed pad byte and the count are those of the code. `Weak` keys leave
  the schedule uninitialized, because nobody looks at the answer of `DES_set_key_checked`.
- **SSLContextUtil.** A file that is replaced keeps its old content for those who have it
  open; one that is written over has the new content, or is torn. What a key store says, and
  what opens it, is given by relations.
- **Surroundings.** A variable is a set with its text, or an empty one when it is not set; a result
  is a value, or the name of an exception and no value. An integer is what a text says, so a width
  is a range. A text also has a spelling: one that both libraries read (`NaN` and `Infinity` just so), one that
  only `lexical_cast` does (`nan`, `INF`, `infinity`), or one that only Java does (`1d`, `1f`, hexadecimal floats,
  which the streams of the GNU library do not read). A number that is too large for a width makes
  `lexical_cast` throw and is infinity to Java. An instant is a minute of UTC: seconds go with the minutes, and a day stands for
  its day, month and year, which the code reads from one Calendar.
- **The contract of a provider.** Its secrets are, in the refinement, password, first block of
  the salt, and count. Texts made under a short salt or a key DES does not accept are outside
  the contract, so nothing there is promised of them.

## 3. Assumptions that are not in the code

Named `ASSUME`s give the constants their types; what TLC evaluates there the proofs use. No
proof uses a bound of a run. Beyond them: OpenSSL's functions succeed and are ideal as
above (out of memory and failing digests are not modelled); class path resources do not
change during a call; a thread does not die within a call.

## 4. The runs

`Interchangeable` is the symmetry of a safety run; liveness runs have none. Deadlock is
checked everywhere. Every property of a passing run has a mutant, a plausible slip in
a mapped definition, that breaks it under the same configuration; the mutated forms stand
beside the originals, marked as such.

### 4.1 LRUCache

`lru`: two keys, two values, capacities 0, 2 and 3. Four pairs and three capacities are
enough for a cache without a limit, one smaller than a key's values and one between; two
keys make a key's least recently used entry differ from the list's.

- `NoDuplicatePairs`, `WithinCapacity`: put erases an equal pair and evicts at most one
  entry; that this is always enough is an invariant over all calls.
- `RecencyOrder`, `RetainsWorkingSet`: the list's order is the order of use, as the history
  of calls defines it, and a put evicts only what as many other pairs were used after.
- `ImplementsContract`: refinement. Every call returns what `LRUContract` allows, and changes
  the set of pairs as it does.

`lru_valueset_absent` (violated): `valueSet` of a key that is not there reads through the end
of an empty range (`LRUCache.h:149`).

### 4.2 LRUTimedCache

`timed`: two threads, one key, two values, capacity 2, an expiration of one second, two ticks a
second and a wall clock of three ticks that may be set back at any time. One key with two
values makes a key's entries differ and fills the cache; the search for a key's least recently
used entry among others' is `LRUList`'s, which `lru` checks with two keys. Two ticks a second are
what a truncated stamp needs, two threads what a race needs. The properties are checked together
because they are about the same races: 285,667 distinct states, two minutes.

- `WellFormed`, `ScanIsSound`: no pair twice, never over capacity; who walks over the
  container owns the mutex and nobody has moved what it collected.
- `ExpirationWindow`: a property of the steps of get, pop and getKey that serve an entry (`Served`) or refuse
  it (`Refused`): what is served was put less than the expiration ago, and what is refused more than
  the expiration less a second, even by a clock that was set back, and although get and pop judge an entry
  after they gave up the mutex, when somebody may have put an equal one. (It may be refused up to a second early:
  the stamp is truncated. The test `LRUTimeCacheTests.cpp:99` may fail for that.)
- `LiveEntriesKept`: what get and getKey expunge has been expired and put evicts only what is
  first in a full cache, although get decides without the mutex and others may have removed
  the entry, put an equal one or set the clock back since.
- `GetKeyAnswers`: getKey returns a key that has the value, or none has it.
- `ImplementsContract`: refinement of `LRUTimedContract`. The threads see what they would see of a
  cache whose getKey and remove(key, value) are atomic: getKey finds the least recently used live
  entry with its value and expunges just those it passed over; get and pop take the key's least recently used
  entry and answer with it when it is live and with nothing when it is not; a put drops the least recently used entry of all, and only when there is no room.
- `CallsProgress`: a call that has begun has a bounded number of steps left (`StepsLeft`): each
  of its own leaves fewer, and what others and the clock do leaves as many. This is the part of
  liveness that needs no fairness.
- `CallsReturn`: a call is held up for ever only by other threads that keep owning the mutex.
  **Fairness:** `WF` of each thread's steps *inside* a call, the operating system's scheduling.
  Nobody has to begin a call, the clock need not advance, and a mutex is not fair: so the
  property asks for no more than that, and a mutex that is not recursive breaks it.

`timed_live_key` (violated): one thread. `get` looks at the key's least recently used entry
only, and answers nothing when that one has expired though a live one stands behind it
(`LRUTimedCache.h:167`).

### 4.3 EzProperties, the store

`props`: two threads, one key, two values, two files, defaults that change at any time. One
key is enough: collisions are by key, and keys do not influence each other. Two files and
two threads are what the order of a load and a race need.

- `KeepsWhatItChecked`: the copy of a merge that must not override, whether it succeeds or fails, changes no key that the
  object has had, of its own or by default, ever since the call began or itself put it there from an earlier
  file (`kept`). Neither of the two readings of the check is the moment at which it all holds: what others set,
  remove or change before, between and after them is in the run. The one exception: keys that others
  have added to the properties it merges after these were compared (`checked`), for they are the caller's object and
  are read twice. A key that another thread sets *here* after the first reading is not in `kept`:
  it may be overridden, in the check as well as between check and copy (section 6).
- `LoadIsComplete`: a load that returns normally, must not override and was not disturbed has
  put every key of every file there, with that file's value.

The run has 514,281 distinct states.

### 4.4 EzProperties, encrypted values

`crypto`: two threads, two providers, texts with up to two layers, no blanks around markers.

- `ReadsAreFresh`: getProperty decrypts with a provider that was current during the call,
  although it reads the field without the lock: fetching the value takes it. With
  `TableLocksObject` false (Java 9 and later) this does not hold.
- `ReturnsWhatWasSet`: getProperty(key) returns the text given, even one that looks encrypted; the one
  with a default, which decrypts twice, returns every other text, whoever sets the property or the provider
  between its steps.

`crypto_default` (violated): one thread, one provider, blanks allowed. getProperty with
a default decrypts twice (`EzProperties.java:123`).

### 4.5 HostAndPort

`host`: unsigned numbers of three bits, ports 0 to 3, three addresses held at a time
(transitivity speaks of three), strings with no delimiter, one and two; numerals on both sides
of every bound, negative ones that wrap to a port and to none.

- `TypeOK`: no way of making an address gets a port past `MAX_PORT`.
- `PrintedParsesBack`: an address with a port is parsed from what it prints. One without is
  not: `toString` writes the delimiter and `fromString` refuses what follows.
- `DifferentAreOrdered`: of two different addresses one is less, and that is transitive.

`host_order` (violated): two equal addresses without port are each less than the other
(`HostAndPort.h:112`).

### 4.6 Text encryption

`pbe`: blocks of two bytes and longs of three bits; texts of every length up to a block, with
endings that look like pads; a salt that is too short, and two with the same first block;
counts of 0, 1 and 3; a key DES does not accept; texts that encrypt did not make.

- `ImplementsContract`: refinement. Of a text that encrypt has made and somebody still has, decrypt
  under the same secret gives the message and does not fail, through whichever of the two
  interfaces (the encryptor itself, or the provider with its fixed salt and count) it was made.
- `RoundTrip`: the same password, first block of the salt and count decrypt what was
  encrypted, unless DES does not accept the key.
- `DigestedAsAsked`: a call that ends has taken as many digests as asked. For zero and below
  the count goes round through the least long: 2^64 digests, in effect never.
- `CallsEnd`: a call that asks for at least one digest ends. **Fairness:** `WF` of the loop and
  what follows it: a call that runs.

### 4.7 Key stores

`ssl`: a path with and without slash and another, two key stores and a torn one, a resource
behind the first path only, eight combinations of path, password and type (among them a missing password, a missing
type, a wrong password, an unknown type, and no store at all) for each of the two stores, files
that change at every step.

- `ContextIsComplete`: a context comes only of all the stores asked for, each opened with its
  own password and type, and the keys with the key store's.
- `StoresAreCurrent`: each is what its path named at some moment during the call, a file before
  a resource, and never torn. The two may be of different moments: nothing promises more.

### 4.8 The surroundings

`surroundings`: days of two hours of three minutes, a clock of nine minutes that goes
forward and back over midnight, offsets of a whole hour, of more and of less on both sides of UTC; variables that
are not set, empty, blank, the root, relative, absolute, and with separators doubled and at the
end; texts at and past the bounds of numbers of one, two and three bits, decimals that fit a float, only a double,
and none, not-a-number and infinity in the spelling both sides know and in those of `lexical_cast`, numbers in those of Java,
the words and letters both sides know, and blanks around some. The operators are of one reading each, so
one of every kind of text, path and offset is enough; what takes several steps is the date and
time, which needs a midnight and a change of zone between its two readings.

- `DateTimeIsRight`: a DateTime denotes the instant at which its time was read, in every zone. When
  midnight passed between its readings it is wrong by whole days, and by nothing else.
- `SidesFindTheSame`: where C++ sees a container so does Java, both name the same directories, and a
  path of a property is the same file to both. Only there: see section 6 for a blank variable.
- `SidesReadTheSame`: an integer that C++ makes of a text is the same to Java, which gives the default where C++
  throws, and `true` and `false` are the same. A finite number that C++ makes is the same to Java; what C++ takes for
  infinity or not a number is the same or the default; where C++ throws, Java gives the default, or infinity when the
  number is too large, unless it alone reads the spelling. And the Java getters of different widths agree: a narrower
  one never answers with part of a number, nor a float with another number than the double. So the two sides do
  differ, in the ways section 6 lists, and in no other.

## 5. The proofs

Each follows the same lines: an inductive invariant in named parts, checked by TLC first,
one lemma for the actions that disturb it, and `PTL` to combine them.

- `LRUListProofs`, `LRUCacheProofs`. The first module proves what the list operators preserve and
  what they do to the set of pairs. `WithinCapacity` is not inductive by itself: that one eviction
  is enough needs that an equal pair is there at most once, so type, absence of duplicates and
  capacity are one invariant, `WellFormed` (`TypeCorrect`, `NeverDuplicated`, `NeverOverCapacity`).
  `OrderOfUse` adds the history to it: it is finite and agrees with the order of the list,
  because every use moves a pair to the back of both. From that `WorkingSetStays`: what is at
  the front of a full cache has as many others used after it as the capacity leaves.
  `Implements` maps every call to one of `LRUContract`, with both.
- `LRUTimedCacheProofs`, for any number of threads and a clock that may be set back. `IInv`: whoever
  is in a section owns the mutex (`Sound`), what a getKey has collected is what it has passed
  and nothing it has found (`Collected`), and the list is that of the plain cache (`TypeCorrect`,
  `StaysWellFormed`, `ScansAreSound`, `KeysAreFound`). `CInv` adds that a call has one entry in its hands,
  and that a walk looks for one value and has collected only that, expired if the clock is never set
  back. From it `Implements`, action by action: `Told` says what the container is to others, given who owns
  the mutex; `Keeps` and `Uses` say what a removal and an insertion do to the order, as a relation between
  entries and not positions (`OrderIsKept`, `LastIsBehind` of `LRUListProofs`). `Progress`
  (`CallsProgress`) counts what is collected, which `Sound` bounds by the container.
  `HInv` adds the entries' lives: a remembered
  entry carries the second it was put in (`Born`), every entry around has been put (`Known`), and who means to
  remove an entry has judged it expired (`Judged`). `LiveEntriesStay` follows, and `Expires` (`ExpirationWindow`): the steps
  that serve and refuse are guarded by `Expired` of the stamp, at the clock of the step, and the
  stamp is the second of the put.
- `EzPropertiesProofs`: `MergeKeepsKnown` (`KeepsWhatItChecked`), for any threads, keys and files.
  The invariant (`Remembers`): between the two readings all that the object has had since the call began is
  among the names read first; after the second, none of it is among the names compared, and what a file holds
  is among them. So it is kept although no moment exists at which both objects were read.
  `TypeCorrect` adds the tables. `LoadsComplete` (`LoadIsComplete`): a load that nobody disturbed has in
  the object all files it is done with but the one it is merging, and its check knew every name
  the object has, so that the copy of one file replaces nothing of another's.
- `EzPropertiesCryptoProofs`: `ReadsFresh`, under `TableLocksObject`. The invariant says that
  what a thread may see beyond its call's providers is gone once it has taken the monitor.
  `AnswersWhatWasSet` (`ReturnsWhatWasSet`) and `TypeCorrect`, without that assumption, from `CInv`:
  what was set last for a key is stored as it was wrapped (`Tables`), and what a call carries is
  what it was given or has fetched (`Works`), unless its second decryption has gone `Astray`, which takes
  a text that looks encrypted or a provider other than the one that encrypted it.
- `HostAndPortProofs`: `PortsInRange` (`TypeOK`), `Ordered` (from it, a case analysis over hosts
  and ports), `ParsesBack` (from facts about sequences and remainders). For every width of
  an unsigned number. The module also holds the theorems about `Surroundings`, a separate system that
  shares no state with addresses: `ReadingsCorrect`, `DateTimesRight` (for every offset and every
  length of hours and days, from facts about quotients), `ReadTheSame` (for every width, text and spelling)
  and `FindTheSame` (for every variable and path): a place is a path's names and single separators, in
  order. The proof counts ranks: two paths that keep the same letters at the same ranks name one
  place (`SamePlace`), and a second separator where two paths are joined is not kept (`NoSecondSeparator`).
- `PbeMd5AndDesEncryptorProofs`: `UnpadsWhatItPads`, a lemma for every text and size of
  a block; `Counted`, with the invariant that count and digests add up, through the wrap;
  `RoundTrips` from both; `Implements`, the refinement of `TextCryptoProvider`, where the invariant says
  that what somebody has was made by its password, salt and count; `TypeCorrect`.
- `SSLContextUtilProofs`: `Complete`. The invariant: what is loaded was asked for and opens, and
  the call comes to the trust store, and to the context, only with what was asked for before.
  `Current` (`StoresAreCurrent`) from the history: what is open has been named, and when the class
  path is to be searched its resource has been. `TypeCorrect`.

Only model-checked: liveness under fairness (`CallsReturn`, `CallsEnd`), which the prover does not reach; of
`CallsReturn` the bound on a call's own steps is proved (`Progress`), and what is left to TLC is that
fairness makes the thread take them. Every other property of a passing run is proved.

## 6. Other divergences met while modelling

The four violated runs are in `PROJECT.json` under `findings`. Without a run of their own:

- `LRUTimedCache.h:37,303`: the stamp is truncated to seconds and the clock is not: an entry
  may expire up to a second before the "expiration in seconds" of line 101.
- `EzProperties.java:274-298`: the two readings of the check and the copy are not one step: of two merges that
  must not override, one may override what the other has copied after the first one's first reading.
- `EzProperties.java:344`: the exception of a colliding load names the keys of the first
  file that collides, and the files before it stay merged; line 309 speaks of all the keys.
- `EzProperties.java:291,297`: what `toMerge` gains between the check and the copy is copied unchecked,
  and a change during the copy ends it with a ConcurrentModificationException that no comment names,
  with a part of the keys merged.
- The same lines: names that `toMerge` has only by default are checked and not copied.
- `EzProperties.java:382-386`: a provider set to null between the check and the use makes a
  NullPointerException, where line 98 promises an IllegalStateException.
- `ClasspathResources.java:43-51`: what the context class loader finds is overwritten: a resource
  that only it has is not found, though lines 28-31 say that it is looked at.
- `OpenShiftUtil.cpp`, `getRepoDir`: a variable that is not set makes a `std::logic_error` of the null
  pointer before the test whose exception says that it is not set; that test meets only an empty one.
- The same: a blank variable is no container to `inOpenShiftContainer` and a directory to `getRepoDir`;
  to Java every variable that is set, an empty one too, is a container, and `getPath` then makes
  the path `x` absolute, `/x`.
- `EzProperties.getBoolean`: its comment and its code differ for texts other than `true` and `false`, for
  which the default is returned. C++ takes `1`, `t`, `y` and `yes` as true and all else as false.
- Blanks around a text: Java cuts them off booleans and doubles and not off integers, where it gives
  the default; `lexical_cast` throws. Where Java has a default C++ throws for any text it cannot read.
- Doubles and floats (`EzProperties.java:185,197`, `StringConversionUtil.h:55,63`): `nan`, `inf` and `infinity` in any case are
  numbers to `lexical_cast`; Java knows only `NaN` and `Infinity` and gives the default for the others. `1d`, `1f` and
  hexadecimal floats are numbers to Java only. A number that is too large is infinity to Java and an
  exception in C++.
- `PbeStringEncryptor.h`: the salt is optional and `""` by default, and a salt shorter than a block is always
  refused: calls that use the default fail.
- `DateUtils.java:61`: a DateTime may be a day off when midnight passes between its two readings.
- `HostAndPort.h:58`: a negative port wraps modulo 2^32 before the range check.

## 7. Not modelled

- Java `getThriftPrivateInfo`: it hands two variables to Guava's `HostAndPort`.
- `NoOpTextCryptoProvider` returns what it is given; the Java `SharedSecretTextCryptoProvider`
  delegates to Jasypt. Neither has a step of its own.
- `PropertiesEncryptionUtil` for other `Properties` objects: `isEncryptedProperty` and
  `decryptProperty` read the value once each, from a table the caller owns.
- An `EzProperties` as the defaults of another, where `getProperty` of the defaults decrypts with
  their provider and the outer one takes the answer for a stored value.
- A copy whose keys are read at different moments: `Put` reads all values of what it merges at
  once. Which keys it copies, and that a change during the copy may end it, is modelled
  (`PutFails`), and no property relates the values of two keys.
- The ciphers, digests and key stores themselves: OpenSSL, Jasypt and the JDK.
- Rounding of decimals, the sign of infinity, a plus sign or zeros before an integer, and seconds and milliseconds of times.
- Memory and handles: digest contexts lost on a short salt and streams that are never closed
  are listed as hazards.

## 8. Plan

Done, in this order: the LRU cache and its contract; the timed cache; the store; encrypted
values; addresses; text encryption; key stores; the directories, conversions and dates; the
contracts of a provider and of the timed cache; theorems for every property of the passing runs
but liveness.

Next:

1. *Model.* `EzProperties` objects as defaults of each other; the static helpers of
   `PropertiesEncryptionUtil` against a table that changes.
2. *Prove.* A bound on the steps of a call for the store and for the key stores; that a getKey's answer was
   right at one moment, as a theorem about `LRUTimedContract` that all its implementations have.
