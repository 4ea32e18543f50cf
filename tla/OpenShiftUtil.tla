----------------------------- MODULE OpenShiftUtil -----------------------------
(***************************************************************************)
(* The directories of an OpenShift container: what OpenShiftUtil makes of  *)
(* the environment variable OPENSHIFT_REPO_DIR, in C++ and in Java, and    *)
(* the Java EzProperties.getPath, which uses it.                           *)
(*                                                                         *)
(* A variable is a set with its text, or the empty set when it is not set. *)
(* A text is a sequence of names, Spaces and FILE_SEPARATORs.  A result is *)
(* a path, or the name of an exception and no path.                        *)
(***************************************************************************)
EXTENDS SequencesExt, Integers

CONSTANTS FILE_SEPARATOR, Space,
          Name,
          Config     \* the name of the configuration directory

ASSUME NamesAssumption ==
  /\ Config \in Name
  /\ FILE_SEPARATOR \notin Name \cup {Space} /\ Space \notin Name

Path(p)      == [is |-> "path", of |-> {p}]
Fails(what) == [is |-> what, of |-> {}]

StartsWithSeparator(p) == p # <<>> /\ Head(p) = FILE_SEPARATOR
EndsWithSeparator(p)   == p # <<>> /\ Last(p) = FILE_SEPARATOR

\* Mutant: the name is appended to what is there.
JoinedAsIs(dir, name) == Append(dir, name)
Joined(dir, name) ==
  IF EndsWithSeparator(dir) THEN Append(dir, name) ELSE dir \o <<FILE_SEPARATOR, name>>

Under(dir, file) == dir \o <<FILE_SEPARATOR>> \o file

(***************************************************************************)
(* C++.  To make a std::string of the null pointer that std::getenv        *)
(* returns for a variable that is not set throws.                          *)
(***************************************************************************)
InOpenShiftContainer(repo) == \E p \in repo : \E i \in DOMAIN p : p[i] # Space

GetRepoDir(repo) ==
  IF repo = {} THEN Fails("logic_error")
  ELSE IF repo = {<<>>} THEN Fails("runtime_error")
  ELSE [is |-> "path", of |-> repo]

GetConfigurationDir(repo) == [GetRepoDir(repo) EXCEPT !.of = {Joined(d, Config) : d \in @}]

GetRepoPath(repo, file) ==
  IF StartsWithSeparator(file) THEN Path(file)
  ELSE [GetRepoDir(repo) EXCEPT !.of = {Under(d, file) : d \in @}]

(***************************************************************************)
(* Java.  Any variable that is set will do.                                *)
(***************************************************************************)
JavaInOpenShiftContainer(repo) == repo # {}

JavaGetRepoDir(repo) ==
  IF repo = {} THEN Fails("NullPointerException") ELSE [is |-> "path", of |-> repo]

JavaGetConfigurationDir(repo) ==
  [JavaGetRepoDir(repo) EXCEPT !.of = {Joined(d, Config) : d \in @}]

\* EzProperties.getPath of a property whose value is path.
\* Mutant: in a container, absolute paths too are taken to be under the repository.
AlwaysUnder(repo, path) ==
  IF ~JavaInOpenShiftContainer(repo) THEN Path(path)
  ELSE [JavaGetRepoDir(repo) EXCEPT !.of = {Under(d, path) : d \in @}]
GetPath(repo, path) ==
  IF ~JavaInOpenShiftContainer(repo) \/ StartsWithSeparator(path) THEN Path(path)
  ELSE [JavaGetRepoDir(repo) EXCEPT !.of = {Under(d, path) : d \in @}]

-----------------------------------------------------------------------------

\* The place a path names: separators that follow one another are one, and one at
\* the end is none.  What is kept of the path is counted off in its order.
Kept(p) == {i \in DOMAIN p : p[i] = FILE_SEPARATOR =>
                                i < Len(p) /\ p[i + 1] # FILE_SEPARATOR}

Rank(i, S) == Cardinality({h \in S : h <= i})

Place(p) ==
  [j \in 1 .. Cardinality(Kept(p)) |-> p[CHOOSE i \in Kept(p) : Rank(i, Kept(p)) = j]]

Places(result) == [result EXCEPT !.of = {Place(p) : p \in @}]
=============================================================================
