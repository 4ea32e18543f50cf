-------------------------- MODULE TextCryptoProvider --------------------------
(***************************************************************************)
(* What a TextCryptoProvider promises, whatever its cipher: the text that  *)
(* encrypt returned for a message is decrypted to that message by the same *)
(* provider, and by any other made of the same secret, as long as somebody *)
(* has it.  Either call may fail, but decrypt not for such a text.         *)
(***************************************************************************)
CONSTANTS Provider,  \* the secrets
          Message,
          None       \* no call has been answered, or only one under another secret

VARIABLES issued,    \* the encrypted texts somebody has, of what, and by whom
          answer     \* the last call that returned

vars == <<issued, answer>>

Init == issued = {} /\ answer = None

\* A call has returned, with one text or with none.
Answers(op) == answer' # None /\ answer'.op = op /\ answer'.by \in Provider

Encrypt ==
  /\ Answers("encrypt")
  /\ answer'.text \in Message
  /\ LET new == {[by |-> answer'.by, message |-> answer'.text, text |-> c] : c \in answer'.of}
     IN  new \subseteq issued' /\ issued' \subseteq issued \cup new

\* Of a text that was not issued anything may come.
Decrypt ==
  /\ Answers("decrypt")
  /\ \A i \in issued : i.by = answer'.by /\ i.text = answer'.text => answer'.of = {i.message}
  /\ UNCHANGED issued

\* Encrypted texts are let go of, and other secrets are used.
Elsewhere == answer' = None /\ issued' \subseteq issued

Next == Elsewhere \/ Encrypt \/ Decrypt

Spec == Init /\ [][Next]_vars
=============================================================================
