--------------------------- MODULE MessageStream ---------------------------
(***************************************************************************)
(* What a reliable transport of messages promises to two applications:     *)
(* each end receives the messages of the other one whole, once, in order,  *)
(* and receives all of them.  A message is the sequence of its fragments.  *)
(***************************************************************************)
EXTENDS Integers, Sequences

CONSTANT End

VARIABLES sent,   \* [End -> fragments sent by that end]
          got     \* [End -> fragments received by that end]

vars == <<sent, got>>

Other(e) == CHOOSE p \in End : p # e

Init ==
  /\ sent = [e \in End |-> <<>>]
  /\ got = [e \in End |-> <<>>]

\* An application sends one more message.
Send(e) ==
  /\ Len(sent'[e]) > Len(sent[e])
  /\ SubSeq(sent'[e], 1, Len(sent[e])) = sent[e]
  /\ sent' = [sent EXCEPT ![e] = sent'[e]]
  /\ got' = got

\* The next message as a whole.
Deliver(e) ==
  LET s == sent[Other(e)]
      n == Len(got[e])
      Whole(m) == s[m].frg = 0 /\ \A i \in n + 1 .. m - 1 : s[i].frg # 0
  IN  /\ \E m \in n + 1 .. Len(s) :
           Whole(m) /\ got' = [got EXCEPT ![e] = SubSeq(s, 1, m)]
      /\ sent' = sent

Spec ==
  /\ Init
  /\ [][\E e \in End : Send(e) \/ Deliver(e)]_vars
  /\ \A e \in End : WF_vars(Deliver(e))
=============================================================================
