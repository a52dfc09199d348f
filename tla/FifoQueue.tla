----------------------------- MODULE FifoQueue -----------------------------
(***************************************************************************)
(* What a CCASQueue<T> promises (common/RingBuffer.h).  A push is three    *)
(* steps: it takes its place at the back, becomes reachable, and is        *)
(* counted.  A pop hands out the front element, once and to one caller,    *)
(* but only when the front is reachable; then it is uncounted.  So a pop   *)
(* may fail while later pushes have completed, and m_iSize runs ahead of   *)
(* or behind the elements by exactly the calls still under way.            *)
(***************************************************************************)
EXTENDS Sequences, Integers, FiniteSets

CONSTANTS
  Threads,
  Values,     (* the pointers pushed                                       *)
  NoValue     (* nothing handed out                                        *)

VARIABLES
  q,          (* the elements, oldest first: [val, linked]                 *)
  size,       (* m_iSize                                                   *)
  owe,        (* threads whose push is not counted yet                     *)
  got         (* what a thread popped and has not uncounted yet            *)

qvars == <<q, size, owe, got>>

QInit ==
  /\ q = <<>> /\ size = 0 /\ owe = {}
  /\ got = [t \in Threads |-> NoValue]

(* PushBack: the CAS of m_pTail, the store to pTail->pNext, the increment. *)
Enqueue(t, v) ==
  /\ t \notin owe
  /\ q'   = Append(q, [val |-> v, linked |-> FALSE])
  /\ owe' = owe \cup {t}
  /\ UNCHANGED <<size, got>>

Link(v) ==
  /\ \E i \in 1 .. Len(q) :
       /\ q[i].val = v /\ ~q[i].linked
       /\ q' = [q EXCEPT ![i] = [val |-> v, linked |-> TRUE]]
  /\ UNCHANGED <<size, owe, got>>

CountUp(t) ==
  /\ t \in owe
  /\ size' = size + 1
  /\ owe'  = owe \ {t}
  /\ UNCHANGED <<q, got>>

(* PopFront: the move of m_pHead, the decrement.                           *)
Dequeue(t) ==
  /\ got[t] = NoValue
  /\ q # <<>> /\ Head(q).linked
  /\ got' = [got EXCEPT ![t] = Head(q).val]
  /\ q'   = Tail(q)
  /\ UNCHANGED <<size, owe>>

CountDown(t) ==
  /\ got[t] # NoValue
  /\ size' = size - 1
  /\ got'  = [got EXCEPT ![t] = NoValue]
  /\ UNCHANGED <<q, owe>>

QNext ==
  \E t \in Threads :
    \/ \E v \in Values : Enqueue(t, v) \/ Link(v)
    \/ CountUp(t) \/ Dequeue(t) \/ CountDown(t)

QSpec == QInit /\ [][QNext]_qvars
=============================================================================
