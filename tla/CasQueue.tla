------------------------------ MODULE CasQueue ------------------------------
(***************************************************************************)
(* CCASQueueX<T> (common/RingBuffer.h): the linked queue of dispatcher     *)
(* commands and of objects waiting to be destructed.  Producers append     *)
(* without a lock; whoever pops holds the one-word spin lock.  The node    *)
(* m_pHead points to is a dummy; popping moves m_pHead on and deletes it.  *)
(* Nodes are heap cells that new may hand out again once deleted.          *)
(* The module also has ReleaseGCObj, which pops under TryLock.             *)
(***************************************************************************)
EXTENDS Integers, Sequences, FiniteSets

CONSTANTS
  Threads,
  Values,     (* the pointers pushed                                       *)
  NoValue,
  Nodes,      (* heap cells                                                *)
  Null,
  NoThread,
  First       (* the cell of the dummy node the constructor makes          *)

ASSUME FirstAssumption == First \in Nodes /\ Null \notin Nodes
ASSUME ThreadAssumption ==
  IsFiniteSet(Threads) /\ NoThread \notin Threads /\ NoValue \notin Values

VARIABLES
  head, tail, (* m_pHead, m_pTail                                          *)
  value, next,(* pValue and pNext of each node                             *)
  free,       (* cells not allocated                                       *)
  size,       (* m_iSize, an UINT: -1 stands for 2^32 - 1                  *)
  lock,       (* m_iLock, with its holder                                  *)
  pc,
  pNode,      (* the node a push made                                      *)
  prev,       (* pTail of a push, pHead of a pop                           *)
  out,        (* *ppVal                                                    *)
  owned,      (* the values each thread may push                           *)
  chain       (* history: the nodes from m_pHead to m_pTail, in the order  *)
              (* of the CASes on m_pTail                                   *)

vars == <<head, tail, value, next, free, size, lock, pc, pNode, prev, out, owned, chain>>
heap == <<value, next, free>>
ends == <<head, tail, chain>>

Pc == {"idle", "swing", "link", "count_up",
       "is_empty", "lock", "move", "count_down", "delete",
       "gc_lock", "gc_peek", "gc_pop"}

At(t, p)   == pc[t] = p
Goto(t, p) == pc' = [pc EXCEPT ![t] = p]
Forget(t)  == prev' = [prev EXCEPT ![t] = Null]     \* the local is gone

Init ==
  /\ head = First /\ tail = First /\ chain = <<First>>
  /\ value = [n \in Nodes |-> NoValue] /\ next = [n \in Nodes |-> Null]
  /\ free = Nodes \ {First}
  /\ size = 0 /\ lock = NoThread
  /\ pc    = [t \in Threads |-> "idle"]
  /\ pNode = [t \in Threads |-> Null]
  /\ prev  = [t \in Threads |-> Null]
  /\ out   = [t \in Threads |-> NoValue]
  /\ owned \in [Threads -> SUBSET Values]
  /\ \A s, t \in Threads : s # t => owned[s] \cap owned[t] = {}
  /\ UNION {owned[t] : t \in Threads} = Values

-----------------------------------------------------------------------------
(* PushBack(pVal): new Node(pVal).                                         *)
StartPush(t) ==
  /\ At(t, "idle")
  /\ \E v \in owned[t], n \in free :
       /\ owned' = [owned EXCEPT ![t] = @ \ {v}]
       /\ free'  = free \ {n}
       /\ value' = [value EXCEPT ![n] = v]
       /\ next'  = [next EXCEPT ![n] = Null]
       /\ pNode' = [pNode EXCEPT ![t] = n]
  /\ Goto(t, "swing")
  /\ UNCHANGED <<ends, size, lock, prev, out>>

(* The loop around the CAS of m_pTail: a failed attempt changes nothing.   *)
Swing(t) ==
  /\ At(t, "swing")
  /\ prev' = [prev EXCEPT ![t] = tail]
  /\ tail' = pNode[t] /\ chain' = Append(chain, pNode[t])
  /\ Goto(t, "link")
  /\ UNCHANGED <<head, heap, size, lock, pNode, out, owned>>

LinkNode(t) ==
  /\ At(t, "link")
  /\ next' = [next EXCEPT ![prev[t]] = pNode[t]]
  /\ Goto(t, "count_up")
  /\ UNCHANGED <<ends, value, free, size, lock, pNode, prev, out, owned>>

CountUp(t) ==
  /\ At(t, "count_up")
  /\ size'  = size + 1
  /\ pNode' = [pNode EXCEPT ![t] = Null] /\ Forget(t)
  /\ Goto(t, "idle")
  /\ UNCHANGED <<ends, heap, lock, out, owned>>

-----------------------------------------------------------------------------
(* PopFront(ppVal), and ReleaseGCObj, whose first test is the same.        *)
StartPop(t, first) ==
  /\ At(t, "idle")
  /\ Goto(t, IF size = 0 THEN "idle" ELSE first)
  /\ UNCHANGED <<ends, heap, size, lock, pNode, prev, out, owned>>

(* A bug to be caught: the spin lock not waited for.                       *)
LockNoWait(t) ==
  /\ At(t, "lock")
  /\ lock' = t
  /\ prev' = [prev EXCEPT ![t] = head]
  /\ Goto(t, "move")
  /\ UNCHANGED <<ends, heap, size, pNode, out, owned>>

Lock(t) ==
  /\ At(t, "lock") /\ lock = NoThread
  /\ lock' = t
  /\ prev' = [prev EXCEPT ![t] = head]
  /\ Goto(t, "move")
  /\ UNCHANGED <<ends, heap, size, pNode, out, owned>>

(* A bug to be caught: the dummy node's value handed out.                  *)
MoveDummy(t) ==
  /\ At(t, "move")
  /\ LET n == next[prev[t]] IN
     IF n = Null
     THEN Goto(t, "idle") /\ Forget(t) /\ UNCHANGED <<head, chain, out>>
     ELSE /\ head' = n /\ chain' = Tail(chain)
          /\ out'  = [out EXCEPT ![t] = value[prev[t]]]
          /\ Goto(t, "count_down")
          /\ UNCHANGED prev
  /\ lock' = NoThread
  /\ UNCHANGED <<tail, heap, size, pNode, owned>>

(* Read pHead->pNext: nothing there, or hand it out, move on and unlock.   *)
Move(t) ==
  /\ At(t, "move")
  /\ LET n == next[prev[t]] IN
     IF n = Null
     THEN Goto(t, "idle") /\ Forget(t) /\ UNCHANGED <<head, chain, out>>
     ELSE /\ head' = n /\ chain' = Tail(chain)
          /\ out'  = [out EXCEPT ![t] = value[n]]
          /\ Goto(t, "count_down")
          /\ UNCHANGED prev
  /\ lock' = NoThread
  /\ UNCHANGED <<tail, heap, size, pNode, owned>>

CountDown(t) ==
  /\ At(t, "count_down")
  /\ size' = size - 1
  /\ Goto(t, "delete")
  /\ UNCHANGED <<ends, heap, lock, pNode, prev, out, owned>>

(* delete pHead; the caller has *ppVal.                                    *)
DeleteNode(t) ==
  /\ free'  = free \cup {prev[t]}
  /\ value' = [value EXCEPT ![prev[t]] = NoValue]
  /\ next'  = [next EXCEPT ![prev[t]] = Null]
  /\ owned' = [owned EXCEPT ![t] = @ \cup {out[t]}]
  /\ out'   = [out EXCEPT ![t] = NoValue]
  /\ Forget(t)

Delete(t) ==
  /\ At(t, "delete")
  /\ DeleteNode(t)
  /\ Goto(t, "idle")
  /\ UNCHANGED <<ends, size, lock, pNode>>

-----------------------------------------------------------------------------
(* The loop of ReleaseGCObj(bForce = FALSE): TryLock or leave; peek, and   *)
(* leave when the queue ends or its front is too young to be destructed;   *)
(* UnsafePopFrontNotCheck, which deletes the node inside the lock.         *)
GcTryLock(t) ==
  /\ At(t, "gc_lock")
  /\ IF lock = NoThread
     THEN lock' = t /\ prev' = [prev EXCEPT ![t] = head] /\ Goto(t, "gc_peek")
     ELSE Goto(t, "idle") /\ UNCHANGED <<lock, prev>>
  /\ UNCHANGED <<ends, heap, size, pNode, out, owned>>

GcPeek(t) ==
  /\ At(t, "gc_peek")
  /\ LET n == next[prev[t]] IN
     \/ /\ Goto(t, "idle") /\ lock' = NoThread       \* empty, or too young
        /\ Forget(t)
        /\ UNCHANGED <<head, chain, out>>
     \/ /\ n # Null
        /\ head' = n /\ chain' = Tail(chain)
        /\ out'  = [out EXCEPT ![t] = value[n]]
        /\ Goto(t, "gc_pop")
        /\ UNCHANGED <<lock, prev>>
  /\ UNCHANGED <<tail, heap, size, pNode, owned>>

GcPop(t) ==
  /\ At(t, "gc_pop")
  /\ size' = size - 1
  /\ DeleteNode(t)
  /\ lock' = NoThread
  /\ Goto(t, "gc_lock")
  /\ UNCHANGED <<ends, pNode>>

Step(t) ==
  \/ StartPush(t) \/ Swing(t) \/ LinkNode(t) \/ CountUp(t)
  \/ StartPop(t, "lock") \/ Lock(t) \/ Move(t) \/ CountDown(t) \/ Delete(t)
  \/ StartPop(t, "gc_lock") \/ GcTryLock(t) \/ GcPeek(t) \/ GcPop(t)

Next == \E t \in Threads : Step(t)
Spec == Init /\ [][Next]_vars

-----------------------------------------------------------------------------
(* What the queue holds: the node m_pHead points to is a dummy.            *)
Linked(n) == next[n] # Null
Length    == Len(chain) - 1
Contents  == [i \in 1 .. Length |->
                [val |-> value[chain[i + 1]], linked |-> Linked(chain[i])]]

(* The types of the variables of CCASQueueX and of its callers.            *)
TypeOK ==
  /\ head \in Nodes /\ tail \in Nodes /\ free \subseteq Nodes
  /\ value \in [Nodes -> Values \cup {NoValue}]
  /\ next \in [Nodes -> Nodes \cup {Null}]
  /\ size \in Int /\ lock \in Threads \cup {NoThread}
  /\ pc \in [Threads -> Pc]
  /\ pNode \in [Threads -> Nodes \cup {Null}]
  /\ prev \in [Threads -> Nodes \cup {Null}]
  /\ out \in [Threads -> Values \cup {NoValue}]
  /\ owned \in [Threads -> SUBSET Values]
  /\ chain \in Seq(Nodes) /\ chain # <<>>

(* The chain is what the pointers say, except where a push has swung       *)
(* m_pTail but not linked yet: the gap is bridged by what only that push   *)
(* knows.                                                                  *)
Bridged(n, m) == \E t \in Threads : At(t, "link") /\ prev[t] = n /\ pNode[t] = m
ChainIsLinked ==
  /\ head = chain[1] /\ tail = chain[Len(chain)] /\ next[tail] = Null
  /\ \A i \in 1 .. Length :
       \/ next[chain[i]] = chain[i + 1]
       \/ next[chain[i]] = Null /\ Bridged(chain[i], chain[i + 1])

(* No deleted node is read or written: not through m_pHead or m_pTail, not *)
(* through the pTail a push still has to link, not through the pHead of a  *)
(* pop, which deletes it only after the push that followed it linked.      *)
NoUseAfterFree ==
  /\ head \notin free /\ tail \notin free
  /\ \A t \in Threads :
       /\ pc[t] \in {"link", "move", "gc_peek", "count_down", "delete", "gc_pop"}
            => prev[t] \notin free
       /\ pc[t] \in {"swing", "link"} => pNode[t] \notin free

(* The queue, read off its nodes, behaves as FifoQueue says: each value    *)
(* pushed is handed out once, in the order of the CASes on m_pTail, and    *)
(* m_iSize is off by exactly the calls under way.                          *)
Owing == {t \in Threads : pc[t] \in {"link", "count_up"}}
Got   == [t \in Threads |-> IF pc[t] \in {"count_down", "gc_pop"}
                            THEN out[t] ELSE NoValue]

Fifo == INSTANCE FifoQueue WITH q <- Contents, owe <- Owing, got <- Got
IsFifo == Fifo!QSpec

(* When no call is under way, m_iSize is the number of elements: the       *)
(* IsEmpty() test of PopFront then hides nothing.                          *)
SizeExact == (\A t \in Threads : At(t, "idle")) => size = Length

(* No deleted node is used, the chain is the heap's, m_iSize counts it.    *)
HeapIsSafe == TypeOK /\ ChainIsLinked /\ NoUseAfterFree /\ SizeExact

-----------------------------------------------------------------------------
(* The inductive invariant.  A node is free, in the chain, in the hands of *)
(* the push that made it or in those of the pop that took it out.          *)
Popped(t)  == pc[t] \in {"count_down", "delete", "gc_pop"}
Pushing(t) == pc[t] \in {"swing", "link"}
InChain(n) == \E i \in 1 .. Len(chain) : chain[i] = n

ChainApart ==
  /\ \A i \in 1 .. Len(chain) : chain[i] \notin free
  /\ \A i, j \in 1 .. Len(chain) : chain[i] = chain[j] => i = j
MadeApart ==
  /\ \A t \in Threads : At(t, "swing") =>
       /\ pNode[t] \in Nodes /\ pNode[t] \notin free /\ ~InChain(pNode[t])
       /\ next[pNode[t]] = Null
  /\ \A s, t \in Threads : Pushing(s) /\ Pushing(t) /\ pNode[s] = pNode[t] => s = t
PoppedApart ==
  /\ \A t \in Threads : Popped(t) =>
       prev[t] \in Nodes /\ prev[t] \notin free /\ ~InChain(prev[t])
  /\ \A s, t \in Threads : Popped(s) /\ Popped(t) /\ prev[s] = prev[t] => s = t
  /\ \A s, t \in Threads : At(s, "swing") /\ Popped(t) => pNode[s] # prev[t]

(* A push that has swung knows where the chain is broken, and only there.  *)
LinksKnown ==
  \A t \in Threads : At(t, "link") =>
    \E i \in 1 .. Length : /\ prev[t] = chain[i] /\ pNode[t] = chain[i + 1]
                           /\ next[chain[i]] = Null

ValuesKept ==
  /\ \A i \in 2 .. Len(chain) : value[chain[i]] \in Values
  /\ \A t \in Threads : /\ At(t, "swing") => value[pNode[t]] \in Values
                        /\ Popped(t) => out[t] \in Values

LockHeld ==
  \A t \in Threads : /\ pc[t] \in {"move", "gc_peek", "gc_pop"} => lock = t
                     /\ pc[t] \in {"move", "gc_peek"} => prev[t] = head

Taking == {t \in Threads : pc[t] \in {"count_down", "gc_pop"}}
Counted == size = Length - Cardinality(Owing) + Cardinality(Taking)

IInv == /\ TypeOK /\ ChainIsLinked /\ ChainApart /\ MadeApart /\ PoppedApart
        /\ LinksKnown /\ ValuesKept /\ LockHeld /\ Counted
=============================================================================
