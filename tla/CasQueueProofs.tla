--------------------------- MODULE CasQueueProofs ---------------------------
(***************************************************************************)
(* Proofs about CasQueue, for every number of threads, values and cells:   *)
(* no deleted node is used, m_iSize counts the chain, and the queue        *)
(* implements FifoQueue.  There is a lemma for each action, and under it a *)
(* step for each part of the invariant.                                    *)
(***************************************************************************)
EXTENDS CasQueue, FiniteSetTheorems, SequenceTheorems, TLAPS

-----------------------------------------------------------------------------
(* What the history variable looks like after a CAS.                       *)

(* A push puts its node behind the chain.                                  *)
LEMMA ChainGrows ==
  ASSUME chain \in Seq(Nodes), chain # <<>>, NEW n \in Nodes, chain' = Append(chain, n)
  PROVE  /\ chain' \in Seq(Nodes) /\ chain' # <<>>
         /\ Len(chain) \in Nat \ {0} /\ Len(chain') = Len(chain) + 1
         /\ \A i \in 1 .. Len(chain) : chain'[i] = chain[i]
         /\ chain'[Len(chain) + 1] = n
         /\ \A i \in 1 .. Len(chain) : chain[i] \in Nodes
<1>1. Len(chain) \in Nat \ {0}
  BY EmptySeq
<1>2. \A i \in 1 .. Len(chain) : chain[i] \in Nodes
  BY ElementOfSeq
<1> QED BY <1>1, <1>2, AppendProperties

(* A pop takes the dummy off a chain with an element in it.                *)
LEMMA ChainShrinks ==
  ASSUME chain \in Seq(Nodes), chain # <<>>, Len(chain) # 1, chain' = Tail(chain)
  PROVE  /\ chain' \in Seq(Nodes) /\ chain' # <<>>
         /\ Len(chain) \in Nat /\ Len(chain) > 1 /\ Len(chain') = Len(chain) - 1
         /\ \A i \in 1 .. Len(chain') : chain'[i] = chain[i + 1]
         /\ \A i \in 1 .. Len(chain) : chain[i] \in Nodes
<1>1. Len(chain) \in Nat \ {0}
  BY EmptySeq
<1>2. \A i \in 1 .. Len(chain) : chain[i] \in Nodes
  BY ElementOfSeq
<1>3. /\ chain' \in Seq(Nodes) /\ Len(chain') = Len(chain) - 1
      /\ \A i \in 1 .. Len(chain') : chain'[i] = chain[i + 1]
  BY HeadTailProperties
<1>4. chain' # <<>>
  <2>1. Len(chain') # Len(<<>>)
    BY <1>1, <1>3
  <2> QED BY <2>1
<1> QED BY <1>1, <1>2, <1>3, <1>4

(* The chain of a state with the right types.                              *)
LEMMA ChainFact ==
  ASSUME TypeOK
  PROVE  /\ chain \in Seq(Nodes) /\ Len(chain) \in Nat /\ Len(chain) >= 1
         /\ \A i \in 1 .. Len(chain) : chain[i] \in Nodes
         /\ Length \in Nat
<1>1. Len(chain) \in Nat \ {0}
  BY EmptySeq DEF TypeOK
<1>2. \A i \in 1 .. Len(chain) : chain[i] \in Nodes
  BY ElementOfSeq DEF TypeOK
<1> QED BY <1>1, <1>2 DEF TypeOK, Length

(* A push that has swung has its own two nodes in the chain.               *)
LEMMA LinkFact ==
  ASSUME IInv, NEW t \in Threads, At(t, "link")
  PROVE  /\ prev[t] \in Nodes /\ pNode[t] \in Nodes /\ next[prev[t]] = Null
         /\ prev[t] \notin free /\ pNode[t] \notin free
         /\ \E i \in 1 .. Len(chain) : /\ i + 1 \in 1 .. Len(chain)
                                      /\ chain[i] = prev[t] /\ chain[i + 1] = pNode[t]
BY ChainFact DEF IInv, LinksKnown, ChainApart, Length

(* The calls that have not counted are finitely many.                      *)
LEMMA CallsFinite == /\ IsFiniteSet(Owing) /\ Cardinality(Owing) \in Nat
                     /\ IsFiniteSet(Taking) /\ Cardinality(Taking) \in Nat
<1>1. Owing \subseteq Threads /\ Taking \subseteq Threads
  BY DEF Owing, Taking
<1> QED BY <1>1, ThreadAssumption, FS_Subset, FS_CardinalityType

-----------------------------------------------------------------------------
LEMMA InitIInv == Init => IInv
<1> SUFFICES ASSUME Init PROVE IInv
  OBVIOUS
<1> USE DEF Init
<1>1. chain \in Seq(Nodes) /\ chain # <<>> /\ Len(chain) = 1 /\ chain[1] = First
  BY FirstAssumption
<1>2. TypeOK
  BY <1>1, FirstAssumption DEF TypeOK, Pc
<1>3. ChainIsLinked
  BY <1>1, FirstAssumption DEF ChainIsLinked, Length
<1>4. ChainApart
  BY <1>1 DEF ChainApart
<1>5. MadeApart /\ PoppedApart /\ LinksKnown /\ ValuesKept /\ LockHeld
  BY <1>1 DEF MadeApart, PoppedApart, LinksKnown, ValuesKept, LockHeld, At, Popped, Pushing
<1>6. Owing = {} /\ Taking = {}
  BY DEF Owing, Taking
<1>7. Counted
  BY <1>1, <1>6, FS_EmptySet DEF Counted, Length
<1> QED BY <1>2, <1>3, <1>4, <1>5, <1>7 DEF IInv

LEMMA StartPushIInv ==
  ASSUME IInv, NEW t \in Threads, StartPush(t)
  PROVE  IInv'
<1> USE DEF At, Goto, Forget, heap, ends
<1> DEFINE n == pNode'[t]  v == value'[n]
<1>1. TypeOK /\ TypeOK'
  BY DEF IInv, TypeOK, StartPush, Pc
<1>2. /\ n \in free /\ n \in Nodes /\ v \in Values
      /\ free' = free \ {n} /\ pNode' = [pNode EXCEPT ![t] = n]
      /\ value' = [value EXCEPT ![n] = v] /\ next' = [next EXCEPT ![n] = Null]
      /\ pc[t] = "idle" /\ pc' = [pc EXCEPT ![t] = "swing"]
      /\ UNCHANGED <<head, tail, chain, size, lock, prev, out>>
  BY <1>1 DEF StartPush, TypeOK
<1> HIDE DEF n, v
<1>3. /\ Len(chain) \in Nat /\ Len(chain) >= 1 /\ Length \in Nat
      /\ \A i \in 1 .. Len(chain) : chain[i] \in Nodes /\ chain[i] # n
  BY <1>1, <1>2, ChainFact DEF IInv, ChainApart
<1>4. Length' = Length /\ \A i \in 1 .. Length : i \in 1 .. Len(chain) /\ i + 1 \in 1 .. Len(chain)
  BY <1>2, <1>3 DEF Length
<1>5. \A i \in 1 .. Len(chain) : next'[chain[i]] = next[chain[i]] /\ value'[chain[i]] = value[chain[i]]
  BY <1>1, <1>2, <1>3 DEF TypeOK
<1>6. \A s \in Threads : s # t => pc'[s] = pc[s] /\ pNode'[s] = pNode[s]
  BY <1>1, <1>2 DEF TypeOK
<1>7. pc'[t] = "swing" /\ next'[n] = Null /\ value'[n] = v /\ pNode'[t] = n
  BY <1>1, <1>2 DEF TypeOK
<1>8. ChainIsLinked'
  <2>1. head = chain[1] /\ tail = chain[Len(chain)] /\ next[tail] = Null
    BY DEF IInv, ChainIsLinked
  <2>3. \A i \in 1 .. Length : \/ next'[chain[i]] = chain[i + 1]
                               \/ next'[chain[i]] = Null /\ Bridged(chain[i], chain[i + 1])'
    BY <1>2, <1>4, <1>5, <1>6 DEF IInv, ChainIsLinked, Bridged
  <2>4. next'[tail] = Null
    BY <2>1, <1>3, <1>5
  <2> QED BY <2>1, <2>3, <2>4, <1>2, <1>4 DEF ChainIsLinked, Bridged
<1>9. ChainApart'
  BY <1>2, <1>3 DEF IInv, ChainApart
<1>10. MadeApart'
  <2>1. \A s \in Threads : Pushing(s) => pNode[s] # n
    BY <1>2, LinkFact DEF IInv, MadeApart, Pushing
  <2>2. \A s \in Threads : At(s, "swing") => pNode[s] \in Nodes /\ next'[pNode[s]] = next[pNode[s]]
    BY <1>1, <1>2, <2>1 DEF IInv, MadeApart, Pushing, TypeOK
  <2> QED BY <1>2, <1>3, <1>6, <1>7, <2>1, <2>2 DEF IInv, MadeApart, Pushing, InChain
<1>11. PoppedApart'
  BY <1>2, <1>3, <1>6, <1>7, <1>1 DEF IInv, PoppedApart, Popped, InChain
<1>12. LinksKnown'
  BY <1>2, <1>4, <1>5, <1>6, <1>7 DEF IInv, LinksKnown
<1>13. ValuesKept'
  BY <1>1, <1>2, <1>5, <1>6, <1>7 DEF IInv, ValuesKept, MadeApart, Popped, TypeOK
<1>14. LockHeld'
  BY <1>2, <1>6, <1>7 DEF IInv, LockHeld
<1>15. Owing' = Owing /\ Taking' = Taking
  BY <1>2, <1>6, <1>7 DEF Owing, Taking
<1>16. Counted'
  BY <1>2, <1>4, <1>15 DEF IInv, Counted
<1> QED BY <1>1, <1>8, <1>9, <1>10, <1>11, <1>12, <1>13, <1>14, <1>16 DEF IInv

LEMMA SwingIInv ==
  ASSUME IInv, NEW t \in Threads, Swing(t)
  PROVE  IInv'
<1> USE DEF At, Goto, Forget, heap, ends
<1> DEFINE n == pNode[t]
<1>1. TypeOK /\ pc[t] = "swing"
  BY DEF IInv, Swing
<1>2. /\ n \in Nodes /\ n \notin free /\ ~InChain(n) /\ next[n] = Null /\ value[n] \in Values
  BY <1>1 DEF IInv, MadeApart, ValuesKept
<1>3. /\ tail' = n /\ chain' = Append(chain, n)
      /\ prev' = [prev EXCEPT ![t] = tail] /\ pc' = [pc EXCEPT ![t] = "link"]
      /\ UNCHANGED <<head, value, next, free, size, lock, pNode, out, owned>>
  BY DEF Swing
<1>4. \A s \in Threads : s # t => pNode[s] # n \/ ~Pushing(s)
  BY <1>1 DEF IInv, MadeApart, Pushing
<1>5. \A s \in Threads : Popped(s) => prev[s] # n
  BY <1>1 DEF IInv, PoppedApart
<1> HIDE DEF n
<1>6. /\ chain' \in Seq(Nodes) /\ chain' # <<>>
      /\ Len(chain) \in Nat \ {0} /\ Len(chain') = Len(chain) + 1
      /\ \A i \in 1 .. Len(chain) : chain'[i] = chain[i] /\ chain[i] # n
      /\ chain'[Len(chain) + 1] = n
      /\ \A i \in 1 .. Len(chain) : chain[i] \in Nodes
  BY <1>1, <1>2, <1>3, ChainGrows DEF TypeOK, InChain
<1>7. Length' = Length + 1 /\ Length \in Nat /\ Length = Len(chain) - 1
  BY <1>6 DEF Length
<1>8. /\ \A s \in Threads : s # t => pc'[s] = pc[s] /\ prev'[s] = prev[s]
      /\ pc'[t] = "link" /\ prev'[t] = tail /\ pNode'[t] = n
  BY <1>1, <1>3 DEF TypeOK, n
<1>9. TypeOK'
  BY <1>1, <1>2, <1>3, <1>6 DEF TypeOK, Pc
<1>10. head = chain[1] /\ tail = chain[Len(chain)] /\ next[tail] = Null
  BY DEF IInv, ChainIsLinked
<1>11. ChainIsLinked'
  <2>1. ASSUME NEW i \in 1 .. Length'
        PROVE  \/ next'[chain'[i]] = chain'[i + 1]
               \/ next'[chain'[i]] = Null /\ Bridged(chain[i], chain[i + 1])'
    <3>1. CASE i \in 1 .. Length
      <4>1. chain'[i] = chain[i] /\ chain'[i + 1] = chain[i + 1]
        BY <3>1, <1>6, <1>7
      <4>2. \/ next[chain[i]] = chain[i + 1]
            \/ next[chain[i]] = Null /\ Bridged(chain[i], chain[i + 1])
        BY <3>1 DEF IInv, ChainIsLinked
      <4>3. Bridged(chain[i], chain[i + 1]) => Bridged(chain[i], chain[i + 1])'
        <5> SUFFICES ASSUME NEW s \in Threads, pc[s] = "link",
                            prev[s] = chain[i], pNode[s] = chain[i + 1]
                     PROVE  Bridged(chain[i], chain[i + 1])'
          BY DEF Bridged
        <5>1. pc'[s] = "link" /\ prev'[s] = chain'[i] /\ pNode'[s] = chain'[i + 1]
          BY <4>1, <1>1, <1>3, <1>8
        <5> QED BY <5>1 DEF Bridged
      <4> QED BY <4>1, <4>2, <4>3, <1>3
    <3>2. CASE i = Length + 1
      <4>1. chain'[i] = tail /\ chain'[i + 1] = n
        BY <3>2, <1>6, <1>7, <1>10
      <4> QED BY <4>1, <1>3, <1>8, <1>10 DEF Bridged
    <3> QED BY <3>1, <3>2, <1>7
  <2>2. head' = chain'[1] /\ tail' = chain'[Len(chain')] /\ next'[tail'] = Null
    BY <1>2, <1>3, <1>6, <1>10
  <2> QED BY <2>1, <2>2 DEF ChainIsLinked
<1>12. ChainApart'
  <2>1. \A i \in 1 .. Len(chain') : i \in 1 .. Len(chain) \/ i = Len(chain) + 1
    BY <1>6
  <2> QED BY <2>1, <1>2, <1>3, <1>6 DEF IInv, ChainApart
<1>13. \A m : InChain(m)' <=> InChain(m) \/ m = n
  BY <1>6 DEF InChain
<1>14. MadeApart'
  BY <1>1, <1>3, <1>4, <1>8, <1>13 DEF IInv, MadeApart, Pushing
<1>15. PoppedApart'
  BY <1>1, <1>3, <1>5, <1>8, <1>13 DEF IInv, PoppedApart, Popped
<1>16. LinksKnown'
  <2>1. ASSUME NEW s \in Threads, At(s, "link"), s # t
        PROVE  \E i \in 1 .. Length' : /\ prev'[s] = chain'[i] /\ pNode'[s] = chain'[i + 1]
                                       /\ next'[chain'[i]] = Null
    <3>1. PICK i \in 1 .. Length : /\ prev[s] = chain[i] /\ pNode[s] = chain[i + 1]
                                   /\ next[chain[i]] = Null
      BY <2>1 DEF IInv, LinksKnown
    <3>2. chain'[i] = chain[i] /\ chain'[i + 1] = chain[i + 1] /\ i \in 1 .. Length'
      BY <1>6, <1>7
    <3> QED BY <3>1, <3>2, <2>1, <1>3, <1>8
  <2>2. \E i \in 1 .. Length' : /\ prev'[t] = chain'[i] /\ pNode'[t] = chain'[i + 1]
                                /\ next'[chain'[i]] = Null
    <3>1. Len(chain) \in 1 .. Length'
      BY <1>6, <1>7
    <3> QED BY <3>1, <1>3, <1>6, <1>8, <1>10
  <2> QED BY <2>1, <2>2, <1>8 DEF LinksKnown
<1>17. ValuesKept'
  BY <1>1, <1>2, <1>3, <1>6, <1>8 DEF IInv, ValuesKept, Popped
<1>18. LockHeld'
  BY <1>3, <1>8 DEF IInv, LockHeld
<1>19. Counted'
  <2>1. Owing' = Owing \cup {t} /\ t \notin Owing /\ Taking' = Taking
    BY <1>1, <1>8 DEF Owing, Taking
  <2>2. Cardinality(Owing') = Cardinality(Owing) + 1
    BY <2>1, CallsFinite, FS_AddElement
  <2> QED BY <2>1, <2>2, <1>1, <1>3, <1>7, CallsFinite DEF IInv, Counted, TypeOK
<1> QED BY <1>9, <1>11, <1>12, <1>14, <1>15, <1>16, <1>17, <1>18, <1>19 DEF IInv

LEMMA LinkNodeIInv ==
  ASSUME IInv, NEW t \in Threads, LinkNode(t)
  PROVE  IInv'
<1> USE DEF At, Goto, Forget, heap, ends
<1>1. TypeOK /\ pc[t] = "link"
  BY DEF IInv, LinkNode
<1>2. /\ next' = [next EXCEPT ![prev[t]] = pNode[t]] /\ pc' = [pc EXCEPT ![t] = "count_up"]
      /\ UNCHANGED <<head, tail, chain, value, free, size, lock, pNode, prev, out, owned>>
  BY DEF LinkNode
<1>3. /\ Len(chain) \in Nat /\ Len(chain) >= 1 /\ Length \in Nat
      /\ \A i \in 1 .. Len(chain) : chain[i] \in Nodes
  BY <1>1, ChainFact
<1>4. Length' = Length /\ \A i \in 1 .. Length : i \in 1 .. Len(chain) /\ i + 1 \in 1 .. Len(chain)
  BY <1>2, <1>3 DEF Length
<1>5. PICK k \in 1 .. Length : /\ prev[t] = chain[k] /\ pNode[t] = chain[k + 1]
                               /\ next[chain[k]] = Null
  BY <1>1 DEF IInv, LinksKnown
<1>6. \A i \in 1 .. Len(chain) : i # k => chain[i] # chain[k] /\ next'[chain[i]] = next[chain[i]]
  BY <1>1, <1>2, <1>3, <1>4, <1>5 DEF IInv, ChainApart, TypeOK
<1>7. next'[chain[k]] = chain[k + 1]
  BY <1>1, <1>2, <1>3, <1>4, <1>5 DEF TypeOK
<1>8. /\ \A s \in Threads : s # t => pc'[s] = pc[s]
      /\ pc'[t] = "count_up"
  BY <1>1, <1>2 DEF TypeOK
<1>9. TypeOK'
  BY <1>1, <1>2, <1>3, <1>4, <1>5 DEF TypeOK, Pc
<1>10. ChainIsLinked'
  <2>1. head = chain[1] /\ tail = chain[Len(chain)] /\ next[tail] = Null
    BY DEF IInv, ChainIsLinked
  <2>2. next'[tail] = Null
    BY <2>1, <1>3, <1>4, <1>6 DEF Length
  <2>3. ASSUME NEW i \in 1 .. Length
        PROVE  \/ next'[chain[i]] = chain[i + 1]
               \/ next'[chain[i]] = Null /\ Bridged(chain[i], chain[i + 1])'
    <3>1. CASE i = k
      BY <3>1, <1>7
    <3>2. CASE i # k
      <4>1. \/ next[chain[i]] = chain[i + 1]
            \/ next[chain[i]] = Null /\ Bridged(chain[i], chain[i + 1])
        BY DEF IInv, ChainIsLinked
      <4>2. chain[i] # prev[t] /\ next'[chain[i]] = next[chain[i]]
        BY <3>2, <1>4, <1>5, <1>6
      <4>3. Bridged(chain[i], chain[i + 1]) => Bridged(chain[i], chain[i + 1])'
        <5> SUFFICES ASSUME NEW s \in Threads, pc[s] = "link",
                            prev[s] = chain[i], pNode[s] = chain[i + 1]
                     PROVE  Bridged(chain[i], chain[i + 1])'
          BY DEF Bridged
        <5>1. pc'[s] = "link" /\ prev'[s] = chain'[i] /\ pNode'[s] = chain'[i + 1]
          BY <4>2, <1>2, <1>8
        <5> QED BY <5>1 DEF Bridged
      <4> QED BY <4>1, <4>2, <4>3, <1>2
    <3> QED BY <3>1, <3>2
  <2>4. head' = chain'[1] /\ tail' = chain'[Len(chain')] /\ next'[tail'] = Null
    BY <2>1, <2>2, <1>2
  <2> QED BY <2>3, <2>4, <1>2, <1>4 DEF ChainIsLinked
<1>11. ChainApart'
  BY <1>2 DEF IInv, ChainApart
<1>12. MadeApart'
  <2>1. \A s \in Threads : At(s, "swing") => next'[pNode[s]] = next[pNode[s]]
    BY <1>1, <1>2, <1>4, <1>5 DEF IInv, MadeApart, InChain, TypeOK
  <2> QED BY <2>1, <1>2, <1>8 DEF IInv, MadeApart, Pushing, InChain
<1>13. PoppedApart'
  BY <1>1, <1>2, <1>8 DEF IInv, PoppedApart, Popped, InChain
<1>14. LinksKnown'
  <2>1. ASSUME NEW s \in Threads, At(s, "link"), s # t
        PROVE  \E i \in 1 .. Length : /\ prev[s] = chain[i] /\ pNode[s] = chain[i + 1]
                                      /\ next'[chain[i]] = Null
    <3>1. PICK i \in 1 .. Length : /\ prev[s] = chain[i] /\ pNode[s] = chain[i + 1]
                                   /\ next[chain[i]] = Null
      BY <2>1 DEF IInv, LinksKnown
    <3>2. pNode[s] # pNode[t]
      BY <2>1, <1>1 DEF IInv, MadeApart, Pushing
    <3>3. i # k
      BY <3>1, <3>2, <1>5
    <3> QED BY <3>1, <3>3, <1>4, <1>6
  <2> QED BY <2>1, <1>2, <1>4, <1>8 DEF LinksKnown
<1>15. ValuesKept'
  BY <1>1, <1>2, <1>8 DEF IInv, ValuesKept, Popped
<1>16. LockHeld'
  BY <1>2, <1>8 DEF IInv, LockHeld
<1>17. Owing' = Owing /\ Taking' = Taking
  BY <1>1, <1>8 DEF Owing, Taking
<1>18. Counted'
  BY <1>2, <1>4, <1>17 DEF IInv, Counted
<1> QED BY <1>9, <1>10, <1>11, <1>12, <1>13, <1>14, <1>15, <1>16, <1>18 DEF IInv

(* What a step keeps that touches neither the chain nor the cells and      *)
(* takes no node: everything but the types, the lock and the count.        *)
LEMMA CallStep ==
  ASSUME IInv, NEW t \in Threads, NEW p \in Pc, pc' = [pc EXCEPT ![t] = p],
         ~Pushing(t), p \notin {"swing", "link"}, Popped(t)' => Popped(t),
         UNCHANGED <<ends, heap, owned>>,
         \A s \in Threads : s # t => /\ pNode'[s] = pNode[s] /\ prev'[s] = prev[s]
                                     /\ out'[s] = out[s],
         Popped(t)' => prev'[t] = prev[t] /\ out'[t] = out[t]
  PROVE  ChainIsLinked' /\ ChainApart' /\ MadeApart' /\ PoppedApart' /\ LinksKnown' /\ ValuesKept'
<1> USE DEF At, heap, ends
<1>1. TypeOK /\ Length' = Length
  BY DEF IInv, Length
<1>2. (\A s \in Threads : s # t => pc'[s] = pc[s]) /\ pc'[t] = p
  BY <1>1 DEF TypeOK
<1>3. \A s \in Threads : /\ At(s, "swing")' => s # t /\ At(s, "swing")
                         /\ At(s, "link")' => s # t /\ At(s, "link")
                         /\ At(s, "link") => s # t /\ At(s, "link")'
                         /\ Pushing(s)' => s # t /\ Pushing(s)
                         /\ Popped(s)' => Popped(s) /\ prev'[s] = prev[s] /\ out'[s] = out[s]
  BY <1>2 DEF Pushing, Popped
<1>4. ChainIsLinked'
  <2>1. ASSUME NEW i \in 1 .. Length, Bridged(chain[i], chain[i + 1])
        PROVE  Bridged(chain[i], chain[i + 1])'
    BY <2>1, <1>3 DEF Bridged
  <2>2. \A i \in 1 .. Length : \/ next'[chain'[i]] = chain'[i + 1]
                               \/ next'[chain'[i]] = Null /\ Bridged(chain[i], chain[i + 1])'
    BY <2>1 DEF IInv, ChainIsLinked
  <2>3. head' = chain'[1] /\ tail' = chain'[Len(chain')] /\ next'[tail'] = Null
    BY DEF IInv, ChainIsLinked
  <2> QED BY <2>2, <2>3, <1>1 DEF ChainIsLinked
<1>5. ChainApart'
  BY DEF IInv, ChainApart
<1>6. MadeApart'
  BY <1>3 DEF IInv, MadeApart, InChain, Pushing
<1>7. PoppedApart'
  BY <1>3 DEF IInv, PoppedApart, InChain
<1>8. LinksKnown'
  BY <1>1, <1>3 DEF IInv, LinksKnown
<1>9. ValuesKept'
  BY <1>3 DEF IInv, ValuesKept
<1> QED BY <1>4, <1>5, <1>6, <1>7, <1>8, <1>9

LEMMA CountUpIInv ==
  ASSUME IInv, NEW t \in Threads, CountUp(t)
  PROVE  IInv'
<1> USE DEF At, Goto, Forget, heap, ends
<1>1. TypeOK /\ pc[t] = "count_up" /\ Length' = Length
  BY DEF IInv, CountUp, Length
<1>2. TypeOK'
  BY <1>1 DEF CountUp, TypeOK, Pc
<1>3. (\A s \in Threads : s # t => pc'[s] = pc[s]) /\ pc'[t] = "idle"
  BY <1>1 DEF TypeOK, CountUp
<1>4. ChainIsLinked' /\ ChainApart' /\ MadeApart' /\ PoppedApart' /\ LinksKnown' /\ ValuesKept'
  <2>1. "idle" \in Pc /\ ~Pushing(t) /\ ~Popped(t)'
    BY <1>1, <1>3 DEF Pc, Pushing, Popped
  <2>2. \A s \in Threads : s # t => pNode'[s] = pNode[s] /\ prev'[s] = prev[s] /\ out'[s] = out[s]
    BY <1>1 DEF CountUp, TypeOK
  <2> QED BY <2>1, <2>2, CallStep DEF CountUp
<1>5. LockHeld'
  BY <1>1, <1>3 DEF IInv, LockHeld, CountUp, TypeOK
<1>6. Counted'
  <2>1. Owing' = Owing \ {t} /\ t \in Owing /\ Taking' = Taking
    BY <1>1, <1>3 DEF Owing, Taking
  <2>2. Cardinality(Owing') = Cardinality(Owing) - 1
    BY <2>1, CallsFinite, FS_RemoveElement
  <2> QED BY <2>1, <2>2, <1>1, CallsFinite, ChainFact DEF IInv, Counted, TypeOK, CountUp
<1> QED BY <1>2, <1>4, <1>5, <1>6 DEF IInv

(* A call that goes from one place to the next, with or without the lock.  *)
LEMMA StartPopIInv ==
  ASSUME IInv, NEW t \in Threads, NEW first \in {"lock", "gc_lock"}, StartPop(t, first)
  PROVE  IInv'
<1> USE DEF At, Goto, heap, ends
<1>1. TypeOK /\ pc[t] = "idle" /\ Length' = Length
  BY DEF IInv, StartPop, Length
<1> DEFINE p == pc'[t]
<1>2. TypeOK' /\ pc' = [pc EXCEPT ![t] = p] /\ p \in {"idle", "lock", "gc_lock"}
  BY <1>1 DEF StartPop, TypeOK, Pc
<1> HIDE DEF p
<1>3. (\A s \in Threads : s # t => pc'[s] = pc[s]) /\ pc'[t] = p
  BY <1>1, <1>2 DEF TypeOK
<1>4. ChainIsLinked' /\ ChainApart' /\ MadeApart' /\ PoppedApart' /\ LinksKnown' /\ ValuesKept'
  <2>1. p \in Pc /\ ~Pushing(t) /\ ~Popped(t)' /\ p \notin {"swing", "link"}
    BY <1>1, <1>2, <1>3 DEF Pc, Pushing, Popped
  <2> QED BY <2>1, <1>2, CallStep DEF StartPop
<1>5. LockHeld'
  BY <1>1, <1>2, <1>3 DEF IInv, LockHeld, StartPop
<1>6. Counted'
  <2>1. Owing' = Owing /\ Taking' = Taking
    BY <1>1, <1>2, <1>3 DEF Owing, Taking
  <2> QED BY <2>1, <1>1 DEF IInv, Counted, StartPop
<1> QED BY <1>2, <1>4, <1>5, <1>6 DEF IInv

(* Lock and TryLock that succeed: pHead is read under the lock.            *)
LEMMA TakeLock ==
  ASSUME IInv, NEW t \in Threads, pc[t] \in {"lock", "gc_lock"}, lock = NoThread,
         NEW p \in {"move", "gc_peek"}, pc' = [pc EXCEPT ![t] = p],
         lock' = t, prev' = [prev EXCEPT ![t] = head],
         UNCHANGED <<ends, heap, size, pNode, out, owned>>
  PROVE  IInv'
<1> USE DEF At, heap, ends
<1>1. TypeOK /\ Length' = Length
  BY DEF IInv, Length
<1>2. TypeOK'
  BY <1>1 DEF TypeOK, Pc
<1>3. (\A s \in Threads : s # t => pc'[s] = pc[s] /\ prev'[s] = prev[s]) /\ pc'[t] = p /\ prev'[t] = head
  BY <1>1 DEF TypeOK
<1>4. ChainIsLinked' /\ ChainApart' /\ MadeApart' /\ PoppedApart' /\ LinksKnown' /\ ValuesKept'
  <2>1. p \in Pc /\ ~Pushing(t) /\ ~Popped(t)' /\ p \notin {"swing", "link"}
    BY <1>3 DEF Pc, Pushing, Popped
  <2> QED BY <2>1, <1>3, CallStep
<1>5. LockHeld'
  <2>1. \A s \in Threads : pc[s] \notin {"move", "gc_peek", "gc_pop"}
    BY ThreadAssumption DEF IInv, LockHeld
  <2> QED BY <2>1, <1>3 DEF LockHeld
<1>6. Counted'
  <2>1. Owing' = Owing /\ Taking' = Taking
    BY <1>3 DEF Owing, Taking
  <2> QED BY <2>1, <1>1 DEF IInv, Counted
<1> QED BY <1>2, <1>4, <1>5, <1>6 DEF IInv

(* The calls that leave: TryLock failed, or nothing to take.               *)
LEMMA Leave ==
  ASSUME IInv, NEW t \in Threads, pc[t] \in {"gc_lock", "move", "gc_peek"},
         pc' = [pc EXCEPT ![t] = "idle"],
         prev' = [prev EXCEPT ![t] = Null] \/ prev' = prev,
         IF pc[t] = "gc_lock" THEN lock' = lock ELSE lock' = NoThread,
         UNCHANGED <<ends, heap, size, pNode, out, owned>>
  PROVE  IInv'
<1> USE DEF At, heap, ends
<1>1. TypeOK /\ Length' = Length
  BY DEF IInv, Length
<1>2. TypeOK'
  BY <1>1 DEF TypeOK, Pc
<1>3. (\A s \in Threads : s # t => pc'[s] = pc[s] /\ prev'[s] = prev[s]) /\ pc'[t] = "idle"
  BY <1>1 DEF TypeOK
<1>4. ChainIsLinked' /\ ChainApart' /\ MadeApart' /\ PoppedApart' /\ LinksKnown' /\ ValuesKept'
  <2>1. "idle" \in Pc /\ ~Pushing(t) /\ ~Popped(t)'
    BY <1>3 DEF Pc, Pushing, Popped
  <2> QED BY <2>1, <1>3, CallStep
<1>5. LockHeld'
  BY <1>3 DEF IInv, LockHeld
<1>6. Counted'
  <2>1. Owing' = Owing /\ Taking' = Taking
    BY <1>3 DEF Owing, Taking
  <2> QED BY <2>1, <1>1 DEF IInv, Counted
<1> QED BY <1>2, <1>4, <1>5, <1>6 DEF IInv

(* Under the lock, pHead->pNext is the next of the chain when it is there. *)
LEMMA FrontFact ==
  ASSUME IInv, NEW t \in Threads, pc[t] \in {"move", "gc_peek"}, next[prev[t]] # Null
  PROVE  /\ prev[t] = chain[1] /\ Len(chain) # 1 /\ 1 \in 1 .. Length
         /\ next[prev[t]] = chain[2] /\ next[chain[1]] # Null
         /\ chain[1] \in Nodes /\ chain[2] \in Nodes /\ value[chain[2]] \in Values
<1>1. TypeOK
  BY DEF IInv
<1>2. Len(chain) \in Nat /\ Len(chain) >= 1 /\ \A i \in 1 .. Len(chain) : chain[i] \in Nodes
  BY <1>1, ChainFact
<1>3. /\ prev[t] = head /\ head = chain[1] /\ tail = chain[Len(chain)] /\ next[tail] = Null
  BY DEF IInv, LockHeld, ChainIsLinked
<1>4. Len(chain) # 1 /\ Len(chain) > 1 /\ Len(chain) - 1 >= 1
  BY <1>2, <1>3
<1>5. 1 \in 1 .. Length
  BY <1>2, <1>4 DEF Length
<1>6. next[chain[1]] = chain[1 + 1]
  BY <1>3, <1>5 DEF IInv, ChainIsLinked
<1>7. value[chain[2]] \in Values
  BY <1>2, <1>4 DEF IInv, ValuesKept
<1> QED BY <1>2, <1>3, <1>4, <1>5, <1>6, <1>7

(* PopFront and ReleaseGCObj that find an element: m_pHead moves on.       *)
LEMMA FrontTaken ==
  ASSUME IInv, NEW t \in Threads, pc[t] \in {"move", "gc_peek"}, next[prev[t]] # Null,
         NEW p \in {"count_down", "gc_pop"}, pc' = [pc EXCEPT ![t] = p],
         IF p = "gc_pop" THEN lock' = lock ELSE lock' = NoThread,
         head' = next[prev[t]], chain' = Tail(chain),
         out' = [out EXCEPT ![t] = value[next[prev[t]]]],
         UNCHANGED <<tail, heap, size, pNode, prev, owned>>
  PROVE  IInv'
<1> USE DEF At, heap
<1>1. TypeOK
  BY DEF IInv
<1>2. /\ prev[t] = chain[1] /\ Len(chain) # 1 /\ 1 \in 1 .. Length
      /\ next[prev[t]] = chain[2] /\ next[chain[1]] # Null
      /\ chain[1] \in Nodes /\ chain[2] \in Nodes /\ value[chain[2]] \in Values
  BY FrontFact
<1>3. /\ chain' \in Seq(Nodes) /\ chain' # <<>>
      /\ Len(chain) \in Nat /\ Len(chain) > 1 /\ Len(chain') = Len(chain) - 1
      /\ \A i \in 1 .. Len(chain') : chain'[i] = chain[i + 1]
  BY <1>1, <1>2, ChainShrinks DEF TypeOK
<1>4. Length' = Length - 1 /\ Length \in Nat /\ Length = Len(chain) - 1
  BY <1>3 DEF Length
<1>5. /\ \A s \in Threads : s # t => pc'[s] = pc[s] /\ out'[s] = out[s]
      /\ pc'[t] = p /\ out'[t] = value[chain[2]]
  BY <1>1, <1>2 DEF TypeOK
<1>6. TypeOK'
  BY <1>1, <1>2, <1>3 DEF TypeOK, Pc
<1>7. \A i \in 2 .. Len(chain) : chain[i] # chain[1]
  BY <1>3 DEF IInv, ChainApart
<1>8. InChain(chain[1]) /\ \A m : InChain(m)' => InChain(m) /\ m # chain[1]
  <2>1. \A j \in 1 .. Len(chain') : j + 1 \in 1 .. Len(chain) /\ chain'[j] = chain[j + 1]
                                    /\ j + 1 \in 2 .. Len(chain)
    BY <1>3
  <2>2. 1 \in 1 .. Len(chain)
    BY <1>3
  <2>3. ASSUME NEW m, InChain(m)' PROVE InChain(m) /\ m # chain[1]
    BY <2>1, <2>3, <1>7 DEF InChain
  <2> QED BY <2>2, <2>3 DEF InChain
<1>9. \A s \in Threads : Popped(s) => prev[s] # chain[1]
  BY <1>8 DEF IInv, PoppedApart
<1>10. ChainIsLinked'
  <2>1. ASSUME NEW i \in 1 .. Length'
        PROVE  \/ next'[chain'[i]] = chain'[i + 1]
               \/ next'[chain'[i]] = Null /\ Bridged(chain[i], chain[i + 1])'
    <3>1. i + 1 \in 1 .. Length /\ chain'[i] = chain[i + 1] /\ chain'[i + 1] = chain[(i + 1) + 1]
      BY <1>3, <1>4
    <3>2. \/ next[chain[i + 1]] = chain[(i + 1) + 1]
          \/ next[chain[i + 1]] = Null /\ Bridged(chain[i + 1], chain[(i + 1) + 1])
      BY <3>1 DEF IInv, ChainIsLinked
    <3>3. ASSUME Bridged(chain[i + 1], chain[(i + 1) + 1])
          PROVE  Bridged(chain[i], chain[i + 1])'
      BY <3>1, <3>3, <1>5 DEF Bridged
    <3> QED BY <3>1, <3>2, <3>3
  <2>2. head' = chain'[1] /\ tail' = chain'[Len(chain')] /\ next'[tail'] = Null
    BY <1>2, <1>3 DEF IInv, ChainIsLinked
  <2> QED BY <2>1, <2>2 DEF ChainIsLinked
<1>11. ChainApart'
  <2>1. \A j \in 1 .. Len(chain') : j + 1 \in 1 .. Len(chain) /\ chain'[j] = chain[j + 1]
    BY <1>3
  <2>2. \A j \in 1 .. Len(chain') : chain'[j] \notin free'
    BY <2>1 DEF IInv, ChainApart
  <2>3. \A i, j \in 1 .. Len(chain') : chain'[i] = chain'[j] => i + 1 = j + 1
    BY <2>1 DEF IInv, ChainApart
  <2>4. \A i, j \in 1 .. Len(chain') : i + 1 = j + 1 => i = j
    OBVIOUS
  <2> QED BY <2>2, <2>3, <2>4 DEF ChainApart
<1>12. MadeApart'
  BY <1>5, <1>8 DEF IInv, MadeApart, Pushing
<1>13. PoppedApart'
  <2>1. prev'[t] \in Nodes /\ prev'[t] \notin free' /\ prev'[t] = chain[1] /\ ~InChain(prev[t])'
    BY <1>2, <1>3, <1>8 DEF IInv, ChainApart
  <2>2. ASSUME NEW s \in Threads, At(s, "swing")' PROVE pNode'[s] # chain[1]
    BY <2>2, <1>5, <1>8 DEF IInv, MadeApart
  <2>3. \A s \in Threads : s # t => (Popped(s)' <=> Popped(s)) /\ (At(s, "swing")' <=> At(s, "swing"))
    BY <1>5 DEF Popped
  <2>4. ~At(t, "swing")'
    BY <1>5
  <2> QED BY <2>1, <2>2, <2>3, <2>4, <1>8, <1>9 DEF IInv, PoppedApart
<1>14. LinksKnown'
  <2>1. ASSUME NEW s \in Threads, At(s, "link"), s # t
        PROVE  \E i \in 1 .. Length' : /\ prev'[s] = chain'[i] /\ pNode'[s] = chain'[i + 1]
                                       /\ next'[chain'[i]] = Null
    <3>1. PICK i \in 1 .. Length : /\ prev[s] = chain[i] /\ pNode[s] = chain[i + 1]
                                   /\ next[chain[i]] = Null
      BY <2>1 DEF IInv, LinksKnown
    <3>2. i # 1
      BY <3>1, <1>2
    <3>3. i - 1 \in 1 .. Length' /\ chain'[i - 1] = chain[i] /\ chain'[(i - 1) + 1] = chain[i + 1]
      BY <3>2, <1>3, <1>4
    <3> QED BY <3>1, <3>3, <2>1
  <2> QED BY <2>1, <1>5 DEF LinksKnown
<1>15. ValuesKept'
  <2>1. \A i \in 2 .. Len(chain') : chain'[i] = chain[i + 1] /\ i + 1 \in 2 .. Len(chain)
    BY <1>3
  <2>2. \A i \in 2 .. Len(chain') : value'[chain'[i]] \in Values
    BY <2>1 DEF IInv, ValuesKept
  <2>3. \A s \in Threads : s # t => (Popped(s)' <=> Popped(s)) /\ (At(s, "swing")' <=> At(s, "swing"))
    BY <1>5 DEF Popped
  <2>4. ~At(t, "swing")' /\ out'[t] \in Values
    BY <1>2, <1>5
  <2> QED BY <2>2, <2>3, <2>4, <1>5 DEF IInv, ValuesKept
<1>16. LockHeld'
  BY <1>5, ThreadAssumption DEF IInv, LockHeld
<1>17. Counted'
  <2>1. Taking' = Taking \cup {t} /\ t \notin Taking /\ Owing' = Owing
    BY <1>5 DEF Owing, Taking
  <2>2. Cardinality(Taking') = Cardinality(Taking) + 1
    BY <2>1, CallsFinite, FS_AddElement
  <2> QED BY <2>1, <2>2, <1>1, <1>4, CallsFinite DEF IInv, Counted, TypeOK
<1> QED BY <1>6, <1>10, <1>11, <1>12, <1>13, <1>14, <1>15, <1>16, <1>17 DEF IInv

LEMMA MoveIInv ==
  ASSUME IInv, NEW t \in Threads, Move(t)
  PROVE  IInv'
<1>1. CASE next[prev[t]] = Null
  BY <1>1, Leave DEF Move, At, Goto, Forget, ends
<1>2. CASE next[prev[t]] # Null
  BY <1>2, FrontTaken DEF Move, At, Goto
<1> QED BY <1>1, <1>2

LEMMA GcPeekIInv ==
  ASSUME IInv, NEW t \in Threads, GcPeek(t)
  PROVE  IInv'
<1>1. CASE pc'[t] = "idle"
  <2>1. pc[t] = "gc_peek" /\ pc' # [pc EXCEPT ![t] = "gc_pop"]
    BY <1>1 DEF GcPeek, At, IInv, TypeOK
  <2> QED BY <2>1, Leave DEF GcPeek, At, Goto, Forget, ends
<1>2. CASE pc'[t] # "idle"
  <2>1. pc[t] = "gc_peek" /\ pc' # [pc EXCEPT ![t] = "idle"]
    BY <1>2 DEF GcPeek, At, IInv, TypeOK
  <2> QED BY <2>1, FrontTaken DEF GcPeek, At, Goto
<1> QED BY <1>1, <1>2

LEMMA CountDownIInv ==
  ASSUME IInv, NEW t \in Threads, CountDown(t)
  PROVE  IInv'
<1> USE DEF At, Goto, heap, ends
<1>1. TypeOK /\ pc[t] = "count_down" /\ Length' = Length
  BY DEF IInv, CountDown, Length
<1>2. TypeOK'
  BY <1>1 DEF CountDown, TypeOK, Pc
<1>3. (\A s \in Threads : s # t => pc'[s] = pc[s]) /\ pc'[t] = "delete"
  BY <1>1 DEF TypeOK, CountDown
<1>4. ChainIsLinked' /\ ChainApart' /\ MadeApart' /\ PoppedApart' /\ LinksKnown' /\ ValuesKept'
  <2>1. "delete" \in Pc /\ ~Pushing(t) /\ Popped(t)
    BY <1>1 DEF Pc, Pushing, Popped
  <2> QED BY <2>1, CallStep DEF CountDown
<1>5. LockHeld'
  BY <1>1, <1>3 DEF IInv, LockHeld, CountDown
<1>6. Counted'
  <2>1. Taking' = Taking \ {t} /\ t \in Taking /\ Owing' = Owing
    BY <1>1, <1>3 DEF Owing, Taking
  <2>2. Cardinality(Taking') = Cardinality(Taking) - 1
    BY <2>1, CallsFinite, FS_RemoveElement
  <2> QED BY <2>1, <2>2, <1>1, CallsFinite, ChainFact DEF IInv, Counted, TypeOK, CountDown
<1> QED BY <1>2, <1>4, <1>5, <1>6 DEF IInv

(* The deleted node is nobody else's: delete pHead in both pops.           *)
LEMMA NodeDeleted ==
  ASSUME IInv, NEW t \in Threads, Popped(t), DeleteNode(t),
         NEW p \in {"idle", "gc_lock"}, pc' = [pc EXCEPT ![t] = p],
         UNCHANGED <<ends, pNode>>
  PROVE  ChainIsLinked' /\ ChainApart' /\ MadeApart' /\ PoppedApart' /\ LinksKnown' /\ ValuesKept'
<1> USE DEF At, Forget, ends
<1> DEFINE n == prev[t]
<1>1. TypeOK
  BY DEF IInv
<1>2. /\ Len(chain) \in Nat /\ Len(chain) >= 1 /\ Length \in Nat /\ Length' = Length
      /\ \A i \in 1 .. Length : i \in 1 .. Len(chain) /\ i + 1 \in 1 .. Len(chain)
      /\ Len(chain) \in 1 .. Len(chain)
  BY <1>1, ChainFact DEF Length
<1>3. n \in Nodes /\ n \notin free /\ \A i \in 1 .. Len(chain) : chain[i] # n /\ chain[i] \in Nodes
  BY <1>1, ChainFact DEF IInv, PoppedApart, InChain
<1>4. /\ free' = free \cup {n} /\ value' = [value EXCEPT ![n] = NoValue]
      /\ next' = [next EXCEPT ![n] = Null] /\ out' = [out EXCEPT ![t] = NoValue]
      /\ prev' = [prev EXCEPT ![t] = Null]
  BY DEF DeleteNode
<1>5. \A s \in Threads : At(s, "swing") => pNode[s] # n /\ pNode[s] \in Nodes
  BY DEF IInv, PoppedApart, MadeApart
<1>6. \A s \in Threads : s # t /\ Popped(s) => prev[s] # n
  BY DEF IInv, PoppedApart
<1> HIDE DEF n
<1>7. \A m \in Nodes : m # n => next'[m] = next[m] /\ value'[m] = value[m]
  BY <1>1, <1>4 DEF TypeOK
<1>8. \A s \in Threads : /\ s # t => pc'[s] = pc[s] /\ prev'[s] = prev[s] /\ out'[s] = out[s]
                         /\ At(s, "swing")' => s # t /\ At(s, "swing")
                         /\ At(s, "link")' => s # t /\ At(s, "link")
                         /\ At(s, "link") => s # t /\ At(s, "link")'
                         /\ Pushing(s)' => s # t /\ Pushing(s)
                         /\ Popped(s)' => s # t /\ Popped(s)
  BY <1>1, <1>4 DEF TypeOK, Popped, Pushing
<1>9. ChainIsLinked'
  <2>1. ASSUME NEW i \in 1 .. Length, Bridged(chain[i], chain[i + 1])
        PROVE  Bridged(chain[i], chain[i + 1])'
    BY <2>1, <1>8 DEF Bridged
  <2>2. \A i \in 1 .. Length : \/ next'[chain'[i]] = chain'[i + 1]
                               \/ next'[chain'[i]] = Null /\ Bridged(chain[i], chain[i + 1])'
    BY <2>1, <1>2, <1>3, <1>7 DEF IInv, ChainIsLinked
  <2>3. head' = chain'[1] /\ tail' = chain'[Len(chain')] /\ next'[tail'] = Null
    BY <1>2, <1>3, <1>7 DEF IInv, ChainIsLinked
  <2> QED BY <2>2, <2>3, <1>2 DEF ChainIsLinked
<1>10. ChainApart'
  BY <1>3, <1>4 DEF IInv, ChainApart
<1>11. MadeApart'
  BY <1>4, <1>5, <1>7, <1>8 DEF IInv, MadeApart, InChain, Pushing
<1>12. PoppedApart'
  BY <1>4, <1>6, <1>8 DEF IInv, PoppedApart, InChain
<1>13. LinksKnown'
  BY <1>2, <1>3, <1>7, <1>8 DEF IInv, LinksKnown
<1>14. ValuesKept'
  <2>1. \A i \in 2 .. Len(chain) : value'[chain[i]] = value[chain[i]]
    BY <1>2, <1>3, <1>7
  <2> QED BY <2>1, <1>5, <1>7, <1>8 DEF IInv, ValuesKept
<1> QED BY <1>9, <1>10, <1>11, <1>12, <1>13, <1>14

(* The types a deletion keeps.                                             *)
LEMMA DeletedTypes ==
  ASSUME IInv, NEW t \in Threads, Popped(t), DeleteNode(t)
  PROVE  /\ free' \subseteq Nodes /\ value' \in [Nodes -> Values \cup {NoValue}]
         /\ next' \in [Nodes -> Nodes \cup {Null}] /\ out' \in [Threads -> Values \cup {NoValue}]
         /\ prev' \in [Threads -> Nodes \cup {Null}] /\ owned' \in [Threads -> SUBSET Values]
<1>1. TypeOK /\ prev[t] \in Nodes /\ out[t] \in Values
  BY DEF IInv, PoppedApart, ValuesKept
<1> QED BY <1>1 DEF DeleteNode, Forget, TypeOK

LEMMA DeleteIInv ==
  ASSUME IInv, NEW t \in Threads, Delete(t)
  PROVE  IInv'
<1> USE DEF At, Goto, ends
<1>1. TypeOK /\ pc[t] = "delete" /\ Popped(t) /\ Length' = Length
  BY DEF IInv, Delete, Popped, Length
<1>2. TypeOK'
  BY <1>1, DeletedTypes DEF Delete, TypeOK, Pc
<1>3. /\ \A s \in Threads : s # t => pc'[s] = pc[s] /\ prev'[s] = prev[s]
      /\ pc'[t] = "idle"
  BY <1>1 DEF TypeOK, Delete, DeleteNode, Forget
<1>4. ChainIsLinked' /\ ChainApart' /\ MadeApart' /\ PoppedApart' /\ LinksKnown' /\ ValuesKept'
  BY <1>1, NodeDeleted DEF Delete
<1>5. LockHeld'
  BY <1>3 DEF IInv, LockHeld, Delete
<1>6. Counted'
  <2>1. Owing' = Owing /\ Taking' = Taking
    BY <1>1, <1>3 DEF Owing, Taking
  <2> QED BY <2>1, <1>1 DEF IInv, Counted, Delete
<1> QED BY <1>2, <1>4, <1>5, <1>6 DEF IInv

LEMMA GcPopIInv ==
  ASSUME IInv, NEW t \in Threads, GcPop(t)
  PROVE  IInv'
<1> USE DEF At, Goto, ends
<1>1. TypeOK /\ pc[t] = "gc_pop" /\ Popped(t) /\ Length' = Length
  BY DEF IInv, GcPop, Popped, Length
<1>2. TypeOK'
  BY <1>1, DeletedTypes DEF GcPop, TypeOK, Pc
<1>3. /\ \A s \in Threads : s # t => pc'[s] = pc[s] /\ prev'[s] = prev[s]
      /\ pc'[t] = "gc_lock"
  BY <1>1 DEF TypeOK, GcPop, DeleteNode, Forget
<1>4. ChainIsLinked' /\ ChainApart' /\ MadeApart' /\ PoppedApart' /\ LinksKnown' /\ ValuesKept'
  BY <1>1, NodeDeleted DEF GcPop
<1>5. LockHeld'
  BY <1>1, <1>3, ThreadAssumption DEF IInv, LockHeld, GcPop
<1>6. Counted'
  <2>1. Taking' = Taking \ {t} /\ t \in Taking /\ Owing' = Owing
    BY <1>1, <1>3 DEF Owing, Taking
  <2>2. Cardinality(Taking') = Cardinality(Taking) - 1
    BY <2>1, CallsFinite, FS_RemoveElement
  <2> QED BY <2>1, <2>2, <1>1, CallsFinite, ChainFact DEF IInv, Counted, TypeOK, GcPop
<1> QED BY <1>2, <1>4, <1>5, <1>6 DEF IInv

-----------------------------------------------------------------------------
LEMMA NextIInv == IInv /\ [Next]_vars => IInv'
<1> SUFFICES ASSUME IInv, [Next]_vars PROVE IInv'
  OBVIOUS
<1>1. CASE UNCHANGED vars
  <2>1. /\ TypeOK' = TypeOK /\ ChainIsLinked' = ChainIsLinked /\ ChainApart' = ChainApart
        /\ MadeApart' = MadeApart /\ PoppedApart' = PoppedApart
    BY <1>1 DEF vars, TypeOK, ChainIsLinked, Bridged, Length, At, ChainApart, MadeApart,
                Pushing, InChain, PoppedApart, Popped
  <2>2. /\ LinksKnown' = LinksKnown /\ ValuesKept' = ValuesKept
        /\ LockHeld' = LockHeld /\ Counted' = Counted
    BY <1>1 DEF vars, LinksKnown, Length, At, ValuesKept, Popped, LockHeld, Counted, Owing, Taking
  <2> QED BY <2>1, <2>2 DEF IInv
<1>2. ASSUME NEW t \in Threads, Step(t) PROVE IInv'
  <2>1. ASSUME NEW first \in {"lock", "gc_lock"}, StartPop(t, first) PROVE IInv'
    BY <2>1, StartPopIInv
  <2>2. ASSUME Lock(t) PROVE IInv'
    BY <2>2, TakeLock DEF Lock, At, Goto
  <2>3. ASSUME GcTryLock(t) PROVE IInv'
    <3>1. CASE lock = NoThread
      BY <2>3, <3>1, TakeLock DEF GcTryLock, At, Goto
    <3>2. CASE lock # NoThread
      BY <2>3, <3>2, Leave DEF GcTryLock, At, Goto, ends
    <3> QED BY <3>1, <3>2
  <2> QED BY <2>1, <2>2, <2>3, <1>2, StartPushIInv, SwingIInv, LinkNodeIInv, CountUpIInv, MoveIInv,
             CountDownIInv, DeleteIInv, GcPeekIInv, GcPopIInv DEF Step
<1> QED BY <1>1, <1>2 DEF Next

(* The inductive invariant: the chain is what the pointers say, every cell *)
(* is free or somebody's, m_iSize differs from the chain by the calls that *)
(* have not counted.                                                       *)
THEOREM QueueInvariance == Spec => []IInv
BY InitIInv, NextIInv, PTL DEF Spec

(* Nobody reads or writes a deleted node, the chain is on the heap, and    *)
(* m_iSize is exact when no call is under way: PopFront and ReleaseGCObj.  *)
THEOREM QueueHeapIsSafe == Spec => []HeapIsSafe
<1>1. IInv => NoUseAfterFree
  <2> SUFFICES ASSUME IInv PROVE NoUseAfterFree
    OBVIOUS
  <2>1. TypeOK /\ Len(chain) \in Nat /\ Len(chain) >= 1
    BY ChainFact DEF IInv
  <2>2. head \notin free /\ tail \notin free
    BY <2>1 DEF IInv, ChainIsLinked, ChainApart
  <2>3. \A t \in Threads : /\ pc[t] \in {"move", "gc_peek"} => prev[t] \notin free
                           /\ pc[t] \in {"count_down", "delete", "gc_pop"} => prev[t] \notin free
                           /\ pc[t] = "swing" => pNode[t] \notin free
    BY <2>2 DEF IInv, LockHeld, PoppedApart, Popped, MadeApart, At
  <2>4. \A t \in Threads : pc[t] = "link" => prev[t] \notin free /\ pNode[t] \notin free
    BY LinkFact DEF At
  <2> QED BY <2>2, <2>3, <2>4 DEF NoUseAfterFree
<1>2. IInv => SizeExact
  <2> SUFFICES ASSUME IInv, \A t \in Threads : At(t, "idle") PROVE size = Length
    BY DEF SizeExact
  <2>1. Owing = {} /\ Taking = {}
    BY DEF Owing, Taking, At
  <2> QED BY <2>1, ChainFact, FS_EmptySet DEF IInv, Counted
<1>3. IInv => HeapIsSafe
  BY <1>1, <1>2 DEF IInv, HeapIsSafe
<1> QED BY <1>3, QueueInvariance, PTL

-----------------------------------------------------------------------------
(* The refinement of FifoQueue.                                            *)

Element == [val : Values \cup {NoValue}, linked : BOOLEAN]

(* The abstract queue is a sequence with one element per link.             *)
LEMMA ContentsFact ==
  TypeOK => /\ Contents \in Seq(Element) /\ Len(Contents) = Length /\ Length \in Nat
            /\ \A i \in 1 .. Length : Contents[i] = [val |-> value[chain[i + 1]],
                                                     linked |-> next[chain[i]] # Null]
<1> SUFFICES ASSUME TypeOK
             PROVE  /\ Contents \in Seq(Element) /\ Len(Contents) = Length /\ Length \in Nat
                    /\ \A i \in 1 .. Length :
                         Contents[i] = [val |-> value[chain[i + 1]], linked |-> next[chain[i]] # Null]
  OBVIOUS
<1>1. Length \in Nat /\ Length = Len(chain) - 1 /\ \A i \in 1 .. Len(chain) : chain[i] \in Nodes
  BY ChainFact DEF Length
<1>2. \A i \in 1 .. Length : chain[i] \in Nodes /\ chain[i + 1] \in Nodes
  BY <1>1
<1>3. \A i \in 1 .. Length : [val |-> value[chain[i + 1]], linked |-> next[chain[i]] # Null] \in Element
  BY <1>2 DEF TypeOK, Element
<1>4. Contents \in [1 .. Length -> Element]
  BY <1>3 DEF Contents, Linked
<1>5. Contents \in Seq(Element) /\ Len(Contents) = Length
  BY <1>1, <1>4
<1> QED BY <1>1, <1>5 DEF Contents, Linked

LEMMA ContentsFactNext ==
  TypeOK' => /\ Contents' \in Seq(Element) /\ Len(Contents') = Length' /\ Length' \in Nat
             /\ \A i \in 1 .. Length' : Contents'[i] = [val |-> value'[chain'[i + 1]],
                                                        linked |-> next'[chain'[i]] # Null]
<1>1. (TypeOK => /\ Contents \in Seq(Element) /\ Len(Contents) = Length /\ Length \in Nat
                 /\ \A i \in 1 .. Length : Contents[i] = [val |-> value[chain[i + 1]],
                                                          linked |-> next[chain[i]] # Null])'
  BY ContentsFact, PTL
<1> QED BY <1>1 DEF Element

(* A step that touches no node of the chain changes nothing of the queue.  *)
LEMMA ContentsKept ==
  ASSUME TypeOK, chain' = chain,
         \A i \in 1 .. Len(chain) : value'[chain[i]] = value[chain[i]] /\ next'[chain[i]] = next[chain[i]]
  PROVE  Contents' = Contents
<1>1. Length' = Length /\ \A i \in 1 .. Length : i \in 1 .. Len(chain) /\ i + 1 \in 1 .. Len(chain)
  BY ChainFact DEF Length
<1>2. \A i \in 1 .. Length : Linked(chain[i])' = Linked(chain[i]) /\ value'[chain'[i + 1]] = value[chain[i + 1]]
  BY <1>1 DEF Linked
<1> QED BY <1>1, <1>2 DEF Contents

LEMMA InitFifo == Init => Fifo!QInit
<1> SUFFICES ASSUME Init PROVE Fifo!QInit
  OBVIOUS
<1>1. TypeOK /\ Length = 0
  BY InitIInv DEF IInv, Init, Length
<1>2. Contents = <<>>
  BY <1>1, ContentsFact, EmptySeq
<1>3. Owing = {} /\ Got = [t \in Threads |-> NoValue] /\ size = 0
  BY DEF Init, Owing, Got
<1> QED BY <1>2, <1>3 DEF Fifo!QInit

(* The CAS of m_pTail is the abstract queue's Enqueue.                     *)
LEMMA SwingFifo ==
  ASSUME IInv, IInv', NEW t \in Threads, Swing(t)
  PROVE  \E v \in Values : Fifo!Enqueue(t, v)
<1> USE DEF At, Goto, ends, heap
<1> DEFINE n == pNode[t]  e == [val |-> value[n], linked |-> FALSE]
<1>1. TypeOK /\ TypeOK' /\ pc[t] = "swing"
  BY DEF IInv, Swing
<1>2. n \in Nodes /\ value[n] \in Values /\ e \in Element
  BY <1>1 DEF IInv, MadeApart, ValuesKept, Element
<1>3. tail = chain[Len(chain)] /\ next[tail] = Null
  BY DEF IInv, ChainIsLinked
<1>4. /\ chain' = Append(chain, n) /\ UNCHANGED <<value, next, size, out>>
      /\ pc' = [pc EXCEPT ![t] = "link"]
  BY DEF Swing
<1> HIDE DEF n
<1>5. /\ Len(chain) \in Nat \ {0} /\ Len(chain') = Len(chain) + 1
      /\ \A i \in 1 .. Len(chain) : chain'[i] = chain[i]
      /\ chain'[Len(chain) + 1] = n
  BY <1>1, <1>2, <1>4, ChainGrows DEF TypeOK
<1>6. /\ Length = Len(chain) - 1 /\ Length' = Length + 1 /\ Length \in Nat
      /\ \A i \in 1 .. Length : chain'[i] = chain[i] /\ chain'[i + 1] = chain[i + 1] /\ i \in 1 .. Length'
      /\ chain'[Length'] = chain[Len(chain)] /\ chain'[Length' + 1] = n /\ Length' \in 1 .. Length'
  BY <1>5 DEF Length
<1>7. Contents' = Append(Contents, e)
  <2>1. /\ Contents' \in Seq(Element) /\ Len(Contents') = Length'
        /\ \A i \in 1 .. Length' : Contents'[i] = [val |-> value[chain'[i + 1]], linked |-> next[chain'[i]] # Null]
    BY <1>1, <1>4, ContentsFactNext
  <2>2. /\ Contents \in Seq(Element) /\ Len(Contents) = Length
        /\ \A i \in 1 .. Length : Contents[i] = [val |-> value[chain[i + 1]], linked |-> next[chain[i]] # Null]
    BY <1>1, ContentsFact
  <2>3. /\ Append(Contents, e) \in Seq(Element) /\ Len(Append(Contents, e)) = Length'
        /\ \A i \in 1 .. Length : Append(Contents, e)[i] = Contents[i]
        /\ Append(Contents, e)[Length'] = e
    BY <1>2, <1>6, <2>2, AppendProperties
  <2>4. ASSUME NEW i \in 1 .. Length PROVE Contents'[i] = Contents[i]
    <3>1. chain'[i] = chain[i] /\ chain'[i + 1] = chain[i + 1] /\ i \in 1 .. Length'
      BY <1>6
    <3> QED BY <2>1, <2>2, <3>1
  <2>5. Contents'[Length'] = e
    BY <1>3, <1>6, <2>1
  <2>6. \A i \in 1 .. Length' : i \in 1 .. Length \/ i = Length'
    BY <1>6
  <2>7. \A i \in 1 .. Length' : Contents'[i] = Append(Contents, e)[i]
    BY <2>3, <2>4, <2>5, <2>6
  <2> HIDE DEF e
  <2> QED BY <2>1, <2>3, <2>7, SeqEqual
<1>8. Owing' = Owing \cup {t} /\ t \notin Owing /\ Got' = Got
  BY <1>1, <1>4 DEF Owing, Got, TypeOK
<1> QED BY <1>2, <1>4, <1>7, <1>8 DEF Fifo!Enqueue

(* The store to pTail->pNext is Link, whichever element it reaches.        *)
LEMMA LinkNodeFifo ==
  ASSUME IInv, IInv', NEW t \in Threads, LinkNode(t)
  PROVE  \E v \in Values : Fifo!Link(v)
<1> USE DEF At, Goto, ends, heap
<1>1. TypeOK /\ TypeOK' /\ pc[t] = "link"
  BY DEF IInv, LinkNode
<1>2. /\ next' = [next EXCEPT ![prev[t]] = pNode[t]] /\ pc' = [pc EXCEPT ![t] = "count_up"]
      /\ UNCHANGED <<chain, value, size, out>>
  BY DEF LinkNode
<1>3. PICK k \in 1 .. Length : /\ prev[t] = chain[k] /\ pNode[t] = chain[k + 1]
                               /\ next[chain[k]] = Null
  BY <1>1 DEF IInv, LinksKnown
<1>4. /\ Len(chain) \in Nat /\ Length \in Nat /\ Length' = Length
      /\ \A i \in 1 .. Len(chain) : chain[i] \in Nodes
      /\ \A i \in 1 .. Length : i \in 1 .. Len(chain) /\ i + 1 \in 1 .. Len(chain)
      /\ \A i \in 1 .. Length : i + 1 \in 2 .. Len(chain)
  BY <1>1, <1>2, ChainFact DEF Length
<1>5. value[chain[k + 1]] \in Values
  BY <1>4 DEF IInv, ValuesKept
<1>6. \A i \in 1 .. Length : next'[chain[i]] = IF i = k THEN chain[k + 1] ELSE next[chain[i]]
  BY <1>1, <1>2, <1>3, <1>4 DEF IInv, ChainApart, TypeOK
<1>7. chain[k + 1] # Null
  BY <1>4, FirstAssumption
<1>8. /\ Contents \in Seq(Element) /\ Len(Contents) = Length
      /\ \A i \in 1 .. Length : Contents[i] = [val |-> value[chain[i + 1]], linked |-> next[chain[i]] # Null]
  BY <1>1, ContentsFact
<1>9. /\ Contents' \in Seq(Element) /\ Len(Contents') = Length
      /\ \A i \in 1 .. Length : Contents'[i] = [val |-> value[chain[i + 1]], linked |-> next'[chain[i]] # Null]
  BY <1>1, <1>2, <1>4, ContentsFactNext
<1> DEFINE e == [val |-> value[chain[k + 1]], linked |-> TRUE]
<1>10. Contents[k].val = value[chain[k + 1]] /\ ~Contents[k].linked /\ e \in Element
  <2>1. Contents[k] = [val |-> value[chain[k + 1]], linked |-> FALSE]
    BY <1>3, <1>8
  <2> QED BY <2>1, <1>5 DEF Element
<1>11. /\ [Contents EXCEPT ![k] = e] \in Seq(Element)
       /\ Len([Contents EXCEPT ![k] = e]) = Length
       /\ \A i \in 1 .. Length : [Contents EXCEPT ![k] = e][i] = IF i = k THEN e ELSE Contents[i]
  BY <1>8, <1>10, ExceptSeq
<1>12. ASSUME NEW i \in 1 .. Length PROVE Contents'[i] = [Contents EXCEPT ![k] = e][i]
  <2>1. CASE i = k
    BY <2>1, <1>6, <1>7, <1>9, <1>11
  <2>2. CASE i # k
    BY <2>2, <1>6, <1>8, <1>9, <1>11, ZenonT(60)
  <2> QED BY <2>1, <2>2
<1> HIDE DEF e
<1>13. Contents' = [Contents EXCEPT ![k] = e]
  BY <1>9, <1>11, <1>12, SeqEqual
<1>14. Owing' = Owing /\ Got' = Got
  BY <1>1, <1>2 DEF Owing, Got, TypeOK
<1>15. k \in 1 .. Len(Contents)
  BY <1>8
<1> QED BY <1>2, <1>5, <1>10, <1>13, <1>14, <1>15 DEF Fifo!Link, e

(* The move of m_pHead is Dequeue.                                         *)
LEMMA FrontTakenFifo ==
  ASSUME IInv, IInv', NEW t \in Threads, pc[t] \in {"move", "gc_peek"}, next[prev[t]] # Null,
         NEW p \in {"count_down", "gc_pop"}, pc' = [pc EXCEPT ![t] = p],
         chain' = Tail(chain), out' = [out EXCEPT ![t] = value[next[prev[t]]]],
         UNCHANGED <<heap, size>>
  PROVE  Fifo!Dequeue(t)
<1> USE DEF heap
<1>1. TypeOK /\ TypeOK'
  BY DEF IInv
<1>2. /\ prev[t] = chain[1] /\ Len(chain) # 1 /\ 1 \in 1 .. Length
      /\ next[prev[t]] = chain[2] /\ next[chain[1]] # Null
      /\ chain[1] \in Nodes /\ chain[2] \in Nodes /\ value[chain[2]] \in Values
  BY FrontFact
<1>3. /\ Len(chain) \in Nat /\ Len(chain) > 1 /\ Len(chain') = Len(chain) - 1
      /\ \A i \in 1 .. Len(chain') : chain'[i] = chain[i + 1]
  BY <1>1, <1>2, ChainShrinks DEF TypeOK
<1>4. Length' = Length - 1 /\ Length \in Nat /\ Length > 0 /\ Length = Len(chain) - 1
  BY <1>3 DEF Length
<1>5. /\ Contents \in Seq(Element) /\ Len(Contents) = Length
      /\ \A i \in 1 .. Length : Contents[i] = [val |-> value[chain[i + 1]], linked |-> next[chain[i]] # Null]
  BY <1>1, ContentsFact
<1>6. /\ Contents' \in Seq(Element) /\ Len(Contents') = Length'
      /\ \A i \in 1 .. Length' : Contents'[i] = [val |-> value[chain'[i + 1]], linked |-> next[chain'[i]] # Null]
  BY <1>1, ContentsFactNext
<1>7. Contents # <<>>
  <2>1. Len(Contents) # Len(<<>>)
    BY <1>4, <1>5
  <2> QED BY <2>1
<1>8. Head(Contents).val = value[chain[2]] /\ Head(Contents).linked
  <2>1. Head(Contents) = Contents[1]
    BY <1>5, <1>7
  <2>2. Contents[1] = [val |-> value[chain[1 + 1]], linked |-> next[chain[1]] # Null]
    BY <1>2, <1>5
  <2>3. Contents[1].val = value[chain[1 + 1]]
    BY <2>2
  <2>4. Contents[1].linked = (next[chain[1]] # Null)
    BY <2>2
  <2>5. Contents[1].linked
    BY <2>4, <1>2, Zenon
  <2> QED BY <2>1, <2>3, <2>5, <1>2
<1>9. /\ Tail(Contents) \in Seq(Element) /\ Len(Tail(Contents)) = Length'
      /\ \A i \in 1 .. Length' : Tail(Contents)[i] = Contents[i + 1]
  BY <1>4, <1>5, <1>7, HeadTailProperties
<1>10. ASSUME NEW i \in 1 .. Length' PROVE Contents'[i] = Tail(Contents)[i]
  <2>1. /\ chain'[i] = chain[i + 1] /\ chain'[i + 1] = chain[(i + 1) + 1] /\ i + 1 \in 1 .. Length
    BY <1>3, <1>4
  <2> QED BY <2>1, <1>5, <1>6, <1>9
<1>11. Contents' = Tail(Contents)
  BY <1>6, <1>9, <1>10, SeqEqual
<1>12. Got[t] = NoValue /\ Got' = [Got EXCEPT ![t] = value[chain[2]]] /\ Owing' = Owing
  BY <1>1, <1>2 DEF Owing, Got, TypeOK
<1> QED BY <1>7, <1>8, <1>11, <1>12 DEF Fifo!Dequeue

LEMMA CountUpFifo ==
  ASSUME IInv, NEW t \in Threads, CountUp(t)
  PROVE  Fifo!CountUp(t)
<1> USE DEF At, Goto, ends, heap
<1>1. TypeOK /\ pc[t] = "count_up" /\ pc' = [pc EXCEPT ![t] = "idle"]
  BY DEF IInv, CountUp
<1>2. Contents' = Contents
  BY <1>1, ContentsKept DEF CountUp
<1>3. t \in Owing /\ Owing' = Owing \ {t} /\ Got' = Got
  BY <1>1 DEF CountUp, Owing, Got, TypeOK
<1> QED BY <1>2, <1>3 DEF Fifo!CountUp, CountUp

(* The decrement of m_iSize: before the deletion, or together with it.     *)
LEMMA CountDownFifo ==
  ASSUME IInv, NEW t \in Threads, CountDown(t) \/ GcPop(t)
  PROVE  Fifo!CountDown(t)
<1> USE DEF At, Goto, ends, heap
<1>1. /\ TypeOK /\ pc[t] \in {"count_down", "gc_pop"} /\ Popped(t) /\ chain' = chain /\ size' = size - 1
      /\ pc' = [pc EXCEPT ![t] = "delete"] \/ pc' = [pc EXCEPT ![t] = "gc_lock"]
      /\ \A s \in Threads : s # t => out'[s] = out[s]
  BY DEF IInv, CountDown, GcPop, Popped, DeleteNode, TypeOK
<1>2. out[t] \in Values /\ NoValue \notin Values /\ prev[t] \in Nodes
      /\ \A i \in 1 .. Len(chain) : chain[i] \in Nodes /\ chain[i] # prev[t]
  BY <1>1, ChainFact, ThreadAssumption DEF IInv, ValuesKept, PoppedApart, InChain
<1>3. \A i \in 1 .. Len(chain) : value'[chain[i]] = value[chain[i]] /\ next'[chain[i]] = next[chain[i]]
  BY <1>1, <1>2 DEF CountDown, GcPop, DeleteNode, TypeOK
<1>4. Contents' = Contents
  BY <1>1, <1>3, ContentsKept
<1>5. Got[t] # NoValue /\ Owing' = Owing /\ Got' = [Got EXCEPT ![t] = NoValue]
  BY <1>1, <1>2 DEF Owing, Got, TypeOK
<1> QED BY <1>1, <1>4, <1>5 DEF Fifo!CountDown

(* The steps the abstract queue does not see.                              *)
LEMMA QuietFifo ==
  ASSUME IInv, NEW t \in Threads, NEW p \in Pc,
         pc[t] \in {"idle", "lock", "gc_lock", "delete"} \/ (pc[t] \in {"move", "gc_peek"} /\ p = "idle"),
         p \notin {"link", "count_up", "count_down", "gc_pop"}, pc' = [pc EXCEPT ![t] = p],
         UNCHANGED <<chain, size>>,
         \A s \in Threads : s # t => out'[s] = out[s],
         \A i \in 1 .. Len(chain) : value'[chain[i]] = value[chain[i]] /\ next'[chain[i]] = next[chain[i]]
  PROVE  UNCHANGED Fifo!qvars
<1>1. TypeOK
  BY DEF IInv
<1>2. Contents' = Contents
  BY <1>1, ContentsKept
<1>3. Owing' = Owing /\ Got' = Got
  BY <1>1 DEF Owing, Got, TypeOK
<1> QED BY <1>2, <1>3 DEF Fifo!qvars

LEMMA StepFifo ==
  ASSUME IInv, IInv', NEW t \in Threads, Step(t)
  PROVE  [Fifo!QNext]_(Fifo!qvars)
<1> USE DEF At, Goto, ends, heap
<1>1. TypeOK /\ \A i \in 1 .. Len(chain) : chain[i] \in Nodes
  BY ChainFact DEF IInv
<1>2. CASE StartPush(t)
  <2>1. PICK v \in owned[t], n \in free : value' = [value EXCEPT ![n] = v] /\ next' = [next EXCEPT ![n] = Null]
    BY <1>2 DEF StartPush
  <2>2. \A i \in 1 .. Len(chain) : chain[i] # n
    BY DEF IInv, ChainApart
  <2>3. \A i \in 1 .. Len(chain) : value'[chain[i]] = value[chain[i]] /\ next'[chain[i]] = next[chain[i]]
    BY <2>1, <2>2, <1>1 DEF TypeOK
  <2>4. pc[t] = "idle" /\ pc' = [pc EXCEPT ![t] = "swing"] /\ "swing" \in Pc /\ UNCHANGED <<chain, size, out>>
    BY <1>2 DEF StartPush, Pc
  <2> QED BY <2>3, <2>4, QuietFifo
<1>3. CASE Swing(t)
  BY <1>3, SwingFifo DEF Fifo!QNext
<1>4. CASE LinkNode(t)
  BY <1>4, LinkNodeFifo DEF Fifo!QNext
<1>5. CASE CountUp(t)
  BY <1>5, CountUpFifo DEF Fifo!QNext
<1>6. ASSUME NEW first \in {"lock", "gc_lock"}, StartPop(t, first)
      PROVE  UNCHANGED Fifo!qvars
  <2>1. PICK p \in {"idle", "lock", "gc_lock"} : pc' = [pc EXCEPT ![t] = p]
    BY <1>6 DEF StartPop
  <2>2. p \in Pc /\ p \notin {"link", "count_up", "count_down", "gc_pop"}
    BY DEF Pc
  <2> QED BY <2>1, <2>2, <1>6, QuietFifo DEF StartPop
<1>7. CASE Lock(t)
  <2>1. "move" \in Pc
    BY DEF Pc
  <2> QED BY <2>1, <1>7, QuietFifo DEF Lock
<1>8. CASE Move(t)
  <2>1. CASE next[prev[t]] = Null
    <3>1. "idle" \in Pc
      BY DEF Pc
    <3> QED BY <3>1, <2>1, <1>8, QuietFifo DEF Move
  <2>2. CASE next[prev[t]] # Null
    BY <2>2, <1>8, FrontTakenFifo DEF Move, Fifo!QNext
  <2> QED BY <2>1, <2>2
<1>9. CASE CountDown(t) \/ GcPop(t)
  BY <1>9, CountDownFifo DEF Fifo!QNext
<1>10. CASE Delete(t)
  <2>1. /\ pc[t] = "delete" /\ pc' = [pc EXCEPT ![t] = "idle"] /\ "idle" \in Pc /\ UNCHANGED <<chain, size>>
        /\ \A s \in Threads : s # t => out'[s] = out[s]
    BY <1>1, <1>10 DEF Delete, DeleteNode, Pc, TypeOK
  <2>2. \A i \in 1 .. Len(chain) : chain[i] # prev[t]
    BY <2>1 DEF IInv, PoppedApart, Popped, InChain
  <2>3. \A i \in 1 .. Len(chain) : value'[chain[i]] = value[chain[i]] /\ next'[chain[i]] = next[chain[i]]
    BY <1>1, <1>10, <2>2 DEF Delete, DeleteNode, TypeOK
  <2> QED BY <2>1, <2>3, QuietFifo
<1>11. CASE GcTryLock(t)
  <2>1. PICK p \in {"idle", "gc_peek"} : pc' = [pc EXCEPT ![t] = p]
    BY <1>11 DEF GcTryLock
  <2>2. p \in Pc /\ p \notin {"link", "count_up", "count_down", "gc_pop"}
    BY DEF Pc
  <2> QED BY <2>1, <2>2, <1>11, QuietFifo DEF GcTryLock
<1>12. CASE GcPeek(t)
  <2>1. CASE pc'[t] = "idle"
    <3>1. pc[t] = "gc_peek" /\ pc' # [pc EXCEPT ![t] = "gc_pop"] /\ "idle" \in Pc
      BY <2>1, <1>1, <1>12 DEF GcPeek, TypeOK, Pc
    <3> QED BY <3>1, <1>12, QuietFifo DEF GcPeek
  <2>2. CASE pc'[t] # "idle"
    <3>1. pc[t] = "gc_peek" /\ pc' # [pc EXCEPT ![t] = "idle"]
      BY <2>2, <1>1, <1>12 DEF GcPeek, TypeOK
    <3>2. Fifo!Dequeue(t)
      BY <3>1, <1>12, FrontTakenFifo DEF GcPeek
    <3> QED BY <3>2 DEF Fifo!QNext
  <2> QED BY <2>1, <2>2
<1> QED BY <1>2, <1>3, <1>4, <1>5, <1>6, <1>7, <1>8, <1>9, <1>10, <1>11, <1>12 DEF Step

(* The queue hands out each value once, in the order of the CASes on       *)
(* m_pTail, and m_iSize is off by the calls under way: it is a FifoQueue.  *)
THEOREM QueueIsFifo == Spec => IsFifo
<1>1. IInv /\ IInv' /\ [Next]_vars => [Fifo!QNext]_(Fifo!qvars)
  <2> SUFFICES ASSUME IInv, IInv', [Next]_vars PROVE [Fifo!QNext]_(Fifo!qvars)
    OBVIOUS
  <2>1. CASE UNCHANGED vars
    BY <2>1 DEF vars, Fifo!qvars, Contents, Length, Linked, Owing, Got
  <2>2. CASE Next
    BY <2>2, StepFifo DEF Next
  <2> QED BY <2>1, <2>2
<1> QED BY <1>1, InitFifo, QueueInvariance, PTL DEF Spec, IsFifo, Fifo!QSpec
=============================================================================
