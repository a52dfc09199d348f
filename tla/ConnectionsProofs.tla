------------------------- MODULE ConnectionsProofs -------------------------
(***************************************************************************)
(* What MCConnections runs.  RingPool: what is put is had by one thread at *)
(* a time and not lost, for every number of threads, objects and slots.    *)
(* PullServer: a connection that pulls has a buffer of its own, fetches    *)
(* what it received, in order, and leaves the buffer empty, for every      *)
(* number of workers, buffers, slots, connections and bytes.  Then the     *)
(* theorems of TcpServer for both servers of the run.                      *)
(***************************************************************************)
EXTENDS MCConnections, FiniteSets, SequenceTheorems, TLAPS

-----------------------------------------------------------------------------
(* RingPool: the inductive invariant IInv and what it carries.             *)

(* Every sequence number falls on a slot.                                  *)
LEMMA IndexFact ==
  /\ 0 \in Index
  /\ \A n \in Nat : Slot(n) \in Index
<1>1. 0 \in Index
  BY SizeAssumption DEF Index
<1>2. \A n \in Nat : n % Size \in 0 .. Size - 1
  BY SizeAssumption, SMT
<1> QED BY <1>1, <1>2 DEF Index, Slot

(* The invariant holds of the empty ring CRingPool::Create makes.          *)
LEMMA InitIInv == Init => IInv
<1> SUFFICES ASSUME Init PROVE IInv
  OBVIOUS
<1> USE IndexFact, SizeAssumption, StatusAssumption DEF Init
<1>1. TypeOK
  BY DEF TypeOK, Pc
<1>2. Window
  BY DEF Window
<1>3. Exclusive
  BY <1>1 DEF Exclusive, TypeOK
<1>4. NoneLost
  BY DEF NoneLost
<1>5. LockOwned
  BY DEF LockOwned, Holding
<1>6. \A t \in Threads : PutMemory(t) /\ GetMemory(t)
  BY DEF PutMemory, GetMemory, Holding, PutSteps, GetSteps, LockSteps
<1> QED BY <1>1, <1>2, <1>3, <1>4, <1>5, <1>6 DEF IInv

-----------------------------------------------------------------------------
(* Steps that touch no slot: only the cursors and the caller's own memory. *)

(* A step that touches no slot and no hand keeps what is said of them.     *)
LEMMA QuietStep ==
  ASSUME IInv, UNCHANGED <<slots, held, gone, lockIdx>>,
         \A u \in Threads : Holding(u)' <=> Holding(u)
  PROVE  Exclusive' /\ NoneLost' /\ LockOwned'
<1>1. Exclusive'
  BY DEF IInv, Exclusive
<1>2. NoneLost'
  BY DEF IInv, NoneLost
<1>3. LockOwned'
  BY DEF IInv, LockOwned
<1> QED BY <1>1, <1>2, <1>3

(* TryPut begins with an object its caller owns.                           *)
LEMMA StartPutIInv ==
  ASSUME IInv, NEW t \in Threads, StartPut(t)
  PROVE  IInv'
<1> USE SizeAssumption, IndexFact DEF IInv, At, Goto, StartPut
<1>1. TypeOK'
  BY DEF TypeOK, Pc, PutSteps, GetSteps, LockSteps
<1>2. Window'
  BY DEF TypeOK, Window, PutMemory, GetMemory, PutSteps, GetSteps, LockSteps
<1>3. \A u \in Threads : Holding(u)' <=> Holding(u)
  BY DEF TypeOK, Holding
<1>4. Exclusive' /\ NoneLost' /\ LockOwned'
  BY <1>3, QuietStep
<1>5. \A u \in Threads : PutMemory(u)' /\ GetMemory(u)'
  BY DEF TypeOK, Window, LockOwned, PutMemory, GetMemory, PutSteps, GetSteps, LockSteps, Holding
<1> QED BY <1>1, <1>2, <1>4, <1>5

(* The m_seqPut a call remembers can only fall behind.                     *)
LEMMA PutReadSeqIInv ==
  ASSUME IInv, NEW t \in Threads, PutReadSeq(t)
  PROVE  IInv'
<1> USE SizeAssumption, IndexFact DEF IInv, At, Goto, PutReadSeq
<1>1. TypeOK'
  BY DEF TypeOK, Pc, PutSteps, GetSteps, LockSteps
<1>2. Window'
  BY DEF TypeOK, Window, PutMemory, GetMemory, PutSteps, GetSteps, LockSteps
<1>3. \A u \in Threads : Holding(u)' <=> Holding(u)
  BY DEF TypeOK, Holding
<1>4. Exclusive' /\ NoneLost' /\ LockOwned'
  BY <1>3, QuietStep
<1>5. \A u \in Threads : PutMemory(u)' /\ GetMemory(u)'
  BY DEF TypeOK, Window, LockOwned, PutMemory, GetMemory, PutSteps, GetSteps, LockSteps, Holding
<1> QED BY <1>1, <1>2, <1>4, <1>5

(* A put that saw space stays within Size of m_seqGet for good.            *)
LEMMA PutCheckSpaceIInv ==
  ASSUME IInv, NEW t \in Threads, PutCheckSpace(t)
  PROVE  IInv'
<1> USE SizeAssumption, IndexFact DEF IInv, At, Goto, PutCheckSpace, HasPutSpace
<1>1. TypeOK'
  BY DEF TypeOK, Pc, PutSteps, GetSteps, LockSteps
<1>2. Window'
  BY DEF TypeOK, Window, PutMemory, GetMemory, PutSteps, GetSteps, LockSteps
<1>3. \A u \in Threads : Holding(u)' <=> Holding(u)
  BY DEF TypeOK, Holding
<1>4. Exclusive' /\ NoneLost' /\ LockOwned'
  BY <1>3, QuietStep
<1>5. \A u \in Threads : PutMemory(u)' /\ GetMemory(u)'
  BY DEF TypeOK, Window, LockOwned, PutMemory, GetMemory, PutSteps, GetSteps, LockSteps, Holding
<1> QED BY <1>1, <1>2, <1>4, <1>5

(* Moving m_seqPut past an occupied slot keeps the window.                 *)
LEMMA PutSkipIInv ==
  ASSUME IInv, NEW t \in Threads, PutSkip(t)
  PROVE  IInv'
<1> USE SizeAssumption, IndexFact DEF IInv, At, Goto, PutSkip, AdvancePut
<1>1. TypeOK'
  BY DEF TypeOK, Pc, PutSteps, GetSteps, LockSteps
<1>2. Window'
  BY DEF TypeOK, Window, PutMemory, GetMemory, PutSteps, GetSteps, LockSteps
<1>3. \A u \in Threads : Holding(u)' <=> Holding(u)
  BY DEF TypeOK, Holding
<1>4. Exclusive' /\ NoneLost' /\ LockOwned'
  BY <1>3, QuietStep
<1>5. \A u \in Threads : PutMemory(u)' /\ GetMemory(u)'
  BY DEF TypeOK, Window, LockOwned, PutMemory, GetMemory, PutSteps, GetSteps, LockSteps, Holding
<1> QED BY <1>1, <1>2, <1>4, <1>5

(* Moving m_seqPut past the slot just filled keeps the window.             *)
LEMMA PutDoneIInv ==
  ASSUME IInv, NEW t \in Threads, PutDone(t)
  PROVE  IInv'
<1> USE SizeAssumption, IndexFact DEF IInv, At, Goto, PutDone, AdvancePut
<1>1. TypeOK'
  BY DEF TypeOK, Pc, PutSteps, GetSteps, LockSteps
<1>2. Window'
  BY DEF TypeOK, Window, PutMemory, GetMemory, PutSteps, GetSteps, LockSteps
<1>3. \A u \in Threads : Holding(u)' <=> Holding(u)
  BY DEF TypeOK, Holding
<1>4. Exclusive' /\ NoneLost' /\ LockOwned'
  BY <1>3, QuietStep
<1>5. \A u \in Threads : PutMemory(u)' /\ GetMemory(u)'
  BY DEF TypeOK, Window, LockOwned, PutMemory, GetMemory, PutSteps, GetSteps, LockSteps, Holding
<1> QED BY <1>1, <1>2, <1>4, <1>5

(* TryGet and TryLock begin without touching the ring.                     *)
LEMMA StartGetIInv ==
  ASSUME IInv, NEW t \in Threads, 
         \/ StartGet(t, "get_seq")
         \/ StartGet(t, "lock_seq")
  PROVE  IInv'
<1> USE SizeAssumption, IndexFact DEF IInv, At, Goto, StartGet
<1>1. TypeOK'
  BY DEF TypeOK, Pc, PutSteps, GetSteps, LockSteps
<1>2. Window'
  BY DEF TypeOK, Window, PutMemory, GetMemory, PutSteps, GetSteps, LockSteps
<1>3. \A u \in Threads : Holding(u)' <=> Holding(u)
  BY DEF TypeOK, Holding
<1>4. Exclusive' /\ NoneLost' /\ LockOwned'
  BY <1>3, QuietStep
<1>5. \A u \in Threads : PutMemory(u)' /\ GetMemory(u)'
  BY DEF TypeOK, Window, LockOwned, PutMemory, GetMemory, PutSteps, GetSteps, LockSteps, Holding
<1> QED BY <1>1, <1>2, <1>4, <1>5

(* Reading m_seqGet changes nothing others see.                            *)
LEMMA ReadGetSeqIInv ==
  ASSUME IInv, NEW t \in Threads, 
         \/ ReadGetSeq(t, "get_seq", "get_space")
         \/ ReadGetSeq(t, "lock_seq", "lock_space")
  PROVE  IInv'
<1> USE SizeAssumption, IndexFact DEF IInv, At, Goto, ReadGetSeq
<1>1. TypeOK'
  BY DEF TypeOK, Pc, PutSteps, GetSteps, LockSteps
<1>2. Window'
  BY DEF TypeOK, Window, PutMemory, GetMemory, PutSteps, GetSteps, LockSteps
<1>3. \A u \in Threads : Holding(u)' <=> Holding(u)
  BY DEF TypeOK, Holding
<1>4. Exclusive' /\ NoneLost' /\ LockOwned'
  BY <1>3, QuietStep
<1>5. \A u \in Threads : PutMemory(u)' /\ GetMemory(u)'
  BY DEF TypeOK, Window, LockOwned, PutMemory, GetMemory, PutSteps, GetSteps, LockSteps, Holding
<1> QED BY <1>1, <1>2, <1>4, <1>5

(* A get that saw something stays behind m_seqPut for good.                *)
LEMMA CheckGetSpaceIInv ==
  ASSUME IInv, NEW t \in Threads, 
         \/ CheckGetSpace(t, "get_space", "get_slot")
         \/ CheckGetSpace(t, "lock_space", "lock_slot")
  PROVE  IInv'
<1> USE SizeAssumption, IndexFact DEF IInv, At, Goto, CheckGetSpace, HasGetSpace
<1>1. TypeOK'
  BY DEF TypeOK, Pc, PutSteps, GetSteps, LockSteps
<1>2. Window'
  BY DEF TypeOK, Window, PutMemory, GetMemory, PutSteps, GetSteps, LockSteps
<1>3. \A u \in Threads : Holding(u)' <=> Holding(u)
  BY DEF TypeOK, Holding
<1>4. Exclusive' /\ NoneLost' /\ LockOwned'
  BY <1>3, QuietStep
<1>5. \A u \in Threads : PutMemory(u)' /\ GetMemory(u)'
  BY DEF TypeOK, Window, LockOwned, PutMemory, GetMemory, PutSteps, GetSteps, LockSteps, Holding
<1> QED BY <1>1, <1>2, <1>4, <1>5

(* Reading a slot gives no right to what is in it.                         *)
LEMMA ReadSlotIInv ==
  ASSUME IInv, NEW t \in Threads, 
         \/ ReadSlot(t, "get_slot", "get_cas", "get_skip")
         \/ ReadSlot(t, "lock_slot", "lock_cas", "lock_skip")
  PROVE  IInv'
<1> USE SizeAssumption, IndexFact DEF IInv, At, Goto, ReadSlot
<1>1. TypeOK'
  BY DEF TypeOK, Pc, PutSteps, GetSteps, LockSteps
<1>2. Window'
  BY DEF TypeOK, Window, PutMemory, GetMemory, PutSteps, GetSteps, LockSteps
<1>3. \A u \in Threads : Holding(u)' <=> Holding(u)
  BY DEF TypeOK, Holding
<1>4. Exclusive' /\ NoneLost' /\ LockOwned'
  BY <1>3, QuietStep
<1>5. \A u \in Threads : PutMemory(u)' /\ GetMemory(u)'
  BY DEF TypeOK, Window, LockOwned, PutMemory, GetMemory, PutSteps, GetSteps, LockSteps, Holding
<1> QED BY <1>1, <1>2, <1>4, <1>5

(* Moving m_seqGet on never passes m_seqPut.                               *)
LEMMA GetSkipIInv ==
  ASSUME IInv, NEW t \in Threads, 
         \/ GetSkip(t, "get_skip", "get_seq")
         \/ GetSkip(t, "get_done", "idle")
         \/ GetSkip(t, "lock_skip", "lock_seq")
         \/ GetSkip(t, "lock_done", "locked")
  PROVE  IInv'
<1> USE SizeAssumption, IndexFact DEF IInv, At, Goto, GetSkip, AdvanceGet
<1>1. TypeOK'
  BY DEF TypeOK, Pc, PutSteps, GetSteps, LockSteps
<1>2. Window'
  BY DEF TypeOK, Window, PutMemory, GetMemory, PutSteps, GetSteps, LockSteps
<1>3. \A u \in Threads : Holding(u)' <=> Holding(u)
  BY DEF TypeOK, Holding
<1>4. Exclusive' /\ NoneLost' /\ LockOwned'
  BY <1>3, QuietStep
<1>5. \A u \in Threads : PutMemory(u)' /\ GetMemory(u)'
  BY DEF TypeOK, Window, LockOwned, PutMemory, GetMemory, PutSteps, GetSteps, LockSteps, Holding
<1> QED BY <1>1, <1>2, <1>4, <1>5

-----------------------------------------------------------------------------
(* Steps that move an object between a slot and a thread.                  *)

(* A put fills only a slot that is empty at that moment.                   *)
LEMMA PutCasIInv ==
  ASSUME IInv, NEW t \in Threads, PutCas(t)
  PROVE  IInv'
<1> USE IndexFact, SizeAssumption, StatusAssumption DEF IInv, At, Goto
<1> DEFINE k == Slot(seq[t])
<1>0. k \in Index
  BY DEF TypeOK
<1>1. CASE slots[k] = Empty
  <2> USE <1>0, <1>1 DEF PutCas
  <2>1. TypeOK'
    BY DEF TypeOK, Pc, PutSteps, GetSteps, LockSteps, GetMemory
  <2>2. Window'
    BY DEF TypeOK, Window
  <2>a. cur[t] \in Elems /\ cur[t] \in held[t]
    BY DEF TypeOK, PutMemory, PutSteps
  <2>b. /\ slots' = [slots EXCEPT ![k] = cur[t]]
        /\ held' = [held EXCEPT ![t] = @ \ {cur[t]}]
        /\ gone' = gone /\ lockIdx' = lockIdx
        /\ slots \in [Index -> Elems \cup {Empty, Locked}]
        /\ held \in [Threads -> SUBSET Elems]
        /\ \A u \in Threads : Holding(u)' <=> Holding(u)
    BY DEF TypeOK, Holding
  <2>3. Exclusive'
    <3> HIDE DEF k, PutCas
    <3>1. \A t1, t2 \in Threads : t1 # t2 => held'[t1] \cap held'[t2] = {}
      BY <2>b DEF Exclusive
    <3>2. \A i \in Index : slots[i] # cur[t]
      BY <2>a DEF Exclusive
    <3>3. \A i, j \in Index : slots'[i] \in Elems /\ slots'[i] = slots'[j] => i = j
      BY <2>b, <3>2 DEF Exclusive
    <3>4. \A u \in Threads : cur[t] \notin held'[u]
      BY <2>a, <2>b DEF Exclusive
    <3>5. \A i \in Index, u \in Threads : slots'[i] \notin held'[u]
      BY <2>b, <3>4 DEF Exclusive
    <3>6. \A e \in gone' : /\ \A u \in Threads : e \notin held'[u]
                           /\ \A i \in Index : slots'[i] # e
      BY <2>a, <2>b DEF Exclusive
    <3> QED BY <3>1, <3>3, <3>5, <3>6 DEF Exclusive
  <2>4. NoneLost'
    BY <2>a, <2>b DEF NoneLost
  <2>5. LockOwned'
    BY <2>a, <2>b DEF LockOwned
  <2>6. \A u \in Threads : PutMemory(u)' /\ GetMemory(u)'
    BY DEF TypeOK, Window, Exclusive, LockOwned, PutMemory, GetMemory, PutSteps, GetSteps, LockSteps, Holding
  <2> QED BY <2>1, <2>2, <2>3, <2>4, <2>5, <2>6
<1>2. CASE slots[k] # Empty
  <2> USE <1>2 DEF PutCas
  <2>1. TypeOK'
    BY DEF TypeOK, Pc, PutSteps, GetSteps, LockSteps
  <2>2. Window'
    BY DEF TypeOK, Window
  <2>3. \A u \in Threads : Holding(u)' <=> Holding(u)
    BY DEF TypeOK, Holding
  <2>4. Exclusive' /\ NoneLost' /\ LockOwned'
    BY <2>3, QuietStep
  <2>5. \A u \in Threads : PutMemory(u)' /\ GetMemory(u)'
    BY DEF TypeOK, Window, LockOwned, PutMemory, GetMemory, PutSteps, GetSteps, LockSteps, Holding
  <2> QED BY <2>1, <2>2, <2>4, <2>5
<1> QED BY <1>1, <1>2

(* A get takes only what its slot still holds.                             *)
LEMMA GetCasIInv ==
  ASSUME IInv, NEW t \in Threads, GetCas(t)
  PROVE  IInv'
<1> USE IndexFact, SizeAssumption, StatusAssumption DEF IInv, At, Goto
<1> DEFINE k == Slot(seq[t])
<1>0. k \in Index
  BY DEF TypeOK
<1>1. CASE slots[k] = cur[t]
  <2> USE <1>0, <1>1 DEF GetCas
  <2>1. TypeOK'
    BY DEF TypeOK, Pc, PutSteps, GetSteps, LockSteps, GetMemory
  <2>2. Window'
    BY DEF TypeOK, Window
  <2>a. cur[t] \in Elems /\ slots[k] = cur[t]
    BY DEF GetMemory
  <2>b. /\ slots' = [slots EXCEPT ![k] = Empty]
        /\ held' = [held EXCEPT ![t] = @ \cup {cur[t]}]
        /\ gone' = gone /\ lockIdx' = lockIdx
        /\ slots \in [Index -> Elems \cup {Empty, Locked}]
        /\ held \in [Threads -> SUBSET Elems]
        /\ \A u \in Threads : Holding(u)' <=> Holding(u)
    BY DEF TypeOK, Holding
  <2>3. Exclusive'
    <3> HIDE DEF k, GetCas
    <3>1. \A u \in Threads : cur[t] \notin held[u]
      BY <2>a DEF Exclusive
    <3>2. \A t1, t2 \in Threads : t1 # t2 => held'[t1] \cap held'[t2] = {}
      BY <2>b, <3>1 DEF Exclusive
    <3>3. \A i, j \in Index : slots'[i] \in Elems /\ slots'[i] = slots'[j] => i = j
      BY <2>b DEF Exclusive
    <3>4. \A i \in Index : i # k => slots[i] # cur[t]
      BY <2>a DEF Exclusive
    <3>5. \A i \in Index, u \in Threads : slots'[i] \notin held'[u]
      BY <2>a, <2>b, <3>4 DEF Exclusive
    <3>6. \A e \in gone' : /\ \A u \in Threads : e \notin held'[u]
                           /\ \A i \in Index : slots'[i] # e
      BY <2>a, <2>b DEF Exclusive, TypeOK
    <3> QED BY <3>2, <3>3, <3>5, <3>6 DEF Exclusive
  <2>4. NoneLost'
    BY DEF TypeOK, NoneLost, LockOwned, PutMemory, GetMemory, Holding
  <2>5. LockOwned'
    BY <2>a, <2>b DEF LockOwned
  <2>6. \A u \in Threads : PutMemory(u)' /\ GetMemory(u)'
    BY DEF TypeOK, Window, Exclusive, LockOwned, PutMemory, GetMemory, PutSteps, GetSteps, LockSteps, Holding
  <2> QED BY <2>1, <2>2, <2>3, <2>4, <2>5, <2>6
<1>2. CASE slots[k] # cur[t]
  <2> USE <1>2 DEF GetCas
  <2>1. TypeOK'
    BY DEF TypeOK, Pc, PutSteps, GetSteps, LockSteps
  <2>2. Window'
    BY DEF TypeOK, Window
  <2>3. \A u \in Threads : Holding(u)' <=> Holding(u)
    BY DEF TypeOK, Holding
  <2>4. Exclusive' /\ NoneLost' /\ LockOwned'
    BY <2>3, QuietStep
  <2>5. \A u \in Threads : PutMemory(u)' /\ GetMemory(u)'
    BY DEF TypeOK, Window, LockOwned, PutMemory, GetMemory, PutSteps, GetSteps, LockSteps, Holding
  <2> QED BY <2>1, <2>2, <2>4, <2>5
<1> QED BY <1>1, <1>2

(* A lock takes only what its slot still holds and owns the slot.          *)
LEMMA LockCasIInv ==
  ASSUME IInv, NEW t \in Threads, LockCas(t)
  PROVE  IInv'
<1> USE IndexFact, SizeAssumption, StatusAssumption DEF IInv, At, Goto
<1> DEFINE k == Slot(seq[t])
<1>0. k \in Index
  BY DEF TypeOK
<1>1. CASE slots[k] = cur[t]
  <2> USE <1>0, <1>1 DEF LockCas
  <2>1. TypeOK'
    BY DEF TypeOK, Pc, PutSteps, GetSteps, LockSteps, GetMemory
  <2>2. Window'
    BY DEF TypeOK, Window
  <2>3. Exclusive'
    BY DEF TypeOK, Exclusive, PutMemory, GetMemory, PutSteps, Holding
  <2>4. NoneLost'
    BY DEF TypeOK, NoneLost, LockOwned, PutMemory, GetMemory, Holding
  <2>5. LockOwned'
    BY DEF TypeOK, LockOwned, Exclusive, PutMemory, GetMemory, PutSteps, Holding
  <2>6. \A u \in Threads : PutMemory(u)' /\ GetMemory(u)'
    BY DEF TypeOK, Window, Exclusive, LockOwned, PutMemory, GetMemory, PutSteps, GetSteps, LockSteps, Holding
  <2> QED BY <2>1, <2>2, <2>3, <2>4, <2>5, <2>6
<1>2. CASE slots[k] # cur[t]
  <2> USE <1>2 DEF LockCas
  <2>1. TypeOK'
    BY DEF TypeOK, Pc, PutSteps, GetSteps, LockSteps
  <2>2. Window'
    BY DEF TypeOK, Window
  <2>3. \A u \in Threads : Holding(u)' <=> Holding(u)
    BY DEF TypeOK, Holding
  <2>4. Exclusive' /\ NoneLost' /\ LockOwned'
    BY <2>3, QuietStep
  <2>5. \A u \in Threads : PutMemory(u)' /\ GetMemory(u)'
    BY DEF TypeOK, Window, LockOwned, PutMemory, GetMemory, PutSteps, GetSteps, LockSteps, Holding
  <2> QED BY <2>1, <2>2, <2>4, <2>5
<1> QED BY <1>1, <1>2

(* Releasing a lock without the object frees the slot.                     *)
LEMMA ReleaseTakeIInv ==
  ASSUME IInv, NEW t \in Threads, ReleaseTake(t)
  PROVE  IInv'
<1> USE IndexFact, SizeAssumption, StatusAssumption DEF IInv, At, Goto, ReleaseTake
<1>1. TypeOK'
  BY DEF TypeOK, Pc, PutSteps, GetSteps, LockSteps, GetMemory
<1>2. Window'
  BY DEF TypeOK, Window
<1>3. Exclusive'
  BY DEF TypeOK, Exclusive, PutMemory, GetMemory, PutSteps, Holding
<1>4. NoneLost'
  BY DEF TypeOK, NoneLost, LockOwned, PutMemory, GetMemory, Holding
<1>5. LockOwned'
  BY DEF TypeOK, LockOwned, Exclusive, PutMemory, GetMemory, PutSteps, Holding
<1>6. \A u \in Threads : PutMemory(u)' /\ GetMemory(u)'
  BY DEF TypeOK, Window, Exclusive, LockOwned, PutMemory, GetMemory, PutSteps, GetSteps, LockSteps, Holding
<1> QED BY <1>1, <1>2, <1>3, <1>4, <1>5, <1>6

(* Releasing a lock with the object gives it back to its slot.             *)
LEMMA ReleaseBackIInv ==
  ASSUME IInv, NEW t \in Threads, ReleaseBack(t)
  PROVE  IInv'
<1> USE IndexFact, SizeAssumption, StatusAssumption DEF IInv, At, Goto, ReleaseBack
<1>1. TypeOK'
  BY DEF TypeOK, Pc, PutSteps, GetSteps, LockSteps, GetMemory
<1>2. Window'
  BY DEF TypeOK, Window
<1>3. Exclusive'
  BY DEF TypeOK, Exclusive, PutMemory, GetMemory, PutSteps, Holding
<1>4. NoneLost'
  BY DEF TypeOK, NoneLost, LockOwned, PutMemory, GetMemory, Holding
<1>5. LockOwned'
  BY DEF TypeOK, LockOwned, Exclusive, PutMemory, GetMemory, PutSteps, Holding
<1>6. \A u \in Threads : PutMemory(u)' /\ GetMemory(u)'
  BY DEF TypeOK, Window, Exclusive, LockOwned, PutMemory, GetMemory, PutSteps, GetSteps, LockSteps, Holding
<1> QED BY <1>1, <1>2, <1>3, <1>4, <1>5, <1>6

(* Clear destructs what the slots hold and nothing in use.                 *)
LEMMA ClearIInv ==
  ASSUME IInv, Clear
  PROVE  IInv'
<1> USE IndexFact, SizeAssumption, StatusAssumption DEF IInv, At, Goto, Clear, InSlots
<1>1. TypeOK'
  BY DEF TypeOK, Pc, PutSteps, GetSteps, LockSteps, GetMemory
<1>2. Window'
  BY DEF TypeOK, Window
<1>3. Exclusive'
  BY DEF TypeOK, Exclusive, PutMemory, GetMemory, PutSteps, Holding
<1>4. NoneLost'
  BY DEF TypeOK, NoneLost, LockOwned, PutMemory, GetMemory, Holding
<1>5. LockOwned'
  BY DEF TypeOK, LockOwned, Exclusive, PutMemory, GetMemory, PutSteps, Holding
<1>6. \A u \in Threads : PutMemory(u)' /\ GetMemory(u)'
  BY DEF TypeOK, Window, Exclusive, LockOwned, PutMemory, GetMemory, PutSteps, GetSteps, LockSteps, Holding
<1> QED BY <1>1, <1>2, <1>3, <1>4, <1>5, <1>6

-----------------------------------------------------------------------------
(* IInv, hence each of its conjuncts, holds of every reachable state: the  *)
(* cursors stay within the ring, no object is in two hands or lost, and a  *)
(* locked slot belongs to one thread.                                      *)
THEOREM Invariance == Spec => []IInv
<1>1. ASSUME IInv, Next PROVE IInv'
  <2>1. ASSUME NEW t \in Threads, TryPut(t) PROVE IInv'
    BY <1>1, <2>1, StartPutIInv, PutReadSeqIInv, PutCheckSpaceIInv, PutCasIInv,
       PutSkipIInv, PutDoneIInv DEF TryPut
  <2>2. ASSUME NEW t \in Threads, TryGet(t) PROVE IInv'
    BY <1>1, <2>2, StartGetIInv, ReadGetSeqIInv, CheckGetSpaceIInv, ReadSlotIInv,
       GetCasIInv, GetSkipIInv DEF TryGet
  <2>3. ASSUME NEW t \in Threads, TryLock(t) PROVE IInv'
    BY <1>1, <2>3, StartGetIInv, ReadGetSeqIInv, CheckGetSpaceIInv, ReadSlotIInv,
       LockCasIInv, GetSkipIInv DEF TryLock
  <2>4. ASSUME NEW t \in Threads, ReleaseLock(t) PROVE IInv'
    BY <1>1, <2>4, ReleaseTakeIInv, ReleaseBackIInv DEF ReleaseLock
  <2>5. CASE Clear
    BY <1>1, <2>5, ClearIInv
  <2> QED BY <1>1, <2>1, <2>2, <2>3, <2>4, <2>5 DEF Next
<1>2. IInv /\ UNCHANGED vars => IInv'
  BY DEF vars, IInv, TypeOK, Window, Exclusive, NoneLost, LockOwned, PutMemory,
         GetMemory, Holding
<1> QED BY InitIInv, <1>1, <1>2, PTL DEF Spec

(* The members of the ring and its callers' memory keep their types.       *)
THEOREM PoolTypeOK == Spec => []TypeOK
<1>1. IInv => TypeOK
  BY DEF IInv
<1> QED BY <1>1, Invariance, PTL

(* No object is ever used by two threads, or by a thread and the pool.     *)
THEOREM PoolExclusive == Spec => []Exclusive
<1>1. IInv => Exclusive
  BY DEF IInv
<1> QED BY <1>1, Invariance, PTL

(* No object leaks out of the pool, whatever calls interleave.             *)
THEOREM PoolNoneLost == Spec => []NoneLost
<1>1. IInv => NoneLost
  BY DEF IInv
<1> QED BY <1>1, Invariance, PTL

(* ReleaseLock always finds its slot locked.                               *)
THEOREM PoolLockOwned == Spec => []LockOwned
<1>1. IInv => LockOwned
  BY DEF IInv
<1> QED BY <1>1, Invariance, PTL

(* m_seqPut and m_seqGet never cross nor drift apart beyond the ring.      *)
THEOREM PoolWindow == Spec => []Window
<1>1. IInv => Window
  BY DEF IInv
<1> QED BY <1>1, Invariance, PTL

-----------------------------------------------------------------------------
(* The invariant of PullServer.                                            *)
ByteType == [c : B!ConnIds, n : Nat]
ItemType == [used : Nat, data : Seq(ByteType)]
BufType  == [id : 0 .. PullConns, length : Nat, items : Seq(ItemType)]
Callback == {"cat", "on_receive", "on_close"}
Keeping  == {"put_cache", "reset", "items", "put"}
BwkType  == [pc : {"idle", "pick", "remove"} \cup Callback \cup Keeping,
             c : 0 .. PullConns, b : PullBufs \cup {None}, n : Nat, len : Nat]
PullTypes ==
  /\ bconns \in [B!ConnIds -> {"none", "open", "busy", "gone"}]
  /\ reserved \in [B!ConnIds -> PullBufs \cup {None}]
  /\ cache \in [0 .. PullSize - 1 -> PullBufs \cup {None}]
  /\ buf \in [PullBufs -> BufType]
  /\ bfree \subseteq PullBufs /\ gc \subseteq PullBufs
  /\ bwk \in [Workers -> BwkType]
  /\ sent \in [B!ConnIds -> Nat] /\ got \in [B!ConnIds -> Seq(ByteType)]

(* One worker at a time serves a connection, one connection at a time has  *)
(* a slot.                                                                 *)
Serving ==
  /\ \A w \in Workers :
       /\ bwk[w].pc # "idle" => bwk[w].c \in B!ConnIds /\ bconns[bwk[w].c] = "busy"
       /\ bwk[w].b # None <=> bwk[w].pc \in Keeping
       /\ bwk[w].pc = "cat" => bwk[w].n > 0
       /\ bwk[w].pc # "cat" => bwk[w].n = 0 /\ bwk[w].len = 0
  /\ \A v, w \in Workers :
       bwk[v].pc # "idle" /\ bwk[w].pc # "idle" /\ bwk[v].c = bwk[w].c => v = w
SlotsApart ==
  \A c, d \in B!ConnIds :
    bconns[c] \in {"open", "busy"} /\ bconns[d] \in {"open", "busy"} /\ B!Slot(c) = B!Slot(d)
      => c = d

(* A buffer carries the id of its connection until it is reset.            *)
Mine(c) ==
  reserved[c] \in PullBufs /\ cache[B!Slot(c)] = reserved[c] /\ buf[reserved[c]].id = c
Cached(c) ==
  bconns[c] = "open" \/ \E w \in Workers : bwk[w].pc \in Callback /\ bwk[w].c = c
Identified ==
  /\ \A c \in B!ConnIds : Cached(c) => Mine(c)
  /\ \A w \in Workers :
       /\ bwk[w].pc \in {"put_cache", "reset"} => buf[bwk[w].b].id = bwk[w].c
       /\ bwk[w].pc \in {"items", "put"} => buf[bwk[w].b].id = 0
       /\ bwk[w].b # None => \A s \in 0 .. PullSize - 1 : cache[s] # bwk[w].b
  /\ \A v, w \in Workers : bwk[v].b # None /\ bwk[v].b = bwk[w].b => v = w
  /\ \A s \in 0 .. PullSize - 1 :
       cache[s] # None =>
         \E c \in B!ConnIds : Cached(c) /\ B!Slot(c) = s /\ buf[cache[s]].id = c
  /\ \A b \in PullBufs :
       buf[b].id # 0 => cache[B!Slot(buf[b].id)] = b \/ \E w \in Workers : bwk[w].b = b

(* A buffer without a connection is empty, in a pool or not.               *)
Emptied ==
  /\ \A b \in bfree \cup gc : buf[b] = B!Fresh /\ \A w \in Workers : bwk[w].b # b
  /\ bfree \cap gc = {}
  /\ \A b \in PullBufs : buf[b].id = 0 =>
       \/ buf[b] = B!Fresh
       \/ \E w \in Workers : bwk[w].b = b /\ bwk[w].pc \in {"items", "put"}
  /\ \A w \in Workers :
       /\ bwk[w].pc \in {"put_cache", "items", "put"} => buf[bwk[w].b].length = 0
       /\ bwk[w].pc \in {"put_cache", "put"} => buf[bwk[w].b].items = <<>>

(* What is where: fetched, in the buffer, or among the last n bytes, which *)
(* the worker has still to add; the length counts len bytes later.         *)
WellFormed ==
  \A b \in PullBufs : \A i \in 1 .. Len(buf[b].items) :
    /\ buf[b].items[i].used \in 1 .. Capacity
    /\ Len(buf[b].items[i].data) \in 1 .. buf[b].items[i].used
Accounted(c, n, len) ==
  /\ n <= len /\ buf[reserved[c]].length + len + Len(got[c]) = sent[c]
  /\ B!InItems(buf[reserved[c]].items, c, Len(got[c]), sent[c] - n)
Delivered ==
  /\ \A c \in B!ConnIds :
       /\ Len(got[c]) <= sent[c] /\ \A i \in 1 .. Len(got[c]) : got[c][i] = B!Byte(c, i)
       /\ bconns[c] = "none" => sent[c] = 0
       /\ bconns[c] = "open" => Accounted(c, 0, 0)
  /\ \A w \in Workers :
       /\ bwk[w].pc \in {"pick", "put_cache"} => sent[bwk[w].c] = 0
       /\ bwk[w].pc \in Callback => Accounted(bwk[w].c, bwk[w].n, bwk[w].len)

PullInv == PullTypes /\ Serving /\ SlotsApart /\ Identified /\ Emptied /\ WellFormed /\ Delivered

LEMMA Ids ==
  /\ 0 \notin B!ConnIds
  /\ \A c \in B!ConnIds : c \in Nat /\ c \in 0 .. PullConns /\ B!Slot(c) \in 0 .. PullSize - 1
  /\ \A c \in 0 .. PullConns : c # 0 => c \in B!ConnIds
BY PullAssumption DEF B!ConnIds, B!Slot

LEMMA IdleIs ==
  /\ B!Idle \in BwkType
  /\ B!Idle.pc = "idle" /\ B!Idle.b = None /\ B!Idle.n = 0 /\ B!Idle.len = 0
BY PullAssumption DEF B!Idle, BwkType

(* A step of one worker, on one connection.                                *)
Others(w) == bwk' \in [Workers -> BwkType] /\ \A v \in Workers : v # w => bwk'[v] = bwk[v]
OnlyConn(c) ==
  /\ bconns' \in [B!ConnIds -> {"none", "open", "busy", "gone"}]
  /\ \A d \in B!ConnIds : d # c => bconns'[d] = bconns[d]

LEMMA ServingFrom ==
  ASSUME Serving, NEW w \in Workers, NEW c \in B!ConnIds, Others(w), OnlyConn(c),
         IF bwk[w].pc = "idle" THEN bconns[c] # "busy" ELSE bwk[w].c = c,
         bwk'[w].pc # "idle" => bwk'[w].c = c /\ bconns'[c] = "busy",
         bwk'[w].b # None <=> bwk'[w].pc \in Keeping,
         IF bwk'[w].pc = "cat" THEN bwk'[w].n > 0 ELSE bwk'[w].n = 0 /\ bwk'[w].len = 0
  PROVE  Serving'
<1>1. \A v \in Workers : v # w /\ bwk[v].pc # "idle" =>
        bwk[v].c \in B!ConnIds /\ bwk[v].c # c /\ bconns'[bwk[v].c] = "busy"
  BY DEF Serving, OnlyConn
<1>2. \A v \in Workers :
        /\ bwk'[v].pc # "idle" => bwk'[v].c \in B!ConnIds /\ bconns'[bwk'[v].c] = "busy"
        /\ bwk'[v].b # None <=> bwk'[v].pc \in Keeping
        /\ bwk'[v].pc = "cat" => bwk'[v].n > 0
        /\ bwk'[v].pc # "cat" => bwk'[v].n = 0 /\ bwk'[v].len = 0
  BY <1>1 DEF Serving, Others
<1>3. \A u, v \in Workers :
        bwk'[u].pc # "idle" /\ bwk'[v].pc # "idle" /\ bwk'[u].c = bwk'[v].c => u = v
  BY <1>1 DEF Serving, Others
<1> QED BY <1>2, <1>3 DEF Serving

LEMMA CachedBy ==
  ASSUME Serving, NEW w \in Workers, NEW c \in B!ConnIds, Others(w), OnlyConn(c),
         IF bwk[w].pc = "idle" THEN bconns[c] # "busy" ELSE bwk[w].c = c,
         bwk'[w].pc # "idle" => bwk'[w].c = c
  PROVE  /\ \A d \in B!ConnIds : d # c => (Cached(d)' <=> Cached(d))
         /\ Cached(c) <=> bconns[c] = "open" \/ bwk[w].pc \in Callback
         /\ Cached(c)' <=> bconns'[c] = "open" \/ bwk'[w].pc \in Callback
<1>1. \A v \in Workers : v # w /\ bwk[v].pc # "idle" => bwk[v].c # c
  BY DEF Serving
<1>2. Cached(c) <=> bconns[c] = "open" \/ bwk[w].pc \in Callback
  BY <1>1 DEF Cached, Callback, Serving
<1>3. Cached(c)' <=> bconns'[c] = "open" \/ bwk'[w].pc \in Callback
  BY <1>1 DEF Cached, Callback, Others
<1>4. ASSUME NEW d \in B!ConnIds, d # c PROVE Cached(d)' <=> Cached(d)
  <2>1. bconns'[d] = bconns[d]
    BY <1>4 DEF OnlyConn
  <2>2. \A v \in Workers : bwk'[v].pc \in Callback /\ bwk'[v].c = d
                       <=> bwk[v].pc \in Callback /\ bwk[v].c = d
    BY <1>4 DEF Others, Serving, Callback
  <2> QED BY Zenon, <2>1, <2>2 DEF Cached
<1> QED BY <1>2, <1>3, <1>4

LEMMA SlotsFrom ==
  ASSUME SlotsApart, NEW c \in B!ConnIds, OnlyConn(c),
         \/ bconns'[c] = "gone" \/ bconns[c] \in {"open", "busy"}
         \/ \A d \in B!ConnIds : B!Slot(d) = B!Slot(c) => bconns[d] \in {"none", "gone"}
  PROVE  SlotsApart'
BY DEF SlotsApart, OnlyConn

(* A step that only changes who serves which connection: no buffer is      *)
(* taken or given back.                                                    *)
LEMMA BuffersFrom ==
  ASSUME Identified, Emptied, NEW w \in Workers, Others(w), bwk[w].b = None, bwk'[w].b = None,
         bwk'[w].pc \notin Keeping, bfree \cup gc \subseteq PullBufs,
         UNCHANGED <<cache, buf, bfree, gc>>,
         \A c \in B!ConnIds : (Cached(c)' <=> Cached(c)) /\ (Cached(c) => reserved'[c] = reserved[c])
  PROVE  Identified' /\ Emptied'
<1>1. \A v \in Workers : bwk'[v].b = bwk[v].b /\ (bwk[v].b # None => bwk'[v] = bwk[v])
  BY DEF Others
<1>2. \A v \in Workers : bwk'[v].pc \in Keeping => bwk'[v] = bwk[v]
  BY DEF Others
<1>3. \A c \in B!ConnIds : Cached(c)' => Mine(c)'
  BY DEF Identified, Mine
<1>4. \A v \in Workers :
        /\ bwk'[v].pc \in {"put_cache", "reset"} => buf'[bwk'[v].b].id = bwk'[v].c
        /\ bwk'[v].pc \in {"items", "put"} => buf'[bwk'[v].b].id = 0
        /\ bwk'[v].b # None => \A s \in 0 .. PullSize - 1 : cache'[s] # bwk'[v].b
  <2> SUFFICES ASSUME NEW v \in Workers
               PROVE  /\ bwk'[v].pc \in {"put_cache", "reset"} => buf'[bwk'[v].b].id = bwk'[v].c
                      /\ bwk'[v].pc \in {"items", "put"} => buf'[bwk'[v].b].id = 0
                      /\ bwk'[v].b # None => \A s \in 0 .. PullSize - 1 : cache'[s] # bwk'[v].b
    OBVIOUS
  <2>1. bwk'[v].pc \in Keeping => bwk'[v] = bwk[v]
    BY <1>2
  <2> QED BY <1>1, <2>1 DEF Identified, Keeping
<1>5. Identified'
  BY <1>1, <1>3, <1>4 DEF Identified
<1>6. \A v \in Workers :
        /\ bwk'[v].pc \in {"put_cache", "items", "put"} => buf'[bwk'[v].b].length = 0
        /\ bwk'[v].pc \in {"put_cache", "put"} => buf'[bwk'[v].b].items = <<>>
  BY <1>2 DEF Emptied, Keeping
<1>7. \A b \in PullBufs : buf'[b].id = 0 =>
        \/ buf'[b] = B!Fresh
        \/ \E v \in Workers : bwk'[v].b = b /\ bwk'[v].pc \in {"items", "put"}
  <2> SUFFICES ASSUME NEW b \in PullBufs, buf[b].id = 0, buf[b] # B!Fresh
               PROVE  \E v \in Workers : bwk'[v].b = b /\ bwk'[v].pc \in {"items", "put"}
    OBVIOUS
  <2>1. PICK v \in Workers : bwk[v].b = b /\ bwk[v].pc \in {"items", "put"}
    BY DEF Emptied
  <2>2. v # w
    BY <2>1, PullAssumption
  <2> QED BY <2>1, <2>2 DEF Others
<1> QED BY <1>1, <1>5, <1>6, <1>7 DEF Emptied

(* A connection comes.                                                     *)
LEMMA AcceptPull ==
  ASSUME PullInv, NEW w \in Workers, B!Accept(w)
  PROVE  PullInv'
<1> USE DEF B!At
<1>1. /\ PullTypes /\ bwk[w].pc = "idle" /\ bwk[w].b = None
      /\ UNCHANGED <<reserved, cache, buf, bfree, gc, sent, got>>
  BY DEF B!Accept, PullInv, Serving, Keeping
<1>2. PICK c \in B!ConnIds :
        /\ bconns[c] = "none" /\ bconns' = [bconns EXCEPT ![c] = "busy"]
        /\ \A d \in B!ConnIds : B!Slot(d) = B!Slot(c) => bconns[d] \in {"none", "gone"}
        /\ bwk' = [bwk EXCEPT ![w] = [B!Idle EXCEPT !.pc = "pick", !.c = c]]
  BY DEF B!Accept
<1>3. PICK r \in BwkType : r = [B!Idle EXCEPT !.pc = "pick", !.c = c]
  BY Ids, IdleIs DEF BwkType
<1>4. r.pc = "pick" /\ r.c = c /\ r.b = None /\ r.n = 0 /\ r.len = 0
  BY <1>3, IdleIs DEF BwkType
<1>5. /\ Others(w) /\ bwk'[w] = r /\ OnlyConn(c) /\ bconns'[c] = "busy"
  <2>1. bwk' = [bwk EXCEPT ![w] = r]
    BY <1>2, <1>3
  <2> QED BY <1>1, <1>2, <2>1 DEF PullTypes, Others, OnlyConn
<1>6. PullTypes' /\ WellFormed'
  <2>1. PullTypes'
    BY <1>1, <1>5 DEF PullTypes, Others, OnlyConn
  <2>2. WellFormed'
    BY <1>1 DEF PullInv, WellFormed
  <2> QED BY <2>1, <2>2
<1>7. Serving'
  BY <1>1, <1>2, <1>3, <1>4, <1>5, ServingFrom DEF PullInv, Keeping
<1>8. SlotsApart'
  BY <1>2, <1>5, SlotsFrom DEF PullInv
<1>9. Identified' /\ Emptied'
  <2>1. \A d \in B!ConnIds :
          (Cached(d)' <=> Cached(d)) /\ (Cached(d) => reserved'[d] = reserved[d])
    BY <1>1, <1>2, <1>4, <1>5, CachedBy DEF PullInv, Callback
  <2> QED BY <1>1, <1>3, <1>4, <1>5, <2>1, BuffersFrom DEF PullInv, PullTypes, Keeping
<1>10. Delivered'
  BY <1>1, <1>2, <1>3, <1>4, <1>5 DEF PullInv, Delivered, Accounted, Callback, Others, OnlyConn
<1> QED BY <1>6, <1>7, <1>8, <1>9, <1>10 DEF PullInv

\* OnHandShake answers HR_ERROR.
LEMMA RefusePull ==
  ASSUME PullInv, NEW w \in Workers, B!Refuse(w)
  PROVE  PullInv'
<1> USE DEF B!At
<1>1. /\ PullTypes /\ bwk[w].pc = "pick" /\ bwk[w].b = None
      /\ UNCHANGED <<reserved, cache, buf, bfree, gc, sent, got>>
  BY DEF B!Refuse, PullInv, Serving, Keeping
<1>2. PICK c \in B!ConnIds : c = bwk[w].c /\ bconns[c] = "busy"
  BY <1>1 DEF PullInv, Serving
<1>3. bconns' = [bconns EXCEPT ![c] = "gone"] /\ bwk' = [bwk EXCEPT ![w] = B!Idle]
  BY <1>2 DEF B!Refuse
<1>4. PICK r \in BwkType : r = B!Idle
  BY IdleIs
<1>5. r.pc = "idle" /\ r.b = None /\ r.n = 0 /\ r.len = 0
  BY <1>4, IdleIs
<1>6. /\ Others(w) /\ bwk'[w] = r /\ OnlyConn(c) /\ bconns'[c] = "gone"
  BY <1>1, <1>3, <1>4 DEF PullTypes, Others, OnlyConn
<1>7. PullTypes' /\ WellFormed'
  <2>1. PullTypes'
    BY <1>1, <1>6 DEF PullTypes, Others, OnlyConn
  <2>2. WellFormed'
    BY <1>1 DEF PullInv, WellFormed
  <2> QED BY <2>1, <2>2
<1>8. Serving' /\ SlotsApart'
  BY <1>1, <1>2, <1>5, <1>6, ServingFrom, SlotsFrom DEF PullInv, Keeping
<1>9. Identified' /\ Emptied'
  <2>1. \A d \in B!ConnIds :
          (Cached(d)' <=> Cached(d)) /\ (Cached(d) => reserved'[d] = reserved[d])
    BY <1>1, <1>2, <1>5, <1>6, CachedBy DEF PullInv, Callback
  <2> QED BY <1>1, <1>5, <1>6, <2>1, BuffersFrom DEF PullInv, PullTypes, Keeping
<1>10. Delivered'
  BY <1>1, <1>2, <1>5, <1>6 DEF PullInv, Delivered, Accounted, Callback, Others, OnlyConn
<1> QED BY <1>7, <1>8, <1>9, <1>10 DEF PullInv

\* The callback ends; the connection may be read again.
LEMMA ReceivedPull ==
  ASSUME PullInv, NEW w \in Workers, B!Received(w)
  PROVE  PullInv'
<1> USE DEF B!At
<1>1. /\ PullTypes /\ bwk[w].pc = "on_receive" /\ bwk[w].b = None /\ bwk[w].n = 0 /\ bwk[w].len = 0
      /\ UNCHANGED <<reserved, cache, buf, bfree, gc, sent, got>>
  BY DEF B!Received, PullInv, Serving, Keeping
<1>2. PICK c \in B!ConnIds : c = bwk[w].c /\ bconns[c] = "busy"
  BY <1>1 DEF PullInv, Serving
<1>3. bconns' = [bconns EXCEPT ![c] = "open"] /\ bwk' = [bwk EXCEPT ![w] = B!Idle]
  BY <1>2 DEF B!Received
<1>4. PICK r \in BwkType : r = B!Idle
  BY IdleIs
<1>5. r.pc = "idle" /\ r.b = None /\ r.n = 0 /\ r.len = 0
  BY <1>4, IdleIs
<1>6. /\ Others(w) /\ bwk'[w] = r /\ OnlyConn(c) /\ bconns'[c] = "open"
  BY <1>1, <1>3, <1>4 DEF PullTypes, Others, OnlyConn
<1>7. PullTypes' /\ WellFormed'
  <2>1. PullTypes'
    BY <1>1, <1>6 DEF PullTypes, Others, OnlyConn
  <2>2. WellFormed'
    BY <1>1 DEF PullInv, WellFormed
  <2> QED BY <2>1, <2>2
<1>8. Serving' /\ SlotsApart'
  BY <1>1, <1>2, <1>5, <1>6, ServingFrom, SlotsFrom DEF PullInv, Keeping
<1>9. Identified' /\ Emptied'
  <2>1. \A d \in B!ConnIds :
          (Cached(d)' <=> Cached(d)) /\ (Cached(d) => reserved'[d] = reserved[d])
    BY <1>1, <1>2, <1>5, <1>6, CachedBy DEF PullInv, Callback
  <2> QED BY <1>1, <1>5, <1>6, <2>1, BuffersFrom DEF PullInv, PullTypes, Keeping
<1>10. Delivered'
  <2>1. Accounted(c, 0, 0)
    BY <1>1, <1>2 DEF PullInv, Delivered, Callback
  <2> QED BY <1>1, <1>2, <1>5, <1>6, <2>1 DEF PullInv, Delivered, Accounted, Callback, Others,
             OnlyConn
<1> QED BY <1>7, <1>8, <1>9, <1>10 DEF PullInv

\* A connection is closed: by its worker, or by one that was idle.
LEMMA ClosePull ==
  ASSUME PullInv, NEW w \in Workers, B!Close(w)
  PROVE  PullInv'
<1> USE DEF B!At
<1>1. /\ PullTypes /\ bwk[w].pc \in {"idle", "on_receive"} /\ bwk[w].b = None
      /\ bwk[w].n = 0 /\ bwk[w].len = 0
      /\ UNCHANGED <<reserved, cache, buf, bfree, gc, sent, got>>
  BY DEF B!Close, PullInv, Serving, Keeping
<1>2. PICK c \in B!ConnIds, r \in BwkType :
        /\ bconns[c] \in {"open", "busy"}
        /\ IF bwk[w].pc = "idle" THEN bconns[c] = "open" ELSE bwk[w].c = c
        /\ bconns' \in [B!ConnIds -> {"none", "open", "busy", "gone"}] /\ bconns'[c] = "busy"
        /\ \A d \in B!ConnIds : d # c => bconns'[d] = bconns[d]
        /\ bwk' = [bwk EXCEPT ![w] = r]
        /\ r.pc = "on_close" /\ r.c = c /\ r.b = None /\ r.n = 0 /\ r.len = 0
  <2>1. CASE bwk[w].pc = "idle"
    <3>1. PICK c \in B!ConnIds :
            /\ bconns[c] = "open" /\ bconns' = [bconns EXCEPT ![c] = "busy"]
            /\ bwk' = [bwk EXCEPT ![w] = [B!Idle EXCEPT !.pc = "on_close", !.c = c]]
      BY <2>1 DEF B!Close
    <3>2. PICK r \in BwkType : r = [B!Idle EXCEPT !.pc = "on_close", !.c = c]
      BY Ids, IdleIs DEF BwkType, Callback
    <3>3. r.pc = "on_close" /\ r.c = c /\ r.b = None /\ r.n = 0 /\ r.len = 0
      BY <3>2, IdleIs DEF BwkType
    <3> QED BY <1>1, <2>1, <3>1, <3>2, <3>3 DEF PullTypes
  <2>2. CASE bwk[w].pc = "on_receive"
    <3>1. PICK c \in B!ConnIds : c = bwk[w].c /\ bconns[c] = "busy"
      BY <2>2 DEF PullInv, Serving
    <3>2. bconns' = bconns /\ bwk' = [bwk EXCEPT ![w].pc = "on_close"]
      <4>1. bwk[w].pc # "idle"
        BY <2>2
      <4> QED BY Zenon, <4>1 DEF B!Close, B!Goto
    <3>3. PICK r \in BwkType : r = [bwk[w] EXCEPT !.pc = "on_close"]
      <4>1. bwk[w] \in BwkType
        BY <1>1 DEF PullTypes
      <4> QED BY <4>1 DEF BwkType, Callback
    <3>4. r.pc = "on_close" /\ r.c = c /\ r.b = None /\ r.n = 0 /\ r.len = 0
      BY <1>1, <3>1, <3>3 DEF PullTypes, BwkType
    <3> QED BY <1>1, <2>2, <3>1, <3>2, <3>3, <3>4 DEF PullTypes
  <2> QED BY <1>1, <2>1, <2>2
<1>3. /\ Others(w) /\ bwk'[w] = r /\ OnlyConn(c)
  BY <1>1, <1>2 DEF PullTypes, Others, OnlyConn
<1>4. PullTypes' /\ WellFormed'
  <2>1. PullTypes'
    BY <1>1, <1>3 DEF PullTypes, Others, OnlyConn
  <2>2. WellFormed'
    BY <1>1 DEF PullInv, WellFormed
  <2> QED BY <2>1, <2>2
<1>5. Serving' /\ SlotsApart'
  BY <1>1, <1>2, <1>3, ServingFrom, SlotsFrom DEF PullInv, Keeping
<1>6. Cached(c) /\ Accounted(c, 0, 0)
  BY <1>1, <1>2 DEF Cached, Callback, PullInv, Delivered
<1>7. Identified' /\ Emptied'
  <2>1. \A d \in B!ConnIds :
          (Cached(d)' <=> Cached(d)) /\ (Cached(d) => reserved'[d] = reserved[d])
    BY <1>1, <1>2, <1>3, CachedBy DEF PullInv, Callback
  <2> QED BY <1>1, <1>2, <1>3, <2>1, BuffersFrom DEF PullInv, PullTypes, Keeping
<1>8. Delivered'
  BY <1>1, <1>2, <1>3, <1>6 DEF PullInv, Delivered, Accounted, Callback, Others, OnlyConn
<1> QED BY <1>4, <1>5, <1>7, <1>8 DEF PullInv

\* Bytes of an open connection arrive; they are not in the buffer yet.
LEMMA ReceivePull ==
  ASSUME PullInv, NEW w \in Workers, B!Receive(w)
  PROVE  PullInv'
<1> USE DEF B!At
<1>1. /\ PullTypes /\ bwk[w].pc = "idle" /\ bwk[w].b = None
      /\ UNCHANGED <<reserved, cache, buf, bfree, gc, got>>
  BY DEF B!Receive, PullInv, Serving, Keeping
<1>2. PICK c \in B!ConnIds, n \in 1 .. PullIn :
        /\ bconns[c] = "open" /\ bconns' = [bconns EXCEPT ![c] = "busy"]
        /\ sent' = [sent EXCEPT ![c] = @ + n]
        /\ bwk' = [bwk EXCEPT ![w] = [B!Idle EXCEPT !.pc = "cat", !.c = c, !.n = n, !.len = n]]
  BY DEF B!Receive
<1>3. n \in Nat /\ n > 0
  BY PullAssumption
<1>4. PICK r \in BwkType : r = [B!Idle EXCEPT !.pc = "cat", !.c = c, !.n = n, !.len = n]
  BY <1>3, Ids, IdleIs DEF BwkType, Callback
<1>5. r.pc = "cat" /\ r.c = c /\ r.b = None /\ r.n = n /\ r.len = n
  BY <1>4, IdleIs DEF BwkType
<1>6. /\ Others(w) /\ bwk'[w] = r /\ OnlyConn(c) /\ bconns'[c] = "busy"
  BY <1>1, <1>2, <1>4 DEF PullTypes, Others, OnlyConn
<1>7. PICK k \in Nat : k = sent[c]
  BY <1>1 DEF PullTypes
<1>8. /\ sent' \in [B!ConnIds -> Nat] /\ sent'[c] = k + n
      /\ \A d \in B!ConnIds : d # c => sent'[d] = sent[d]
  BY <1>1, <1>2, <1>3, <1>7 DEF PullTypes
<1>9. PullTypes' /\ WellFormed'
  <2>1. PullTypes'
    BY <1>1, <1>6, <1>8 DEF PullTypes, Others, OnlyConn
  <2>2. WellFormed'
    BY <1>1 DEF PullInv, WellFormed
  <2> QED BY <2>1, <2>2
<1>10. Serving' /\ SlotsApart'
  BY <1>1, <1>2, <1>3, <1>5, <1>6, ServingFrom, SlotsFrom DEF PullInv, Keeping
<1>11. Identified' /\ Emptied'
  <2>1. \A d \in B!ConnIds :
          (Cached(d)' <=> Cached(d)) /\ (Cached(d) => reserved'[d] = reserved[d])
    BY <1>1, <1>2, <1>5, <1>6, CachedBy DEF PullInv, Callback
  <2> QED BY <1>1, <1>5, <1>6, <2>1, BuffersFrom DEF PullInv, PullTypes, Keeping
<1>12. Delivered'
  <2>1. Accounted(c, 0, 0) /\ Len(got[c]) <= k
    BY <1>2, <1>7 DEF PullInv, Delivered
  <2>2. Accounted(c, n, n)'
    <3>1. (k + n) - n = k - 0
      BY <1>3
    <3>2. B!InItems(buf[reserved[c]].items, c, Len(got[c]), (k + n) - n)
      BY <1>7, <2>1, <3>1 DEF Accounted
    <3>3. reserved[c] \in PullBufs
      BY <1>2 DEF PullInv, Identified, Cached, Mine
    <3>4. PICK l \in Nat, g \in Nat : l = buf[reserved[c]].length /\ g = Len(got[c])
      BY <1>1, <3>3 DEF PullTypes, BufType
    <3>5. l + 0 + g = k
      BY <1>7, <2>1, <3>4 DEF Accounted
    <3>6. l + n + g = k + n
      BY <1>3, <3>5
    <3>7. n <= n /\ buf[reserved[c]].length + n + Len(got[c]) = k + n
      BY <1>3, <3>4, <3>6
    <3> QED BY <1>1, <1>8, <3>2, <3>7 DEF Accounted
  <2>3. \A v \in Workers : v # w /\ bwk[v].pc # "idle" => bwk[v].c \in B!ConnIds /\ bwk[v].c # c
    BY <1>2 DEF PullInv, Serving
  <2>4. \A d \in B!ConnIds :
          /\ Len(got'[d]) <= sent'[d] /\ \A i \in 1 .. Len(got'[d]) : got'[d][i] = B!Byte(d, i)
          /\ bconns'[d] = "none" => sent'[d] = 0
          /\ bconns'[d] = "open" => Accounted(d, 0, 0)'
    <3>1. ASSUME NEW d \in B!ConnIds, d # c
          PROVE  /\ Len(got'[d]) <= sent'[d] /\ \A i \in 1 .. Len(got'[d]) : got'[d][i] = B!Byte(d, i)
                 /\ bconns'[d] = "none" => sent'[d] = 0
                 /\ bconns'[d] = "open" => Accounted(d, 0, 0)'
      BY <1>1, <1>6, <1>8, <3>1 DEF PullInv, Delivered, OnlyConn, Accounted
    <3>2. PICK g \in Nat : g = Len(got[c])
      BY <1>1 DEF PullTypes
    <3>3. g <= k + n
      BY <1>3, <2>1, <3>2
    <3>4. \A i \in 1 .. Len(got'[c]) : got'[c][i] = B!Byte(c, i)
      BY <1>1 DEF PullInv, Delivered
    <3> QED BY <1>1, <1>6, <1>8, <3>1, <3>2, <3>3, <3>4
  <2>5. \A v \in Workers :
          /\ bwk'[v].pc \in {"pick", "put_cache"} => sent'[bwk'[v].c] = 0
          /\ bwk'[v].pc \in Callback => Accounted(bwk[v].c, bwk[v].n, bwk[v].len)'
    BY <1>1, <1>5, <1>6, <1>8, <2>2, <2>3 DEF PullInv, Delivered, Others, Accounted, Callback
  <2> QED BY <2>4, <2>5 DEF Delivered
<1> QED BY <1>9, <1>10, <1>11, <1>12 DEF PullInv

-----------------------------------------------------------------------------
(* A buffer is taken, and given back.                                      *)
BufOthers(b) == buf' \in [PullBufs -> BufType] /\ \A p \in PullBufs : p # b => buf'[p] = buf[p]

LEMMA DeliveredFrom ==
  ASSUME Delivered, NEW w \in Workers, NEW c \in B!ConnIds, Others(w), OnlyConn(c),
         UNCHANGED <<got, sent>>,
         bconns'[c] \notin {"none", "open"}, bwk'[w].pc \notin Callback,
         bwk'[w].pc \in {"pick", "put_cache"} => sent[bwk'[w].c] = 0,
         \A v \in Workers : v # w /\ bwk[v].pc # "idle" => bwk[v].c \in B!ConnIds,
         \A d \in B!ConnIds : Cached(d)' =>
           Cached(d) /\ reserved'[d] = reserved[d] /\ buf'[reserved[d]] = buf[reserved[d]]
  PROVE  Delivered'
<1>1. \A d \in B!ConnIds :
        /\ Len(got'[d]) <= sent'[d] /\ \A i \in 1 .. Len(got'[d]) : got'[d][i] = B!Byte(d, i)
        /\ bconns'[d] = "none" => sent'[d] = 0
        /\ bconns'[d] = "open" => Accounted(d, 0, 0)'
  BY DEF Delivered, OnlyConn, Accounted, Cached
<1>2. ASSUME NEW v \in Workers, bwk'[v].pc \in Callback
      PROVE  Accounted(bwk[v].c, bwk[v].n, bwk[v].len)'
  <2>1. v # w /\ bwk'[v] = bwk[v] /\ bwk[v].pc \in Callback
    BY <1>2 DEF Others
  <2>2. PICK d \in B!ConnIds : d = bwk[v].c /\ Cached(d)'
    BY <1>2, <2>1 DEF Cached, Callback
  <2>3. Accounted(d, bwk[v].n, bwk[v].len)
    BY <2>1, <2>2 DEF Delivered
  <2> QED BY <2>1, <2>2, <2>3 DEF Accounted
<1>3. \A v \in Workers : bwk'[v].pc \in {"pick", "put_cache"} => sent'[bwk'[v].c] = 0
  BY DEF Delivered, Others
<1> QED BY <1>1, <1>2, <1>3 DEF Delivered

\* A buffer with an id, and one in a worker's hands, is not in a pool.
LEMMA Taken ==
  ASSUME PullInv, NEW b \in bfree \cup (PullBufs \ B!Living)
  PROVE  /\ b \in PullBufs /\ b # None /\ b \notin gc /\ buf[b] = B!Fresh
         /\ \A v \in Workers : bwk[v].b # b
         /\ \A s \in 0 .. PullSize - 1 : cache[s] # b
<1>1. b \in PullBufs /\ b # None
  BY PullAssumption DEF PullInv, PullTypes
<1>2. CASE b \in bfree
  <2>1. buf[b] = B!Fresh /\ b \notin gc /\ \A v \in Workers : bwk[v].b # b
    BY <1>2 DEF PullInv, Emptied
  <2>2. buf[b].id = 0
    BY <2>1 DEF B!Fresh
  <2>3. \A s \in 0 .. PullSize - 1 : cache[s] # None => buf[cache[s]].id \in B!ConnIds
    BY DEF PullInv, Identified
  <2> QED BY <1>1, <2>1, <2>2, <2>3, Ids
<1>3. CASE b \notin B!Living
  <2>1. /\ b \notin gc /\ \A v \in Workers : bwk[v].b # b
        /\ \A s \in 0 .. PullSize - 1 : cache[s] # b
    BY <1>1, <1>3 DEF B!Living, B!InHands
  <2>2. buf[b].id \in 0 .. PullConns
    BY <1>1 DEF PullInv, PullTypes, BufType
  <2>3. buf[b].id = 0
    BY <1>1, <2>1, <2>2, Ids DEF PullInv, Identified
  <2>4. buf[b] = B!Fresh
    BY <1>1, <2>1, <2>3 DEF PullInv, Emptied
  <2> QED BY <1>1, <2>1, <2>4
<1> QED BY <1>2, <1>3

LEMMA PickFreePull ==
  ASSUME PullInv, NEW w \in Workers, B!PickFreeBuffer(w)
  PROVE  PullInv'
<1> USE DEF B!At
<1>1. /\ PullTypes /\ bwk[w].pc = "pick" /\ bwk[w].b = None /\ bwk[w].n = 0 /\ bwk[w].len = 0
      /\ UNCHANGED <<bconns, reserved, cache, gc, sent, got>>
  BY DEF B!PickFreeBuffer, PullInv, Serving, Keeping
<1>2. PICK c \in B!ConnIds : c = bwk[w].c /\ bconns[c] = "busy" /\ c # 0 /\ sent[c] = 0
  BY <1>1, Ids DEF PullInv, Serving, Delivered
<1>3. PICK b \in bfree \cup (PullBufs \ B!Living) :
        /\ bfree' = bfree \ {b} /\ buf' = [buf EXCEPT ![b].id = c]
        /\ bwk' = [bwk EXCEPT ![w].pc = "put_cache", ![w].b = b]
  BY <1>2 DEF B!PickFreeBuffer
<1>4. /\ b \in PullBufs /\ b # None /\ b \notin gc /\ buf[b] = B!Fresh
      /\ \A v \in Workers : bwk[v].b # b
      /\ \A s \in 0 .. PullSize - 1 : cache[s] # b
  BY Taken
<1>5. bwk[w] \in BwkType /\ buf[b] \in BufType
  BY <1>1, <1>4 DEF PullTypes
<1>6. PICK r \in BwkType : r = [bwk[w] EXCEPT !.pc = "put_cache", !.b = b]
  BY <1>4, <1>5 DEF BwkType, Keeping
<1>7. r.pc = "put_cache" /\ r.c = c /\ r.b = b /\ r.n = 0 /\ r.len = 0
  BY <1>1, <1>2, <1>5, <1>6 DEF BwkType
<1>8. /\ Others(w) /\ bwk'[w] = r /\ OnlyConn(c) /\ bconns'[c] = "busy"
  BY <1>1, <1>2, <1>3, <1>6 DEF PullTypes, Others, OnlyConn
<1>9. /\ BufOthers(b) /\ buf'[b].id = c /\ buf'[b].length = 0 /\ buf'[b].items = <<>>
      /\ buf[b].id = 0
  <2>1. PICK x \in BufType : x = [buf[b] EXCEPT !.id = c]
    BY <1>5, Ids DEF BufType
  <2>2. buf[b].id = 0 /\ buf[b].length = 0 /\ buf[b].items = <<>>
    BY <1>4 DEF B!Fresh
  <2>3. x.id = c /\ x.length = 0 /\ x.items = <<>>
    BY <1>5, <2>1, <2>2 DEF BufType
  <2> QED BY <1>1, <1>3, <1>4, <2>1, <2>2, <2>3 DEF PullTypes, BufOthers
<1>10. PullTypes' /\ WellFormed'
  <2>1. PullTypes'
    BY <1>1, <1>3, <1>8, <1>9 DEF PullTypes, Others, BufOthers
  <2>2. WellFormed'
    BY <1>9 DEF PullInv, WellFormed, BufOthers
  <2> QED BY <2>1, <2>2
<1>11. Serving' /\ SlotsApart'
  BY <1>1, <1>2, <1>4, <1>7, <1>8, ServingFrom, SlotsFrom DEF PullInv, Keeping
<1>12. \A d \in B!ConnIds :
         /\ Cached(d)' <=> Cached(d)
         /\ Cached(d) => /\ reserved'[d] = reserved[d] /\ buf'[reserved[d]] = buf[reserved[d]]
                         /\ Mine(d)'
  <2>1. \A d \in B!ConnIds : Cached(d)' <=> Cached(d)
    BY <1>1, <1>2, <1>7, <1>8, CachedBy DEF PullInv, Callback
  <2>2. ASSUME NEW d \in B!ConnIds, Mine(d) PROVE reserved[d] # b
    BY <1>9, <2>2, Ids DEF Mine
  <2> QED BY <1>1, <1>9, <2>1, <2>2 DEF PullInv, Identified, Mine, BufOthers
<1>13. Identified'
  <2>1. \A v \in Workers :
       /\ bwk'[v].pc \in {"put_cache", "reset"} => buf'[bwk'[v].b].id = bwk'[v].c
       /\ bwk'[v].pc \in {"items", "put"} => buf'[bwk'[v].b].id = 0
       /\ bwk'[v].b # None => \A s \in 0 .. PullSize - 1 : cache'[s] # bwk'[v].b
    <3>1. ASSUME NEW v \in Workers, v # w, bwk[v].pc \in Keeping
          PROVE  bwk[v].b \in PullBufs /\ bwk[v].b # b
      BY <1>1, <1>4, <3>1 DEF PullInv, Serving, PullTypes, BwkType
    <3> QED BY <1>1, <1>4, <1>7, <1>8, <1>9, <3>1 DEF PullInv, Identified, Others, BufOthers,
               Keeping
  <2>2. \A u, v \in Workers : bwk'[u].b # None /\ bwk'[u].b = bwk'[v].b => u = v
    BY <1>4, <1>7, <1>8 DEF PullInv, Identified, Others
  <2>3. \A s \in 0 .. PullSize - 1 :
          cache'[s] # None =>
            \E d \in B!ConnIds : Cached(d)' /\ B!Slot(d) = s /\ buf'[cache'[s]].id = d
    BY <1>1, <1>4, <1>9, <1>12 DEF PullInv, Identified, BufOthers, PullTypes
  <2>4. \A p \in PullBufs : buf'[p].id # 0 =>
          cache'[B!Slot(buf'[p].id)] = p \/ \E v \in Workers : bwk'[v].b = p
    <3>1. ASSUME NEW p \in PullBufs, p # b, buf[p].id # 0
          PROVE  cache[B!Slot(buf[p].id)] = p \/ \E v \in Workers : bwk'[v].b = p
      BY <1>1, <1>8, <3>1, PullAssumption DEF PullInv, Identified, Others
    <3> QED BY <1>1, <1>7, <1>8, <1>9, <3>1 DEF BufOthers
  <2> QED BY <1>12, <2>1, <2>2, <2>3, <2>4 DEF Identified
<1>14. Emptied'
  <2>1. \A p \in bfree' \cup gc' : buf'[p] = B!Fresh /\ \A v \in Workers : bwk'[v].b # p
    BY <1>1, <1>3, <1>4, <1>7, <1>8, <1>9 DEF PullInv, PullTypes, Emptied, Others, BufOthers
  <2>2. \A p \in PullBufs : buf'[p].id = 0 =>
          \/ buf'[p] = B!Fresh
          \/ \E v \in Workers : bwk'[v].b = p /\ bwk'[v].pc \in {"items", "put"}
    BY <1>1, <1>2, <1>8, <1>9 DEF PullInv, Emptied, Others, BufOthers
  <2>3. \A v \in Workers :
          /\ bwk'[v].pc \in {"put_cache", "items", "put"} => buf'[bwk'[v].b].length = 0
          /\ bwk'[v].pc \in {"put_cache", "put"} => buf'[bwk'[v].b].items = <<>>
    <3>1. ASSUME NEW v \in Workers, v # w, bwk[v].pc \in Keeping
          PROVE  bwk[v].b \in PullBufs /\ bwk[v].b # b
      BY <1>1, <1>4, <3>1 DEF PullInv, Serving, PullTypes, BwkType
    <3> QED BY <1>7, <1>8, <1>9, <3>1 DEF PullInv, Emptied, Others, BufOthers, Keeping
  <2> QED BY <1>1, <1>3, <2>1, <2>2, <2>3 DEF PullInv, Emptied
<1>15. Delivered'
  <2>1. \A v \in Workers : v # w /\ bwk[v].pc # "idle" => bwk[v].c \in B!ConnIds
    BY DEF PullInv, Serving
  <2> QED BY <1>1, <1>2, <1>7, <1>8, <1>12, <2>1, DeliveredFrom DEF PullInv, Callback
<1> QED BY <1>10, <1>11, <1>13, <1>14, <1>15 DEF PullInv

\* The buffer is found by the id from now on.
LEMMA PutCachePull ==
  ASSUME PullInv, NEW w \in Workers, B!PutCacheBuffer(w)
  PROVE  PullInv'
<1> USE DEF B!At
<1>1. /\ PullTypes /\ bwk[w].pc = "put_cache"
      /\ UNCHANGED <<buf, bfree, gc, sent, got>>
  BY DEF B!PutCacheBuffer, PullInv
<1>2. PICK c \in B!ConnIds : c = bwk[w].c /\ bconns[c] = "busy" /\ c # 0 /\ sent[c] = 0
  BY <1>1, Ids DEF PullInv, Serving, Delivered
<1>3. PICK b \in PullBufs : /\ b = bwk[w].b /\ b # None /\ buf[b].id = c
                            /\ buf[b].length = 0 /\ buf[b].items = <<>>
  BY <1>1, <1>2, PullAssumption DEF PullInv, Serving, Identified, Emptied, Keeping, PullTypes,
     BwkType
<1>4. /\ cache' = [cache EXCEPT ![B!Slot(c)] = b] /\ reserved' = [reserved EXCEPT ![c] = b]
      /\ bconns' = [bconns EXCEPT ![c] = "open"] /\ bwk' = [bwk EXCEPT ![w] = B!Idle]
  BY <1>2, <1>3 DEF B!PutCacheBuffer
<1>5. PICK r \in BwkType : r = B!Idle /\ r.pc = "idle" /\ r.b = None /\ r.n = 0 /\ r.len = 0
  BY IdleIs
<1>6. /\ Others(w) /\ bwk'[w] = r /\ OnlyConn(c) /\ bconns'[c] = "open"
  BY <1>1, <1>4, <1>5 DEF PullTypes, Others, OnlyConn
<1>7. PICK s0 \in 0 .. PullSize - 1 : s0 = B!Slot(c)
  BY Ids
<1>8. /\ cache' \in [0 .. PullSize - 1 -> PullBufs \cup {None}] /\ cache'[s0] = b
      /\ \A s \in 0 .. PullSize - 1 : s # s0 => cache'[s] = cache[s]
      /\ reserved' \in [B!ConnIds -> PullBufs \cup {None}] /\ reserved'[c] = b
      /\ \A d \in B!ConnIds : d # c => reserved'[d] = reserved[d]
  BY <1>1, <1>4, <1>7 DEF PullTypes
<1>9. PullTypes' /\ WellFormed'
  <2>1. PullTypes'
    BY <1>1, <1>6, <1>8 DEF PullTypes, Others, OnlyConn
  <2>2. WellFormed'
    BY <1>1 DEF PullInv, WellFormed
  <2> QED BY <2>1, <2>2
<1>10. Serving' /\ SlotsApart'
  BY <1>1, <1>2, <1>5, <1>6, ServingFrom, SlotsFrom DEF PullInv, Keeping
<1>11. /\ \A d \in B!ConnIds : d # c => (Cached(d)' <=> Cached(d))
       /\ ~Cached(c) /\ Cached(c)'
  BY <1>1, <1>2, <1>5, <1>6, CachedBy DEF PullInv, Callback
<1>12. \A d \in B!ConnIds : d # c /\ Cached(d) => B!Slot(d) # s0 /\ B!Slot(d) \in 0 .. PullSize - 1
  BY <1>2, <1>7, Ids DEF PullInv, SlotsApart, Cached, Serving, Callback
<1>13. Identified'
  <2>1. \A d \in B!ConnIds : Cached(d)' => Mine(d)'
    <3>1. Mine(c)'
      BY <1>1, <1>3, <1>7, <1>8 DEF Mine
    <3>2. ASSUME NEW d \in B!ConnIds, d # c, Cached(d)' PROVE Mine(d)'
      BY <1>1, <1>8, <1>11, <1>12, <3>2 DEF PullInv, Identified, Mine
    <3> QED BY <3>1, <3>2
  <2>2. \A v \in Workers :
          /\ bwk'[v].pc \in {"put_cache", "reset"} => buf'[bwk'[v].b].id = bwk'[v].c
          /\ bwk'[v].pc \in {"items", "put"} => buf'[bwk'[v].b].id = 0
          /\ bwk'[v].b # None => \A s \in 0 .. PullSize - 1 : cache'[s] # bwk'[v].b
    <3>1. ASSUME NEW v \in Workers, v # w
          PROVE  bwk[v].b # None => \A s \in 0 .. PullSize - 1 : cache'[s] # bwk[v].b
      BY <1>3, <1>8, <3>1 DEF PullInv, Identified
    <3> QED BY <1>1, <1>5, <1>6, <3>1 DEF PullInv, Identified, Others
  <2>3. \A u, v \in Workers : bwk'[u].b # None /\ bwk'[u].b = bwk'[v].b => u = v
    BY <1>5, <1>6 DEF PullInv, Identified, Others
  <2>4. \A s \in 0 .. PullSize - 1 : cache'[s] # None =>
          \E d \in B!ConnIds : Cached(d)' /\ B!Slot(d) = s /\ buf'[cache'[s]].id = d
    BY <1>1, <1>3, <1>7, <1>8, <1>11 DEF PullInv, Identified
  <2>5. ASSUME NEW p \in PullBufs, buf[p].id # 0
        PROVE  cache'[B!Slot(buf[p].id)] = p \/ \E v \in Workers : bwk'[v].b = p
    <3>1. CASE p = b
      BY <1>3, <1>7, <1>8, <3>1
    <3>2. CASE p # b /\ cache[B!Slot(buf[p].id)] = p
      <4>1. PICK s \in 0 .. PullSize - 1 : s = B!Slot(buf[p].id)
        <5>1. buf[p].id \in 0 .. PullConns
          BY <1>1 DEF PullTypes, BufType
        <5> QED BY <2>5, <5>1, Ids
      <4>2. PICK d \in B!ConnIds : Cached(d) /\ B!Slot(d) = s /\ buf[p].id = d
        BY <3>2, <4>1, PullAssumption DEF PullInv, Identified
      <4>3. s # s0
        BY <1>11, <1>12, <4>2
      <4> QED BY <1>8, <3>2, <4>1, <4>3
    <3>3. CASE p # b /\ \E v \in Workers : bwk[v].b = p
      BY <1>3, <1>6, <3>3 DEF Others
    <3> QED BY <2>5, <3>1, <3>2, <3>3 DEF PullInv, Identified
  <2> QED BY <1>1, <2>1, <2>2, <2>3, <2>4, <2>5 DEF Identified
<1>14. Emptied'
  <2>1. \A p \in bfree' \cup gc' : buf'[p] = B!Fresh /\ \A v \in Workers : bwk'[v].b # p
    <3>1. None \notin bfree \cup gc
      BY <1>1, PullAssumption DEF PullTypes
    <3> QED BY <1>1, <1>5, <1>6, <3>1 DEF PullInv, Emptied, Others
  <2>2. \A p \in PullBufs : buf'[p].id = 0 =>
          \/ buf'[p] = B!Fresh
          \/ \E v \in Workers : bwk'[v].b = p /\ bwk'[v].pc \in {"items", "put"}
    BY <1>1, <1>6 DEF PullInv, Emptied, Others
  <2>3. \A v \in Workers :
          /\ bwk'[v].pc \in {"put_cache", "items", "put"} => buf'[bwk'[v].b].length = 0
          /\ bwk'[v].pc \in {"put_cache", "put"} => buf'[bwk'[v].b].items = <<>>
    BY <1>1, <1>5, <1>6 DEF PullInv, Emptied, Others
  <2> QED BY <1>1, <2>1, <2>2, <2>3 DEF PullInv, Emptied
<1>15. Delivered'
  <2>1. Len(got[c]) = 0
    BY <1>1, <1>2 DEF PullInv, Delivered, PullTypes
  <2>2. Accounted(c, 0, 0)'
    <3>1. B!InItems(<<>>, c, 0, 0)
      BY DEF B!InItems
    <3> QED BY <1>1, <1>2, <1>3, <1>8, <2>1, <3>1 DEF Accounted
  <2>3. \A d \in B!ConnIds :
          /\ Len(got'[d]) <= sent'[d] /\ \A i \in 1 .. Len(got'[d]) : got'[d][i] = B!Byte(d, i)
          /\ bconns'[d] = "none" => sent'[d] = 0
          /\ bconns'[d] = "open" => Accounted(d, 0, 0)'
    <3>1. ASSUME NEW d \in B!ConnIds, d # c, bconns[d] = "open" PROVE Accounted(d, 0, 0)'
      BY <1>1, <1>8, <3>1 DEF PullInv, Delivered, Accounted
    <3> QED BY <1>1, <1>6, <2>2, <3>1 DEF PullInv, Delivered, OnlyConn
  <2>4. ASSUME NEW v \in Workers, bwk'[v].pc \in Callback
        PROVE  Accounted(bwk[v].c, bwk[v].n, bwk[v].len)'
    <3>1. v # w /\ bwk'[v] = bwk[v] /\ bwk[v].c \in B!ConnIds /\ bwk[v].c # c
      BY <1>1, <1>2, <1>5, <1>6, <2>4 DEF PullInv, Serving, Others, Callback
    <3> QED BY <1>1, <1>8, <2>4, <3>1 DEF PullInv, Delivered, Accounted
  <2>5. \A v \in Workers : bwk'[v].pc \in {"pick", "put_cache"} => sent'[bwk'[v].c] = 0
    BY <1>1, <1>5, <1>6 DEF PullInv, Delivered, Others
  <2> QED BY <2>3, <2>4, <2>5 DEF Delivered
<1> QED BY <1>9, <1>10, <1>13, <1>14, <1>15 DEF PullInv

\* The id leads to nothing any more.
LEMMA RemoveExPull ==
  ASSUME PullInv, NEW w \in Workers, B!RemoveEx(w)
  PROVE  PullInv'
<1> USE DEF B!At
<1>1. /\ PullTypes /\ bwk[w].pc = "on_close" /\ bwk[w].n = 0 /\ bwk[w].len = 0
      /\ UNCHANGED <<bconns, reserved, buf, bfree, gc, sent, got>>
  BY DEF B!RemoveEx, PullInv, Serving
<1>2. PICK c \in B!ConnIds : c = bwk[w].c /\ bconns[c] = "busy" /\ c # 0
  BY <1>1, Ids DEF PullInv, Serving
<1>3. Cached(c)
  BY <1>1, <1>2 DEF Cached, Callback
<1>4. PICK b \in PullBufs : b = reserved[c] /\ cache[B!Slot(c)] = b /\ buf[b].id = c /\ b # None
  BY <1>3, PullAssumption DEF PullInv, Identified, Mine
<1>5. /\ cache' = [cache EXCEPT ![B!Slot(c)] = None]
      /\ bwk' = [bwk EXCEPT ![w].pc = "reset", ![w].b = b]
  BY <1>2, <1>4 DEF B!RemoveEx
<1>6. bwk[w] \in BwkType
  BY <1>1 DEF PullTypes
<1>7. PICK r \in BwkType : r = [bwk[w] EXCEPT !.pc = "reset", !.b = b]
  BY <1>6 DEF BwkType, Keeping
<1>8. r.pc = "reset" /\ r.c = c /\ r.b = b /\ r.n = 0 /\ r.len = 0
  BY <1>1, <1>2, <1>6, <1>7 DEF BwkType
<1>9. /\ Others(w) /\ bwk'[w] = r /\ OnlyConn(c) /\ bconns'[c] = "busy"
  BY <1>1, <1>2, <1>5, <1>7 DEF PullTypes, Others, OnlyConn
<1>10. PICK s0 \in 0 .. PullSize - 1 : s0 = B!Slot(c)
  BY Ids
<1>11. /\ cache' \in [0 .. PullSize - 1 -> PullBufs \cup {None}] /\ cache'[s0] = None
       /\ \A s \in 0 .. PullSize - 1 : s # s0 => cache'[s] = cache[s]
  BY <1>1, <1>5, <1>10 DEF PullTypes
<1>12. PullTypes' /\ WellFormed'
  <2>1. PullTypes'
    BY <1>1, <1>9, <1>11 DEF PullTypes, Others
  <2>2. WellFormed'
    BY <1>1 DEF PullInv, WellFormed
  <2> QED BY <2>1, <2>2
<1>13. Serving' /\ SlotsApart'
  BY <1>1, <1>2, <1>4, <1>8, <1>9, ServingFrom, SlotsFrom DEF PullInv, Keeping
<1>14. /\ \A d \in B!ConnIds : d # c => (Cached(d)' <=> Cached(d))
       /\ ~Cached(c)'
  BY <1>1, <1>2, <1>8, <1>9, CachedBy DEF PullInv, Callback
<1>15. \A d \in B!ConnIds : d # c /\ Cached(d) => B!Slot(d) # s0 /\ B!Slot(d) \in 0 .. PullSize - 1
  BY <1>2, <1>10, Ids DEF PullInv, SlotsApart, Cached, Serving, Callback
<1>16. \A s \in 0 .. PullSize - 1 : cache'[s] # b
  BY <1>4, <1>10, <1>11 DEF PullInv, Identified
<1>17. \A v \in Workers : bwk[v].b # b
  BY <1>4, <1>10 DEF PullInv, Identified
<1>18. Identified'
  <2>1. \A d \in B!ConnIds : Cached(d)' => Mine(d)'
    BY <1>1, <1>11, <1>14, <1>15 DEF PullInv, Identified, Mine
  <2>2. \A v \in Workers :
          /\ bwk'[v].pc \in {"put_cache", "reset"} => buf'[bwk'[v].b].id = bwk'[v].c
          /\ bwk'[v].pc \in {"items", "put"} => buf'[bwk'[v].b].id = 0
          /\ bwk'[v].b # None => \A s \in 0 .. PullSize - 1 : cache'[s] # bwk'[v].b
    BY <1>1, <1>4, <1>8, <1>9, <1>11, <1>16 DEF PullInv, Identified, Others
  <2>3. \A u, v \in Workers : bwk'[u].b # None /\ bwk'[u].b = bwk'[v].b => u = v
    BY <1>8, <1>9, <1>17 DEF PullInv, Identified, Others
  <2>4. \A s \in 0 .. PullSize - 1 : cache'[s] # None =>
          \E d \in B!ConnIds : Cached(d)' /\ B!Slot(d) = s /\ buf'[cache'[s]].id = d
    BY <1>1, <1>10, <1>11, <1>14 DEF PullInv, Identified
  <2>5. ASSUME NEW p \in PullBufs, buf[p].id # 0
        PROVE  cache'[B!Slot(buf[p].id)] = p \/ \E v \in Workers : bwk'[v].b = p
    <3>1. CASE p = b
      BY <1>8, <1>9, <3>1
    <3>2. CASE p # b /\ cache[B!Slot(buf[p].id)] = p
      <4>1. PICK s \in 0 .. PullSize - 1 : s = B!Slot(buf[p].id)
        <5>1. buf[p].id \in 0 .. PullConns
          BY <1>1 DEF PullTypes, BufType
        <5> QED BY <2>5, <5>1, Ids
      <4>2. s # s0
        BY <1>4, <1>10, <3>2, <4>1
      <4> QED BY <1>11, <3>2, <4>1, <4>2
    <3>3. CASE p # b /\ \E v \in Workers : bwk[v].b = p
      <4>1. PICK v \in Workers : bwk[v].b = p
        BY <3>3
      <4>2. v # w
        BY <1>1, <4>1, PullAssumption DEF PullInv, Serving, Keeping
      <4> QED BY <1>9, <4>1, <4>2 DEF Others
    <3> QED BY <2>5, <3>1, <3>2, <3>3 DEF PullInv, Identified
  <2> QED BY <1>1, <2>1, <2>2, <2>3, <2>4, <2>5 DEF Identified
<1>19. Emptied'
  <2>1. \A p \in bfree' \cup gc' : buf'[p] = B!Fresh /\ \A v \in Workers : bwk'[v].b # p
    <3>1. b \notin bfree \cup gc
      BY <1>2, <1>4 DEF PullInv, Emptied, B!Fresh
    <3> QED BY <1>1, <1>8, <1>9, <3>1 DEF PullInv, Emptied, Others
  <2>2. \A p \in PullBufs : buf'[p].id = 0 =>
          \/ buf'[p] = B!Fresh
          \/ \E v \in Workers : bwk'[v].b = p /\ bwk'[v].pc \in {"items", "put"}
    BY <1>1, <1>9 DEF PullInv, Emptied, Others
  <2>3. \A v \in Workers :
          /\ bwk'[v].pc \in {"put_cache", "items", "put"} => buf'[bwk'[v].b].length = 0
          /\ bwk'[v].pc \in {"put_cache", "put"} => buf'[bwk'[v].b].items = <<>>
    BY <1>1, <1>8, <1>9 DEF PullInv, Emptied, Others
  <2> QED BY <1>1, <2>1, <2>2, <2>3 DEF PullInv, Emptied
<1>20. Delivered'
  <2>1. \A v \in Workers : v # w /\ bwk[v].pc # "idle" => bwk[v].c \in B!ConnIds
    BY DEF PullInv, Serving
  <2> QED BY <1>1, <1>2, <1>8, <1>9, <1>14, <2>1, DeliveredFrom DEF PullInv, Callback
<1> QED BY <1>12, <1>13, <1>18, <1>19, <1>20 DEF PullInv

(* What a worker does with a buffer that no id leads to.                   *)
LEMMA HeldFrom ==
  ASSUME PullInv, NEW w \in Workers, NEW b \in PullBufs, Others(w), BufOthers(b),
         bwk[w].pc \in {"reset", "items"}, bwk[w].b = b,
         bwk'[w].pc \in {"items", "put"}, bwk'[w].b = b, bwk'[w].c = bwk[w].c,
         bwk'[w].n = 0, bwk'[w].len = 0,
         buf'[b].id = 0, buf'[b].length = 0, bwk'[w].pc = "put" => buf'[b].items = <<>>,
         \A i \in 1 .. Len(buf'[b].items) : buf'[b].items = buf[b].items,
         UNCHANGED <<bconns, reserved, cache, bfree, gc, sent, got>>
  PROVE  PullInv'
<1>1. /\ PullTypes /\ b # None /\ bwk[w].pc # "idle" /\ bwk[w].pc \notin Callback
      /\ bwk'[w].pc # "idle" /\ bwk'[w].pc \notin Callback /\ bwk'[w].pc \in Keeping
      /\ bwk'[w].pc \notin {"put_cache", "reset", "pick", "cat"}
  BY PullAssumption DEF PullInv, Callback, Keeping
<1>2. PICK c \in B!ConnIds : c = bwk[w].c /\ bconns[c] = "busy" /\ c # 0
  BY <1>1, Ids DEF PullInv, Serving
<1>3. OnlyConn(c)
  BY <1>1 DEF PullTypes, OnlyConn
<1>4. PullTypes'
  BY <1>1 DEF PullTypes, Others, BufOthers
<1>5. WellFormed'
  BY DEF PullInv, WellFormed, BufOthers
<1>6. Serving' /\ SlotsApart'
  <2>1. Serving'
    BY <1>1, <1>2, <1>3, ServingFrom DEF PullInv
  <2>2. SlotsApart'
    BY DEF PullInv, SlotsApart
  <2> QED BY <2>1, <2>2
<1>7. \A d \in B!ConnIds : Cached(d)' <=> Cached(d)
  BY <1>1, <1>2, <1>3, CachedBy DEF PullInv
<1>8. \A s \in 0 .. PullSize - 1 : cache[s] # b
  BY <1>1 DEF PullInv, Identified
<1>9. \A d \in B!ConnIds : Cached(d) => Mine(d) /\ reserved[d] # b
  BY <1>8, Ids DEF PullInv, Identified, Mine
<1>10. \A v \in Workers : v # w => bwk'[v] = bwk[v] /\ bwk[v].b # b
  BY <1>1 DEF PullInv, Identified, Others
<1>11. ASSUME NEW v \in Workers, v # w, bwk[v].pc \in Keeping PROVE buf'[bwk[v].b] = buf[bwk[v].b]
  <2>1. bwk[v].b \in PullBufs
    BY <1>1, <1>11 DEF PullInv, Serving, PullTypes, BwkType
  <2> QED BY <1>10, <1>11, <2>1 DEF BufOthers
<1>12. Identified'
  <2>1. \A d \in B!ConnIds : Cached(d)' => Mine(d)'
    BY <1>7, <1>9 DEF Mine, BufOthers
  <2>2. \A v \in Workers :
          /\ bwk'[v].pc \in {"put_cache", "reset"} => buf'[bwk'[v].b].id = bwk'[v].c
          /\ bwk'[v].pc \in {"items", "put"} => buf'[bwk'[v].b].id = 0
          /\ bwk'[v].b # None => \A s \in 0 .. PullSize - 1 : cache'[s] # bwk'[v].b
    BY <1>1, <1>8, <1>10, <1>11 DEF PullInv, Identified, Keeping
  <2>3. \A u, v \in Workers : bwk'[u].b # None /\ bwk'[u].b = bwk'[v].b => u = v
    BY <1>10 DEF PullInv, Identified
  <2>4. \A s \in 0 .. PullSize - 1 : cache'[s] # None =>
          \E d \in B!ConnIds : Cached(d)' /\ B!Slot(d) = s /\ buf'[cache'[s]].id = d
    BY <1>1, <1>7, <1>8 DEF PullInv, Identified, PullTypes, BufOthers
  <2>5. \A p \in PullBufs : buf'[p].id # 0 =>
          cache'[B!Slot(buf'[p].id)] = p \/ \E v \in Workers : bwk'[v].b = p
    <3> SUFFICES ASSUME NEW p \in PullBufs, p # b, buf[p].id # 0
                 PROVE  cache[B!Slot(buf[p].id)] = p \/ \E v \in Workers : bwk'[v].b = p
      BY DEF BufOthers
    <3>1. ASSUME NEW v \in Workers, bwk[v].b = p PROVE bwk'[v].b = p
      BY <1>10, <3>1
    <3> QED BY <3>1 DEF PullInv, Identified
  <2> QED BY <2>1, <2>2, <2>3, <2>4, <2>5 DEF Identified
<1>13. Emptied'
  <2>1. \A p \in bfree' \cup gc' : buf'[p] = B!Fresh /\ \A v \in Workers : bwk'[v].b # p
    <3>1. b \notin bfree \cup gc /\ bfree \cup gc \subseteq PullBufs
      BY <1>1 DEF PullInv, Emptied, PullTypes
    <3> QED BY <1>10, <3>1 DEF PullInv, Emptied, BufOthers
  <2>2. \A p \in PullBufs : buf'[p].id = 0 =>
          \/ buf'[p] = B!Fresh
          \/ \E v \in Workers : bwk'[v].b = p /\ bwk'[v].pc \in {"items", "put"}
    <3> SUFFICES ASSUME NEW p \in PullBufs, p # b, buf[p].id = 0, buf[p] # B!Fresh
                 PROVE  \E v \in Workers : bwk'[v].b = p /\ bwk'[v].pc \in {"items", "put"}
      BY DEF BufOthers
    <3>1. PICK v \in Workers : bwk[v].b = p /\ bwk[v].pc \in {"items", "put"}
      BY DEF PullInv, Emptied
    <3> QED BY <1>10, <3>1
  <2>3. \A v \in Workers :
          /\ bwk'[v].pc \in {"put_cache", "items", "put"} => buf'[bwk'[v].b].length = 0
          /\ bwk'[v].pc \in {"put_cache", "put"} => buf'[bwk'[v].b].items = <<>>
    BY <1>1, <1>10, <1>11 DEF PullInv, Emptied, Keeping
  <2> QED BY <2>1, <2>2, <2>3 DEF PullInv, Emptied
<1>14. Delivered'
  <2>1. \A v \in Workers : v # w /\ bwk[v].pc # "idle" => bwk[v].c \in B!ConnIds
    BY DEF PullInv, Serving
  <2>2. \A d \in B!ConnIds : Cached(d)' =>
          Cached(d) /\ reserved'[d] = reserved[d] /\ buf'[reserved[d]] = buf[reserved[d]]
    BY <1>7, <1>9 DEF Mine, BufOthers
  <2> QED BY <1>1, <1>2, <1>3, <2>1, <2>2, DeliveredFrom DEF PullInv
<1> QED BY <1>4, <1>5, <1>6, <1>12, <1>13, <1>14 DEF PullInv

LEMMA ResetPull ==
  ASSUME PullInv, NEW w \in Workers, B!ResetBuffer(w)
  PROVE  PullInv'
<1> USE DEF B!At, B!Goto
<1>1. /\ PullTypes /\ bwk[w].pc = "reset" /\ bwk[w].n = 0 /\ bwk[w].len = 0
      /\ UNCHANGED <<bconns, reserved, cache, bfree, gc, sent, got>>
  BY DEF B!ResetBuffer, PullInv, Serving
<1>2. bwk[w] \in BwkType
  BY <1>1 DEF PullTypes
<1>3. PICK b \in PullBufs : b = bwk[w].b
  BY <1>1, <1>2 DEF PullInv, Serving, Keeping, BwkType
<1>4. /\ buf' = [buf EXCEPT ![b].id = 0, ![b].length = 0]
      /\ bwk' = [bwk EXCEPT ![w].pc = "items"]
  BY <1>3 DEF B!ResetBuffer
<1>5. buf[b] \in BufType
  BY <1>1 DEF PullTypes
<1>6. PICK r \in BwkType : r = [bwk[w] EXCEPT !.pc = "items"]
  BY <1>2 DEF BwkType, Keeping
<1>7. r.pc = "items" /\ r.c = bwk[w].c /\ r.b = b /\ r.n = 0 /\ r.len = 0
  BY <1>1, <1>2, <1>3, <1>6 DEF BwkType
<1>8. PICK x \in BufType : x = [buf[b] EXCEPT !.id = 0, !.length = 0]
  <2>1. 0 \in 0 .. PullConns
    BY PullAssumption
  <2>2. [buf[b] EXCEPT !.id = 0, !.length = 0] \in BufType
    BY <1>5, <2>1 DEF BufType
  <2> QED BY <2>2
<1>9. x.id = 0 /\ x.length = 0 /\ x.items = buf[b].items
  BY <1>5, <1>8 DEF BufType
<1>10. Others(w) /\ bwk'[w] = r /\ BufOthers(b) /\ buf'[b] = x
  BY <1>1, <1>4, <1>6, <1>8 DEF PullTypes, Others, BufOthers
<1> QED BY <1>1, <1>3, <1>7, <1>9, <1>10, HeldFrom

LEMMA PutItemPull ==
  ASSUME PullInv, NEW w \in Workers, B!PutFreeItem(w)
  PROVE  PullInv'
<1> USE DEF B!At, B!Goto
<1>1. /\ PullTypes /\ bwk[w].pc = "items" /\ bwk[w].n = 0 /\ bwk[w].len = 0
      /\ UNCHANGED <<bconns, reserved, cache, bfree, gc, sent, got>>
  BY DEF B!PutFreeItem, PullInv, Serving
<1>2. bwk[w] \in BwkType
  BY <1>1 DEF PullTypes
<1>3. PICK b \in PullBufs : b = bwk[w].b /\ buf[b].id = 0 /\ buf[b].length = 0
  BY <1>1, <1>2 DEF PullInv, Serving, Keeping, BwkType, Identified, Emptied
<1>4. /\ buf' = [buf EXCEPT ![b].items = <<>>]
      /\ bwk' = [bwk EXCEPT ![w].pc = "put"]
  BY <1>3 DEF B!PutFreeItem
<1>5. buf[b] \in BufType
  BY <1>1 DEF PullTypes
<1>6. PICK r \in BwkType : r = [bwk[w] EXCEPT !.pc = "put"]
  BY <1>2 DEF BwkType, Keeping
<1>7. r.pc = "put" /\ r.c = bwk[w].c /\ r.b = b /\ r.n = 0 /\ r.len = 0
  BY <1>1, <1>2, <1>3, <1>6 DEF BwkType
<1>8. PICK x \in BufType : x = [buf[b] EXCEPT !.items = <<>>]
  <2>1. <<>> \in Seq(ItemType)
    OBVIOUS
  <2>2. [buf[b] EXCEPT !.items = <<>>] \in BufType
    BY <1>5, <2>1 DEF BufType
  <2> QED BY <2>2
<1>9. x.id = 0 /\ x.length = 0 /\ x.items = <<>>
  BY <1>3, <1>5, <1>8 DEF BufType
<1>10. Others(w) /\ bwk'[w] = r /\ BufOthers(b) /\ buf'[b] = x
  BY <1>1, <1>4, <1>6, <1>8 DEF PullTypes, Others, BufOthers
<1> QED BY <1>1, <1>3, <1>7, <1>9, <1>10, HeldFrom

\* The buffer goes to a pool; some that waited for their lock time are destructed.
LEMMA PutBufferPull ==
  ASSUME PullInv, NEW w \in Workers, B!PutFreeBuffer(w)
  PROVE  PullInv'
<1> USE DEF B!At
<1>1. /\ PullTypes /\ bwk[w].pc = "put" /\ bwk[w].n = 0 /\ bwk[w].len = 0
      /\ UNCHANGED <<bconns, reserved, cache, buf, sent, got>>
  BY DEF B!PutFreeBuffer, PullInv, Serving
<1>2. bwk[w] \in BwkType
  BY <1>1 DEF PullTypes
<1>3. PICK c \in B!ConnIds : c = bwk[w].c /\ bconns[c] = "busy" /\ c # 0
  BY <1>1, Ids DEF PullInv, Serving
<1>4. PICK b \in PullBufs : b = bwk[w].b /\ b # None /\ buf[b].id = 0
  BY <1>1, <1>2, PullAssumption DEF PullInv, Serving, Keeping, BwkType, Identified
<1>5. /\ b \notin bfree \cup gc
      /\ \A v \in Workers : bwk[v].b = b => v = w
      /\ \A s \in 0 .. PullSize - 1 : cache[s] # b
  BY <1>4 DEF PullInv, Emptied, Identified
<1>6. buf[b] = B!Fresh
  <2>1. buf[b].length = 0 /\ buf[b].items = <<>> /\ buf[b] \in BufType
    BY <1>1, <1>4 DEF PullInv, Emptied, PullTypes
  <2> QED BY <1>4, <2>1 DEF BufType, B!Fresh
<1>7. /\ bfree' \cup gc' \subseteq bfree \cup gc \cup {b}
      /\ bfree' \subseteq PullBufs /\ gc' \subseteq PullBufs /\ bfree' \cap gc' = {}
  BY <1>1, <1>4, <1>5 DEF B!PutFreeBuffer, PullInv, Emptied, PullTypes
<1>8. bwk' = [bwk EXCEPT ![w].pc = "remove", ![w].b = None]
  BY DEF B!PutFreeBuffer
<1>9. PICK r \in BwkType : r = [bwk[w] EXCEPT !.pc = "remove", !.b = None]
  BY <1>2 DEF BwkType
<1>10. r.pc = "remove" /\ r.c = c /\ r.b = None /\ r.n = 0 /\ r.len = 0
  BY <1>1, <1>2, <1>3, <1>9 DEF BwkType
<1>11. Others(w) /\ bwk'[w] = r /\ OnlyConn(c) /\ bconns'[c] = "busy"
  BY <1>1, <1>3, <1>8, <1>9 DEF PullTypes, Others, OnlyConn
<1>12. PullTypes' /\ WellFormed'
  <2>1. PullTypes'
    BY <1>1, <1>7, <1>11 DEF PullTypes, Others
  <2>2. WellFormed'
    BY <1>1 DEF PullInv, WellFormed
  <2> QED BY <2>1, <2>2
<1>13. Serving' /\ SlotsApart'
  BY <1>1, <1>3, <1>10, <1>11, ServingFrom, SlotsFrom DEF PullInv, Keeping
<1>14. \A d \in B!ConnIds : Cached(d)' <=> Cached(d)
  BY <1>1, <1>3, <1>10, <1>11, CachedBy DEF PullInv, Callback
<1>15. Identified'
  <2>1. \A d \in B!ConnIds : Cached(d)' => Mine(d)'
    BY <1>1, <1>14 DEF PullInv, Identified, Mine
  <2>2. \A v \in Workers :
          /\ bwk'[v].pc \in {"put_cache", "reset"} => buf'[bwk'[v].b].id = bwk'[v].c
          /\ bwk'[v].pc \in {"items", "put"} => buf'[bwk'[v].b].id = 0
          /\ bwk'[v].b # None => \A s \in 0 .. PullSize - 1 : cache'[s] # bwk'[v].b
    BY <1>1, <1>10, <1>11 DEF PullInv, Identified, Others
  <2>3. \A u, v \in Workers : bwk'[u].b # None /\ bwk'[u].b = bwk'[v].b => u = v
    BY <1>10, <1>11 DEF PullInv, Identified, Others
  <2>4. \A s \in 0 .. PullSize - 1 : cache'[s] # None =>
          \E d \in B!ConnIds : Cached(d)' /\ B!Slot(d) = s /\ buf'[cache'[s]].id = d
    BY <1>1, <1>14 DEF PullInv, Identified
  <2>5. \A p \in PullBufs : buf'[p].id # 0 =>
          cache'[B!Slot(buf'[p].id)] = p \/ \E v \in Workers : bwk'[v].b = p
    <3> SUFFICES ASSUME NEW p \in PullBufs, buf[p].id # 0
                 PROVE  cache[B!Slot(buf[p].id)] = p \/ \E v \in Workers : bwk'[v].b = p
      BY <1>1
    <3>1. ASSUME NEW v \in Workers, bwk[v].b = p PROVE bwk'[v].b = p
      BY <1>4, <1>11, <3>1 DEF Others
    <3> QED BY <3>1 DEF PullInv, Identified
  <2> QED BY <2>1, <2>2, <2>3, <2>4, <2>5 DEF Identified
<1>16. Emptied'
  <2>1. \A p \in bfree' \cup gc' : buf'[p] = B!Fresh /\ \A v \in Workers : bwk'[v].b # p
    <3> SUFFICES ASSUME NEW p \in bfree \cup gc \cup {b}, p \in PullBufs
                 PROVE  buf[p] = B!Fresh /\ \A v \in Workers : bwk'[v].b # p
      BY <1>1, <1>7
    <3>1. buf[p] = B!Fresh /\ \A v \in Workers : v # w => bwk[v].b # p
      BY <1>5, <1>6 DEF PullInv, Emptied
    <3> QED BY <1>10, <1>11, <3>1, PullAssumption DEF Others
  <2>2. \A p \in PullBufs : buf'[p].id = 0 =>
          \/ buf'[p] = B!Fresh
          \/ \E v \in Workers : bwk'[v].b = p /\ bwk'[v].pc \in {"items", "put"}
    <3> SUFFICES ASSUME NEW p \in PullBufs, p # b, buf[p].id = 0, buf[p] # B!Fresh
                 PROVE  \E v \in Workers : bwk'[v].b = p /\ bwk'[v].pc \in {"items", "put"}
      BY <1>1, <1>6
    <3>1. PICK v \in Workers : bwk[v].b = p /\ bwk[v].pc \in {"items", "put"}
      BY DEF PullInv, Emptied
    <3> QED BY <1>4, <1>11, <3>1 DEF Others
  <2>3. \A v \in Workers :
          /\ bwk'[v].pc \in {"put_cache", "items", "put"} => buf'[bwk'[v].b].length = 0
          /\ bwk'[v].pc \in {"put_cache", "put"} => buf'[bwk'[v].b].items = <<>>
    BY <1>1, <1>10, <1>11 DEF PullInv, Emptied, Others
  <2> QED BY <1>7, <2>1, <2>2, <2>3 DEF Emptied
<1>17. Delivered'
  <2>1. \A v \in Workers : v # w /\ bwk[v].pc # "idle" => bwk[v].c \in B!ConnIds
    BY DEF PullInv, Serving
  <2> QED BY <1>1, <1>3, <1>10, <1>11, <1>14, <2>1, DeliveredFrom DEF PullInv, Callback
<1> QED BY <1>12, <1>13, <1>15, <1>16, <1>17 DEF PullInv

\* The connection is gone, its slot free.
LEMMA RemoveSocketPull ==
  ASSUME PullInv, NEW w \in Workers, B!RemoveSocket(w)
  PROVE  PullInv'
<1> USE DEF B!At
<1>1. /\ PullTypes /\ bwk[w].pc = "remove" /\ bwk[w].b = None
      /\ UNCHANGED <<cache, buf, bfree, gc, sent, got>>
  BY DEF B!RemoveSocket, PullInv, Serving, Keeping
<1>2. PICK c \in B!ConnIds : c = bwk[w].c /\ bconns[c] = "busy"
  BY <1>1 DEF PullInv, Serving
<1>3. /\ bconns' = [bconns EXCEPT ![c] = "gone"] /\ bwk' = [bwk EXCEPT ![w] = B!Idle]
      /\ reserved' = [reserved EXCEPT ![c] = None]
  BY <1>2 DEF B!RemoveSocket
<1>4. PICK r \in BwkType : r = B!Idle /\ r.pc = "idle" /\ r.b = None /\ r.n = 0 /\ r.len = 0
  BY IdleIs
<1>5. /\ Others(w) /\ bwk'[w] = r /\ OnlyConn(c) /\ bconns'[c] = "gone"
  BY <1>1, <1>3, <1>4 DEF PullTypes, Others, OnlyConn
<1>6. /\ reserved' \in [B!ConnIds -> PullBufs \cup {None}]
      /\ \A d \in B!ConnIds : d # c => reserved'[d] = reserved[d]
  BY <1>1, <1>3 DEF PullTypes
<1>7. PullTypes' /\ WellFormed'
  <2>1. PullTypes'
    BY <1>1, <1>5, <1>6 DEF PullTypes, Others, OnlyConn
  <2>2. WellFormed'
    BY <1>1 DEF PullInv, WellFormed
  <2> QED BY <2>1, <2>2
<1>8. Serving' /\ SlotsApart'
  BY <1>1, <1>2, <1>4, <1>5, ServingFrom, SlotsFrom DEF PullInv, Keeping
<1>9. \A d \in B!ConnIds : (Cached(d)' <=> Cached(d)) /\ (Cached(d) => d # c)
  BY <1>1, <1>2, <1>4, <1>5, CachedBy DEF PullInv, Callback
<1>10. Identified' /\ Emptied'
  <2>1. \A d \in B!ConnIds :
          (Cached(d)' <=> Cached(d)) /\ (Cached(d) => reserved'[d] = reserved[d])
    BY <1>6, <1>9
  <2> QED BY <1>1, <1>4, <1>5, <2>1, BuffersFrom DEF PullInv, PullTypes, Keeping
<1>11. Delivered'
  <2>1. \A v \in Workers : v # w /\ bwk[v].pc # "idle" => bwk[v].c \in B!ConnIds
    BY DEF PullInv, Serving
  <2> QED BY <1>1, <1>2, <1>4, <1>5, <1>6, <1>9, <2>1, DeliveredFrom DEF PullInv, Callback
<1> QED BY <1>7, <1>8, <1>10, <1>11 DEF PullInv

-----------------------------------------------------------------------------
(* Bytes are added to the last item and taken from the first.              *)
Holds(item, c) ==
  /\ item.used \in 1 .. Capacity /\ Len(item.data) \in 1 .. item.used
  /\ \A k \in 1 .. Len(item.data) : item.data[k] = B!Byte(c, B!First(item) + k - 1)
Chained(items, c, m, n) ==
  /\ items \in Seq(ItemType) /\ \A i \in 1 .. Len(items) : Holds(items[i], c)
  /\ B!InItems(items, c, m, n)

Bytes(c, n, k) == [i \in 1 .. k |-> B!Byte(c, n + i)]

LEMMA ItemEnds ==
  ASSUME NEW item \in ItemType, NEW c, Holds(item, c)
  PROVE  /\ item.data \in Seq(ByteType) /\ Len(item.data) \in Nat \ {0} /\ item.used \in Nat
         /\ B!First(item) \in Nat
         /\ B!Final(item) = B!First(item) + Len(item.data) - 1
<1>1. /\ item.data \in Seq(ByteType) /\ item.used \in Nat
  BY DEF ItemType
<1>2. PICK l \in Nat \ {0} : l = Len(item.data)
  BY <1>1 DEF Holds
<1>3. PICK f \in Nat : f = B!First(item)
  <2>1. item.data[1] \in ByteType
    BY <1>1, <1>2
  <2> QED BY <2>1 DEF ByteType, B!First
<1>4. item.data[l] = B!Byte(c, f + l - 1)
  BY <1>2, <1>3 DEF Holds
<1>5. item.data[l].n = f + l - 1
  BY <1>4 DEF B!Byte
<1> QED BY <1>1, <1>2, <1>3, <1>5 DEF B!Final

LEMMA NewItem ==
  ASSUME NEW c \in B!ConnIds, NEW n \in Nat, NEW k \in 1 .. Capacity
  PROVE  /\ Bytes(c, n, k) \in Seq(ByteType) /\ Len(Bytes(c, n, k)) = k /\ k \in Nat
         /\ \E item \in ItemType : /\ item = [used |-> k, data |-> Bytes(c, n, k)]
                                   /\ Holds(item, c) /\ B!First(item) = n + 1 /\ B!Final(item) = n + k
<1>1. k \in Nat /\ k >= 1
  BY PullAssumption
<1>2. \A i \in 1 .. k : B!Byte(c, n + i) \in ByteType
  BY <1>1 DEF B!Byte, ByteType
<1>3. Bytes(c, n, k) \in Seq(ByteType) /\ Len(Bytes(c, n, k)) = k
  BY <1>1, <1>2 DEF Bytes
<1>4. PICK item \in ItemType : item = [used |-> k, data |-> Bytes(c, n, k)]
  BY <1>1, <1>3 DEF ItemType
<1>5. item.used = k /\ item.data = Bytes(c, n, k)
  BY <1>4
<1>6. \A i \in 1 .. k : Bytes(c, n, k)[i] = B!Byte(c, n + i) /\ Bytes(c, n, k)[i].n = n + i
  BY <1>1 DEF Bytes, B!Byte
<1>7. B!First(item) = n + 1 /\ B!Final(item) = n + k
  BY <1>1, <1>3, <1>5, <1>6 DEF B!First, B!Final
<1>8. Holds(item, c)
  <2>1. \A i \in 1 .. k : n + 1 + i - 1 = n + i
    BY <1>1
  <2>2. \A i \in 1 .. k : Bytes(c, n, k)[i] = B!Byte(c, n + 1 + i - 1)
    BY <1>6, <2>1
  <2> QED BY <1>1, <1>3, <1>5, <1>7, <2>2 DEF Holds
<1> QED BY <1>1, <1>3, <1>4, <1>7, <1>8

LEMMA MoreItem ==
  ASSUME NEW item \in ItemType, NEW c \in B!ConnIds, Holds(item, c), NEW n \in Nat, B!Final(item) = n,
         NEW k \in 1 .. Capacity, item.used + k <= Capacity
  PROVE  \E more \in ItemType :
           /\ more = [used |-> item.used + k, data |-> item.data \o Bytes(c, n, k)]
           /\ Holds(more, c) /\ B!First(more) = B!First(item) /\ B!Final(more) = n + k
<1>1. Bytes(c, n, k) \in Seq(ByteType) /\ Len(Bytes(c, n, k)) = k /\ k \in Nat /\ k >= 1
  BY NewItem
<1>2. PICK l \in Nat \ {0}, u \in Nat, f \in Nat, d \in Seq(ByteType) :
        l = Len(item.data) /\ u = item.used /\ f = B!First(item) /\ d = item.data /\ n = f + l - 1
  BY ItemEnds
<1>3. n = f + l - 1
  BY <1>2
<1>4. Len(d) = l
  BY <1>2
<1>5. PICK e \in Seq(ByteType) : e = d \o Bytes(c, n, k)
  BY <1>1, ConcatProperties
<1>6. /\ Len(e) = l + k
      /\ \A i \in 1 .. l + k : e[i] = IF i <= l THEN d[i] ELSE Bytes(c, n, k)[i - l]
  <2>1. PICK m \in Seq(ByteType) : m = Bytes(c, n, k)
    BY <1>1
  <2>2. /\ Len(d \o m) = Len(d) + Len(m)
        /\ \A i \in 1 .. Len(d) + Len(m) : (d \o m)[i] = IF i <= Len(d) THEN d[i] ELSE m[i - Len(d)]
    BY ConcatProperties
  <2> QED BY <1>1, <1>4, <1>5, <2>1, <2>2
<1>7. \A i \in 1 .. l : d[i] = B!Byte(c, f + i - 1)
  BY <1>2 DEF Holds
<1>8. ASSUME NEW i \in 1 .. l + k PROVE e[i] = B!Byte(c, f + i - 1)
  <2>1. CASE i <= l
    BY <1>6, <1>7, <2>1
  <2>2. CASE i > l
    <3>1. i - l \in 1 .. k
      BY <1>1, <2>2
    <3>2. Bytes(c, n, k)[i - l] = B!Byte(c, n + (i - l))
      BY <3>1 DEF Bytes
    <3>3. n + (i - l) = f + i - 1
      BY <1>1, <1>3
    <3>4. ~(i <= l)
      BY <1>1, <2>2
    <3>5. e[i] = Bytes(c, n, k)[i - l]
      BY <1>6, <3>4
    <3> QED BY <3>2, <3>3, <3>5
  <2> QED BY <1>1, <2>1, <2>2
<1>9. PICK more \in ItemType : more = [used |-> u + k, data |-> e]
  <2>1. u + k \in Nat
    BY <1>1
  <2> QED BY <2>1 DEF ItemType
<1>10. more.used = u + k /\ more.data = e
  BY <1>9
<1>11. e[1].n = f /\ e[l + k].n = n + k
  <2>1. e[1] = B!Byte(c, f + 1 - 1) /\ e[l + k] = B!Byte(c, f + (l + k) - 1)
    BY <1>1, <1>8
  <2>2. f + 1 - 1 = f /\ f + (l + k) - 1 = n + k
    BY <1>1, <1>3
  <2> QED BY <2>1, <2>2 DEF B!Byte
<1>12. B!First(more) = f /\ B!Final(more) = n + k
  BY <1>6, <1>10, <1>11 DEF B!First, B!Final
<1>13. l \in 1 .. u /\ u + k <= Capacity
  BY <1>2 DEF Holds
<1>14. u + k \in 1 .. Capacity /\ l + k \in 1 .. u + k
  BY <1>1, <1>13, PullAssumption
<1>15. Holds(more, c)
  BY <1>6, <1>8, <1>10, <1>12, <1>14 DEF Holds
<1> QED BY <1>2, <1>5, <1>9, <1>12, <1>15

LEMMA LessItem ==
  ASSUME NEW item \in ItemType, NEW c, Holds(item, c), Len(item.data) # 1
  PROVE  \E less \in ItemType :
           /\ less = [item EXCEPT !.data = Tail(@)] /\ Holds(less, c)
           /\ B!First(less) = B!First(item) + 1 /\ B!Final(less) = B!Final(item)
<1>1. PICK l \in Nat \ {0}, u \in Nat, f \in Nat, d \in Seq(ByteType) :
        /\ l = Len(item.data) /\ u = item.used /\ f = B!First(item) /\ d = item.data
        /\ B!Final(item) = f + l - 1
  BY ItemEnds
<1>2. PICK e \in Seq(ByteType) : e = Tail(d) /\ Len(e) = l - 1 /\ \A i \in 1 .. l - 1 : e[i] = d[i + 1]
  <2>1. Len(d) = l
    BY <1>1
  <2>2. d # <<>>
    BY <2>1
  <2>3. /\ Tail(d) \in Seq(ByteType) /\ Len(Tail(d)) = Len(d) - 1
        /\ \A i \in 1 .. Len(Tail(d)) : Tail(d)[i] = d[i + 1]
    BY <2>2, HeadTailProperties
  <2> QED BY <2>1, <2>3
<1>3. PICK less \in ItemType : less = [item EXCEPT !.data = Tail(@)]
  BY <1>1, <1>2 DEF ItemType
<1>4. less.used = u /\ less.data = e
  BY <1>1, <1>2, <1>3 DEF ItemType
<1>5. \A i \in 1 .. l : d[i] = B!Byte(c, f + i - 1)
  BY <1>1 DEF Holds
<1>6. ASSUME NEW i \in 1 .. l - 1 PROVE e[i] = B!Byte(c, f + 1 + i - 1)
  <2>1. i + 1 \in 1 .. l /\ f + (i + 1) - 1 = f + 1 + i - 1
    OBVIOUS
  <2> QED BY <1>2, <1>5, <2>1
<1>7. l - 1 \in Nat \ {0}
  <2>1. l # 1
    BY <1>1
  <2> QED BY <2>1
<1>8. e[1].n = f + 1 /\ e[l - 1].n = f + l - 1
  <2>1. e[1] = B!Byte(c, f + 1 + 1 - 1) /\ e[l - 1] = B!Byte(c, f + 1 + (l - 1) - 1)
    BY <1>6, <1>7
  <2>2. f + 1 + 1 - 1 = f + 1 /\ f + 1 + (l - 1) - 1 = f + l - 1
    OBVIOUS
  <2> QED BY <2>1, <2>2 DEF B!Byte
<1>9. B!First(less) = f + 1 /\ B!Final(less) = f + l - 1
  BY <1>2, <1>4, <1>8 DEF B!First, B!Final
<1>10. l - 1 \in 1 .. u /\ u \in 1 .. Capacity
  <2>1. l \in 1 .. u /\ u \in 1 .. Capacity
    BY <1>1 DEF Holds
  <2> QED BY <1>7, <2>1
<1>11. Holds(less, c)
  BY <1>2, <1>4, <1>6, <1>9, <1>10 DEF Holds
<1> QED BY <1>1, <1>3, <1>9, <1>11

(* A list of items, each of which continues the one before.                *)
LEMMA ChainedIs ==
  ASSUME NEW items \in Seq(ItemType), NEW c, NEW m, NEW n,
         \A i \in 1 .. Len(items) : Holds(items[i], c)
  PROVE  Chained(items, c, m, n) <=>
           /\ IF items = <<>> THEN m = n
              ELSE B!First(items[1]) = m + 1 /\ B!Final(items[Len(items)]) = n
           /\ \A i \in 2 .. Len(items) : B!First(items[i]) = B!Final(items[i - 1]) + 1
<1>1. \A i \in 1 .. Len(items) : DOMAIN items[i].data = 1 .. Len(items[i].data)
  <2> SUFFICES ASSUME NEW i \in 1 .. Len(items)
               PROVE  DOMAIN items[i].data = 1 .. Len(items[i].data)
    OBVIOUS
  <2>1. items[i] \in ItemType
    BY ElementOfSeq
  <2>2. items[i].data \in Seq(ByteType)
    BY <2>1 DEF ItemType
  <2> QED BY <2>2, LenProperties
<1>2. DOMAIN items = 1 .. Len(items)
  OBVIOUS
<1>3. \A i \in DOMAIN items : \A k \in DOMAIN items[i].data :
        items[i].data[k] = B!Byte(c, B!First(items[i]) + k - 1)
  BY <1>1, <1>2 DEF Holds
<1> QED BY <1>3 DEF Chained, B!InItems

LEMMA ChainedFrom ==
  ASSUME NEW items \in Seq(ItemType), NEW l \in Nat, Len(items) = l, NEW c, NEW m, NEW n,
         \A i \in 1 .. l : Holds(items[i], c),
         l = 0 => m = n, l # 0 => B!First(items[1]) = m + 1 /\ B!Final(items[l]) = n,
         \A i \in 2 .. l : B!First(items[i]) = B!Final(items[i - 1]) + 1
  PROVE  Chained(items, c, m, n)
<1>1. items = <<>> <=> l = 0
  OBVIOUS
<1>2. /\ IF items = <<>> THEN m = n
         ELSE B!First(items[1]) = m + 1 /\ B!Final(items[Len(items)]) = n
      /\ \A i \in 2 .. Len(items) : B!First(items[i]) = B!Final(items[i - 1]) + 1
  BY <1>1
<1>3. \A i \in 1 .. Len(items) : Holds(items[i], c)
  OBVIOUS
<1> QED BY Zenon, <1>2, <1>3, ChainedIs

LEMMA CatChained ==
  ASSUME NEW c \in B!ConnIds, NEW m \in Nat, NEW n \in Nat, NEW items, Chained(items, c, m, n),
         NEW k \in 1 .. Capacity, B!Remain(items) # 0 => k <= B!Remain(items)
  PROVE  Chained(B!CatItem(items, Bytes(c, n, k)), c, m, n + k)
<1>1. /\ items \in Seq(ItemType) /\ \A i \in 1 .. Len(items) : Holds(items[i], c)
  BY DEF Chained
<1>2. /\ IF items = <<>> THEN m = n
         ELSE B!First(items[1]) = m + 1 /\ B!Final(items[Len(items)]) = n
      /\ \A i \in 2 .. Len(items) : B!First(items[i]) = B!Final(items[i - 1]) + 1
  BY DEF Chained, B!InItems
<1>3. Bytes(c, n, k) \in Seq(ByteType) /\ Len(Bytes(c, n, k)) = k /\ k \in Nat
  BY NewItem
<1>4. PICK l \in Nat : l = Len(items) /\ (items = <<>> <=> l = 0)
  BY <1>1
<1>5. CASE B!Remain(items) = 0
  <2>1. PICK x \in ItemType : /\ x = [used |-> k, data |-> Bytes(c, n, k)]
                              /\ Holds(x, c) /\ B!First(x) = n + 1 /\ B!Final(x) = n + k
    BY NewItem
  <2>2. PICK new \in Seq(ItemType) :
          /\ new = Append(items, x) /\ new # <<>> /\ Len(new) = l + 1 /\ new[l + 1] = x
          /\ \A i \in 1 .. l : new[i] = items[i]
    <3>1. /\ Append(items, x) \in Seq(ItemType) /\ Append(items, x) # <<>>
          /\ Len(Append(items, x)) = Len(items) + 1 /\ Append(items, x)[Len(items) + 1] = x
          /\ \A i \in 1 .. Len(items) : Append(items, x)[i] = items[i]
      BY <1>1, AppendProperties
    <3> QED BY <1>4, <3>1
  <2>3. B!CatItem(items, Bytes(c, n, k)) = new
    BY <1>3, <1>5, <2>1, <2>2 DEF B!CatItem
  <2>4. \A i \in 1 .. Len(new) : Holds(new[i], c)
    <3>1. \A i \in 1 .. l + 1 : i \in 1 .. l \/ i = l + 1
      OBVIOUS
    <3> QED BY <1>1, <1>4, <2>1, <2>2, <3>1
  <2>5. B!First(new[1]) = m + 1
    <3>1. CASE l = 0
      BY <1>2, <1>4, <2>1, <2>2, <3>1
    <3>2. CASE l # 0
      BY <1>2, <1>4, <2>2, <3>2
    <3> QED BY <3>1, <3>2
  <2>6. B!Final(new[l + 1]) = n + k
    BY <2>1, <2>2
  <2>7. ASSUME NEW i \in 2 .. l + 1 PROVE B!First(new[i]) = B!Final(new[i - 1]) + 1
    <3>1. CASE i = l + 1
      <4>1. l # 0 /\ l \in 1 .. l /\ i - 1 = l
        BY <3>1
      <4>2. new[i - 1] = items[l] /\ new[i] = x
        BY <2>2, <3>1, <4>1
      <4> QED BY <1>2, <1>4, <2>1, <4>1, <4>2
    <3>2. CASE i # l + 1
      <4>1. i \in 2 .. l /\ i \in 1 .. l /\ i - 1 \in 1 .. l
        BY <3>2
      <4>2. new[i - 1] = items[i - 1] /\ new[i] = items[i]
        BY <2>2, <4>1
      <4> QED BY <1>2, <1>4, <4>1, <4>2
    <3> QED BY <3>1, <3>2
  <2>8. Chained(new, c, m, n + k)
    <3>1. l + 1 \in Nat /\ l + 1 # 0 /\ Len(new) = l + 1 /\ \A i \in 1 .. l + 1 : Holds(new[i], c)
      BY <2>2, <2>4
    <3> QED BY Zenon, <2>5, <2>6, <2>7, <3>1, ChainedFrom
  <2> QED BY <2>3, <2>8
<1>6. CASE B!Remain(items) # 0
  <2>1. l # 0 /\ l \in 1 .. l /\ items # <<>>
    BY <1>4, <1>6 DEF B!Remain
  <2>2. PICK y \in ItemType : y = items[l] /\ Holds(y, c) /\ B!Final(y) = n
    BY <1>1, <1>2, <1>4, <2>1
  <2>3. y.used + k <= Capacity
    <3>1. PICK u \in Nat : u = y.used
      BY <2>2, ItemEnds
    <3>2. k <= Capacity - u
      BY <1>4, <1>6, <2>1, <2>2, <3>1 DEF B!Remain
    <3> QED BY <1>3, <3>1, <3>2, PullAssumption
  <2>4. PICK x \in ItemType : /\ x = [used |-> y.used + k, data |-> y.data \o Bytes(c, n, k)]
                              /\ Holds(x, c) /\ B!First(x) = B!First(y) /\ B!Final(x) = n + k
    BY Zenon, <2>2, <2>3, MoreItem
  <2>5. PICK new \in Seq(ItemType) :
          /\ new = [items EXCEPT ![l] = x] /\ Len(new) = l
          /\ \A i \in 1 .. l : new[i] = IF i = l THEN x ELSE items[i]
    <3>1. l \in 1 .. Len(items) /\ Len(items) = l
      BY <1>4, <2>1
    <3>2. /\ [items EXCEPT ![l] = x] \in Seq(ItemType)
          /\ Len([items EXCEPT ![l] = x]) = Len(items)
          /\ \A i \in 1 .. Len(items) :
               [items EXCEPT ![l] = x][i] = IF i = l THEN x ELSE items[i]
      BY <1>1, <3>1, ExceptSeq
    <3> QED BY <3>1, <3>2
  <2>6. B!CatItem(items, Bytes(c, n, k)) = new
    BY <1>3, <1>4, <1>6, <2>2, <2>4, <2>5 DEF B!CatItem
  <2>7. \A i \in 1 .. Len(new) : Holds(new[i], c)
    BY <1>1, <1>4, <2>4, <2>5
  <2>8. B!First(new[1]) = m + 1
    <3>1. B!First(items[1]) = m + 1
      BY <1>2, <2>1
    <3> QED BY <2>1, <2>2, <2>4, <2>5, <3>1
  <2>9. B!Final(new[l]) = n + k
    BY <2>1, <2>4, <2>5
  <2>10. ASSUME NEW i \in 2 .. l PROVE B!First(new[i]) = B!Final(new[i - 1]) + 1
    <3>1. i \in 1 .. l /\ i - 1 \in 1 .. l /\ i - 1 # l
      OBVIOUS
    <3>2. new[i - 1] = items[i - 1] /\ B!First(new[i]) = B!First(items[i])
      BY <2>2, <2>4, <2>5, <3>1
    <3> QED BY <1>2, <1>4, <3>2
  <2>11. Chained(new, c, m, n + k)
    <3>1. Len(new) = l /\ \A i \in 1 .. l : Holds(new[i], c)
      BY <2>5, <2>7
    <3> QED BY Zenon, <2>1, <2>8, <2>9, <2>10, <3>1, ChainedFrom
  <2> QED BY <2>6, <2>11
<1> QED BY <1>5, <1>6

LEMMA DropChained ==
  ASSUME NEW c \in B!ConnIds, NEW m \in Nat, NEW n \in Nat, NEW items, Chained(items, c, m, n),
         items # <<>>
  PROVE  /\ Head(Head(items).data) = B!Byte(c, m + 1)
         /\ Chained(B!DropByte(items), c, m + 1, n)
<1>1. /\ items \in Seq(ItemType) /\ \A i \in 1 .. Len(items) : Holds(items[i], c)
  BY DEF Chained
<1>2. /\ B!First(items[1]) = m + 1 /\ B!Final(items[Len(items)]) = n
      /\ \A i \in 2 .. Len(items) : B!First(items[i]) = B!Final(items[i - 1]) + 1
  BY Zenon, <1>1, ChainedIs
<1>3. PICK l \in Nat \ {0} : l = Len(items)
  BY <1>1
<1>4. PICK y \in ItemType : y = items[1] /\ y = Head(items) /\ Holds(y, c) /\ B!First(y) = m + 1
  BY <1>1, <1>2, <1>3
<1>5. PICK d \in Seq(ByteType), e \in Nat \ {0} :
        d = y.data /\ e = Len(d) /\ B!Final(y) = m + 1 + e - 1
  BY <1>4, ItemEnds
<1>6. Head(d) = B!Byte(c, m + 1)
  <2>1. 1 \in 1 .. e /\ m + 1 + 1 - 1 = m + 1
    OBVIOUS
  <2>2. d[1] = B!Byte(c, m + 1 + 1 - 1)
    BY <1>4, <1>5, <2>1 DEF Holds
  <2> QED BY <1>5, <2>1, <2>2
<1>7. CASE e = 1
  <2>1. PICK new \in Seq(ItemType) :
          new = Tail(items) /\ Len(new) = l - 1 /\ \A i \in 1 .. l - 1 : new[i] = items[i + 1]
    <3>1. /\ Tail(items) \in Seq(ItemType) /\ Len(Tail(items)) = Len(items) - 1
          /\ \A i \in 1 .. Len(Tail(items)) : Tail(items)[i] = items[i + 1]
      BY <1>1, HeadTailProperties
    <3> QED BY <1>3, <3>1
  <2>2. B!DropByte(items) = new
    BY <1>4, <1>5, <1>7, <2>1 DEF B!DropByte
  <2>3. \A i \in 1 .. Len(new) : Holds(new[i], c)
    <3>1. \A i \in 1 .. l - 1 : i + 1 \in 1 .. l
      OBVIOUS
    <3> QED BY <1>1, <1>3, <2>1, <3>1
  <2>4. \A i \in 2 .. l - 1 : B!First(new[i]) = B!Final(new[i - 1]) + 1
    <3> SUFFICES ASSUME NEW i \in 2 .. l - 1 PROVE B!First(new[i]) = B!Final(new[i - 1]) + 1
      OBVIOUS
    <3>1. i + 1 \in 2 .. l /\ i \in 1 .. l - 1 /\ i - 1 \in 1 .. l - 1
          /\ (i - 1) + 1 = i /\ (i + 1) - 1 = i
      OBVIOUS
    <3>2. new[i] = items[i + 1] /\ new[i - 1] = items[i]
      BY <2>1, <3>1
    <3> QED BY <1>2, <1>3, <3>1, <3>2
  <2>5. B!Final(y) = m + 1
    BY <1>5, <1>7
  <2>6. CASE l = 1
    <3>1. m + 1 = n /\ l - 1 = 0 /\ l - 1 \in Nat
      BY <1>2, <1>3, <1>4, <2>5, <2>6
    <3>2. Chained(new, c, m + 1, n)
      <4>1. Len(new) = l - 1 /\ \A i \in 1 .. l - 1 : Holds(new[i], c)
        BY <2>1, <2>3
      <4> QED BY Zenon, <2>4, <3>1, <4>1, ChainedFrom
    <3> QED BY <1>4, <1>5, <1>6, <2>2, <3>2
  <2>7. CASE l # 1
    <3>1. 1 \in 1 .. l - 1 /\ l - 1 \in 1 .. l - 1 /\ 2 \in 2 .. l /\ (l - 1) + 1 = l /\ 1 + 1 = 2
          /\ 2 - 1 = 1
      BY <2>7
    <3>2. new[1] = items[2] /\ new[l - 1] = items[l] /\ new # <<>>
      BY <2>1, <3>1
    <3>3. B!First(new[1]) = m + 1 + 1 /\ B!Final(new[l - 1]) = n
      BY <1>2, <1>3, <1>4, <2>5, <3>1, <3>2
    <3>4. Chained(new, c, m + 1, n)
      <4>1. Len(new) = l - 1 /\ \A i \in 1 .. l - 1 : Holds(new[i], c)
        BY <2>1, <2>3
      <4>2. l - 1 # 0 /\ l - 1 \in Nat
        BY <2>7
      <4> QED BY Zenon, <2>4, <3>3, <4>1, <4>2, ChainedFrom
    <3> QED BY <1>4, <1>5, <1>6, <2>2, <3>4
  <2> QED BY <2>6, <2>7
<1>8. CASE e # 1
  <2>1. PICK x \in ItemType : /\ x = [y EXCEPT !.data = Tail(@)] /\ Holds(x, c)
                              /\ B!First(x) = m + 1 + 1 /\ B!Final(x) = B!Final(y)
    BY <1>4, <1>5, <1>8, LessItem
  <2>2. PICK new \in Seq(ItemType) :
          /\ new = [items EXCEPT ![1] = x] /\ Len(new) = l
          /\ \A i \in 1 .. l : new[i] = IF i = 1 THEN x ELSE items[i]
    <3>1. 1 \in 1 .. Len(items) /\ Len(items) = l
      BY <1>3
    <3>2. /\ [items EXCEPT ![1] = x] \in Seq(ItemType)
          /\ Len([items EXCEPT ![1] = x]) = Len(items)
          /\ \A i \in 1 .. Len(items) :
               [items EXCEPT ![1] = x][i] = IF i = 1 THEN x ELSE items[i]
      BY <1>1, <3>1, ExceptSeq
    <3> QED BY <3>1, <3>2
  <2>3. B!DropByte(items) = new
    <3>1. B!DropByte(items) = [items EXCEPT ![1].data = Tail(@)]
      BY <1>4, <1>5, <1>8 DEF B!DropByte
    <3> QED BY <1>4, <2>1, <2>2, <3>1
  <2>4. \A i \in 1 .. Len(new) : Holds(new[i], c)
    BY <1>1, <1>3, <2>1, <2>2
  <2>5. \A i \in 1 .. l : B!Final(new[i]) = B!Final(items[i])
    BY <1>4, <2>1, <2>2
  <2>6. \A i \in 2 .. l : B!First(new[i]) = B!Final(new[i - 1]) + 1
    <3> SUFFICES ASSUME NEW i \in 2 .. l PROVE B!First(new[i]) = B!Final(new[i - 1]) + 1
      OBVIOUS
    <3>1. i \in 1 .. l /\ i - 1 \in 1 .. l /\ i # 1
      OBVIOUS
    <3> QED BY <1>2, <1>3, <2>2, <2>5, <3>1
  <2>7. B!First(new[1]) = m + 1 + 1 /\ B!Final(new[l]) = n
    <3>1. 1 \in 1 .. l /\ l \in 1 .. l
      OBVIOUS
    <3> QED BY <1>2, <1>3, <2>1, <2>2, <2>5, <3>1
  <2>8. Chained(new, c, m + 1, n)
    <3>1. Len(new) = l /\ l \in Nat /\ l # 0 /\ \A i \in 1 .. l : Holds(new[i], c)
      BY <2>2, <2>4
    <3> QED BY Zenon, <2>6, <2>7, <3>1, ChainedFrom
  <2> QED BY <1>4, <1>5, <1>6, <2>3, <2>8
<1> QED BY <1>7, <1>8

-----------------------------------------------------------------------------
(* A callback changes the buffer of its connection.                        *)
LEMMA ChainOf ==
  ASSUME PullTypes, WellFormed, NEW b \in PullBufs, NEW c, NEW m, NEW n,
         B!InItems(buf[b].items, c, m, n)
  PROVE  Chained(buf[b].items, c, m, n)
<1>1. PICK items \in Seq(ItemType) : items = buf[b].items
  BY DEF PullTypes, BufType
<1>2. \A i \in 1 .. Len(items) : items[i].used \in 1 .. Capacity /\ Len(items[i].data) \in 1 .. items[i].used
  BY <1>1 DEF WellFormed
<1>3. ASSUME NEW i \in 1 .. Len(items) PROVE Holds(items[i], c)
  <2>1. items[i] \in ItemType /\ DOMAIN items = 1 .. Len(items)
    BY ElementOfSeq
  <2>2. items[i].data \in Seq(ByteType)
    BY <2>1 DEF ItemType
  <2>3. DOMAIN items[i].data = 1 .. Len(items[i].data)
    BY <2>2, LenProperties
  <2>4. \A k \in 1 .. Len(items[i].data) : items[i].data[k] = B!Byte(c, B!First(items[i]) + k - 1)
    BY <1>1, <2>1, <2>3 DEF B!InItems
  <2> QED BY <1>2, <2>4 DEF Holds
<1> QED BY <1>1, <1>3 DEF Chained

LEMMA FilledFrom ==
  ASSUME PullInv, NEW w \in Workers, NEW c \in B!ConnIds, NEW b \in PullBufs, Others(w), BufOthers(b),
         bwk[w].pc \in Callback, bwk[w].c = c, reserved[c] = b, buf'[b].id = c,
         bwk'[w].pc \in Callback, bwk'[w].c = c, bwk'[w].b = None,
         IF bwk'[w].pc = "cat" THEN bwk'[w].n > 0 ELSE bwk'[w].n = 0 /\ bwk'[w].len = 0,
         UNCHANGED <<bconns, reserved, cache, bfree, gc, sent>>,
         got' \in [B!ConnIds -> Seq(ByteType)], \A d \in B!ConnIds : d # c => got'[d] = got[d],
         Len(got'[c]) <= sent[c], \A i \in 1 .. Len(got'[c]) : got'[c][i] = B!Byte(c, i),
         bwk'[w].n <= bwk'[w].len, buf'[b].length + bwk'[w].len + Len(got'[c]) = sent[c],
         Chained(buf'[b].items, c, Len(got'[c]), sent[c] - bwk'[w].n)
  PROVE  PullInv'
<1>1. /\ PullTypes /\ bwk[w].pc # "idle" /\ bwk[w].b = None
      /\ bwk'[w].pc # "idle" /\ bwk'[w].pc \notin Keeping
      /\ bwk'[w].pc \notin {"put_cache", "reset", "pick", "items", "put", "remove"}
  BY DEF PullInv, Serving, Callback, Keeping
<1>2. bconns[c] = "busy" /\ OnlyConn(c) /\ c # 0
  BY <1>1, Ids DEF PullInv, Serving, PullTypes, OnlyConn
<1>3. Cached(c) /\ b # None /\ cache[B!Slot(c)] = b /\ buf[b].id = c
  BY PullAssumption DEF PullInv, Cached, Identified, Mine
<1>4. PullTypes'
  BY <1>1 DEF PullTypes, Others, BufOthers
<1>5. WellFormed'
  <2>1. \A i \in 1 .. Len(buf'[b].items) : Holds(buf'[b].items[i], c)
    BY DEF Chained
  <2>2. \A i \in 1 .. Len(buf'[b].items) :
          /\ buf'[b].items[i].used \in 1 .. Capacity
          /\ Len(buf'[b].items[i].data) \in 1 .. buf'[b].items[i].used
    BY <2>1 DEF Holds
  <2> QED BY <2>2 DEF PullInv, WellFormed, BufOthers
<1>6. Serving' /\ SlotsApart'
  <2>1. Serving'
    BY <1>1, <1>2, ServingFrom DEF PullInv
  <2>2. SlotsApart'
    BY DEF PullInv, SlotsApart
  <2> QED BY <2>1, <2>2
<1>7. \A d \in B!ConnIds : Cached(d)' <=> Cached(d)
  BY <1>1, <1>2, CachedBy DEF PullInv
<1>8. \A d \in B!ConnIds : Cached(d) /\ d # c => Mine(d) /\ reserved[d] \in PullBufs /\ reserved[d] # b
  BY <1>3 DEF PullInv, Identified, Mine
<1>9. \A v \in Workers : v # w => bwk'[v] = bwk[v]
  BY DEF Others
<1>10. \A v \in Workers : bwk'[v].b = bwk[v].b /\ bwk[v].b # b
  BY <1>1, <1>3, <1>9, Ids DEF PullInv, Identified
<1>11. ASSUME NEW v \in Workers, v # w, bwk[v].pc \in Keeping PROVE buf'[bwk[v].b] = buf[bwk[v].b]
  <2>1. bwk[v].b \in PullBufs
    BY <1>1, <1>11 DEF PullInv, Serving, PullTypes, BwkType
  <2> QED BY <1>10, <2>1 DEF BufOthers
<1>12. \A p \in PullBufs : buf'[p].id = buf[p].id
  BY <1>3 DEF BufOthers
<1>13. Identified'
  <2>1. \A d \in B!ConnIds : Cached(d)' => Mine(d)'
    BY <1>7, <1>12 DEF PullInv, Identified, Mine
  <2>2. \A v \in Workers :
          /\ bwk'[v].pc \in {"put_cache", "reset"} => buf'[bwk'[v].b].id = bwk'[v].c
          /\ bwk'[v].pc \in {"items", "put"} => buf'[bwk'[v].b].id = 0
          /\ bwk'[v].b # None => \A s \in 0 .. PullSize - 1 : cache'[s] # bwk'[v].b
    BY <1>1, <1>9, <1>10, <1>11 DEF PullInv, Identified, Keeping
  <2>3. \A u, v \in Workers : bwk'[u].b # None /\ bwk'[u].b = bwk'[v].b => u = v
    BY <1>10 DEF PullInv, Identified
  <2>4. \A s \in 0 .. PullSize - 1 : cache'[s] # None =>
          \E d \in B!ConnIds : Cached(d)' /\ B!Slot(d) = s /\ buf'[cache'[s]].id = d
    <3> SUFFICES ASSUME NEW s \in 0 .. PullSize - 1, cache[s] # None
                 PROVE  \E d \in B!ConnIds :
                          Cached(d)' /\ B!Slot(d) = s /\ buf'[cache[s]].id = d
      OBVIOUS
    <3>1. cache[s] \in PullBufs
      BY <1>1 DEF PullTypes
    <3>2. PICK d \in B!ConnIds : Cached(d) /\ B!Slot(d) = s /\ buf[cache[s]].id = d
      BY DEF PullInv, Identified
    <3> QED BY <1>7, <1>12, <3>1, <3>2
  <2>5. \A p \in PullBufs : buf'[p].id # 0 =>
          cache'[B!Slot(buf'[p].id)] = p \/ \E v \in Workers : bwk'[v].b = p
    BY <1>10, <1>12, SMTT(60) DEF PullInv, Identified
  <2> QED BY <2>1, <2>2, <2>3, <2>4, <2>5 DEF Identified
<1>14. Emptied'
  <2>1. \A p \in bfree' \cup gc' : buf'[p] = B!Fresh /\ \A v \in Workers : bwk'[v].b # p
    <3>1. b \notin bfree \cup gc /\ bfree \cup gc \subseteq PullBufs
      BY <1>1, <1>2, <1>3 DEF PullInv, Emptied, PullTypes, B!Fresh
    <3> SUFFICES ASSUME NEW p \in bfree \cup gc
                 PROVE  buf'[p] = B!Fresh /\ \A v \in Workers : bwk'[v].b # p
      OBVIOUS
    <3>2. p # b /\ p \in PullBufs
      BY <3>1
    <3>3. buf[p] = B!Fresh /\ \A v \in Workers : bwk[v].b # p
      BY DEF PullInv, Emptied
    <3> QED BY <1>10, <3>2, <3>3 DEF BufOthers
  <2>2. \A p \in PullBufs : buf'[p].id = 0 =>
          \/ buf'[p] = B!Fresh
          \/ \E v \in Workers : bwk'[v].b = p /\ bwk'[v].pc \in {"items", "put"}
    <3> SUFFICES ASSUME NEW p \in PullBufs, p # b, buf[p].id = 0, buf[p] # B!Fresh
                 PROVE  \E v \in Workers : bwk'[v].b = p /\ bwk'[v].pc \in {"items", "put"}
      BY <1>2 DEF BufOthers
    <3>1. PICK v \in Workers : bwk[v].b = p /\ bwk[v].pc \in {"items", "put"}
      BY DEF PullInv, Emptied
    <3>2. v # w
      BY <3>1 DEF Callback
    <3> QED BY <1>9, <3>1, <3>2
  <2>3. \A v \in Workers :
          /\ bwk'[v].pc \in {"put_cache", "items", "put"} => buf'[bwk'[v].b].length = 0
          /\ bwk'[v].pc \in {"put_cache", "put"} => buf'[bwk'[v].b].items = <<>>
    BY <1>1, <1>9, <1>11 DEF PullInv, Emptied, Keeping
  <2> QED BY <2>1, <2>2, <2>3 DEF PullInv, Emptied
<1>15. Delivered'
  <2>1. Accounted(c, bwk[w].n, bwk[w].len)'
    BY DEF Accounted, Chained
  <2>2. \A d \in B!ConnIds : d # c /\ Cached(d) => buf'[reserved[d]] = buf[reserved[d]]
    BY <1>8 DEF BufOthers
  <2>3. \A d \in B!ConnIds :
          /\ Len(got'[d]) <= sent'[d] /\ \A i \in 1 .. Len(got'[d]) : got'[d][i] = B!Byte(d, i)
          /\ bconns'[d] = "none" => sent'[d] = 0
          /\ bconns'[d] = "open" => Accounted(d, 0, 0)'
    <3>1. ASSUME NEW d \in B!ConnIds, bconns[d] = "open" PROVE Accounted(d, 0, 0)'
      <4>1. d # c /\ Cached(d)
        BY <1>2, <3>1 DEF Cached
      <4> QED BY <2>2, <3>1, <4>1 DEF PullInv, Delivered, Accounted
    <3> QED BY <3>1 DEF PullInv, Delivered
  <2>4. ASSUME NEW v \in Workers, bwk'[v].pc \in Callback
        PROVE  Accounted(bwk[v].c, bwk[v].n, bwk[v].len)'
    <3>1. CASE v = w
      BY <2>1, <3>1
    <3>2. CASE v # w
      <4>1. PICK d \in B!ConnIds : d = bwk[v].c /\ d # c /\ Cached(d)
        BY <1>1, <1>9, <2>4, <3>2 DEF PullInv, Serving, Cached, Callback
      <4>2. Accounted(d, bwk[v].n, bwk[v].len)
        BY <1>9, <2>4, <3>2, <4>1 DEF PullInv, Delivered
      <4> QED BY <1>9, <2>2, <3>2, <4>1, <4>2 DEF Accounted
    <3> QED BY <3>1, <3>2
  <2>5. \A v \in Workers : bwk'[v].pc \in {"pick", "put_cache"} => sent'[bwk'[v].c] = 0
    BY <1>1, <1>9 DEF PullInv, Delivered
  <2> QED BY <2>3, <2>4, <2>5 DEF Delivered
<1> QED BY <1>4, <1>5, <1>6, <1>13, <1>14, <1>15 DEF PullInv

LEMMA RemainIs ==
  ASSUME NEW c, NEW m, NEW n, NEW items, Chained(items, c, m, n)
  PROVE  B!Remain(items) \in 0 .. Capacity
<1>1. items \in Seq(ItemType) /\ \A i \in 1 .. Len(items) : Holds(items[i], c)
  BY DEF Chained
<1>2. CASE items = <<>>
  BY <1>2, PullAssumption DEF B!Remain
<1>3. CASE items # <<>>
  <2>1. Len(items) \in 1 .. Len(items)
    BY <1>1, <1>3
  <2>2. PICK u \in 1 .. Capacity : u = items[Len(items)].used
    BY <1>1, <2>1 DEF Holds
  <2>3. Capacity - u \in 0 .. Capacity
    BY PullAssumption
  <2> QED BY <1>3, <2>2, <2>3 DEF B!Remain
<1> QED BY <1>2, <1>3

\* Bytes go into the buffer; after the last ones its length grows.
LEMMA CatPull ==
  ASSUME PullInv, NEW w \in Workers, B!Cat(w)
  PROVE  PullInv'
<1> USE DEF B!At
<1>1. /\ PullTypes /\ bwk[w].pc = "cat" /\ bwk[w] \in BwkType
      /\ UNCHANGED <<bconns, reserved, cache, bfree, gc, sent, got>>
  BY DEF B!Cat, PullInv, PullTypes
<1>2. PICK c \in B!ConnIds : c = bwk[w].c /\ Cached(c) /\ Accounted(c, bwk[w].n, bwk[w].len)
  BY <1>1 DEF PullInv, Serving, Delivered, Cached, Callback
<1>3. PICK b \in PullBufs : b = reserved[c] /\ buf[b].id = c /\ buf[b] \in BufType
  BY <1>1, <1>2 DEF PullInv, Identified, Mine, PullTypes
<1>4. PICK left \in Nat, len \in Nat, l \in Nat, g \in Nat, k \in Nat :
        /\ left = bwk[w].n /\ len = bwk[w].len /\ l = buf[b].length /\ g = Len(got[c])
        /\ k = sent[c]
  <2>1. bwk[w].n \in Nat /\ bwk[w].len \in Nat
    BY <1>1 DEF BwkType
  <2>2. buf[b].length \in Nat
    BY <1>3 DEF BufType
  <2>3. Len(got[c]) \in Nat /\ sent[c] \in Nat
    BY <1>1 DEF PullTypes
  <2> QED BY <2>1, <2>2, <2>3
<1>5. left > 0 /\ bwk[w].b = None
  BY <1>1, <1>4 DEF PullInv, Serving, Keeping
<1>6. left <= len /\ l + len + g = k /\ B!InItems(buf[b].items, c, g, k - left)
  BY <1>2, <1>3, <1>4 DEF Accounted
<1>7. PICK n \in Nat : n = k - left
  BY <1>6
<1>8. PICK items : items = buf[b].items /\ Chained(items, c, g, n)
  BY <1>1, <1>6, <1>7, ChainOf DEF PullInv
<1>9. PICK room \in 0 .. Capacity : room = B!Remain(items)
  BY <1>8, RemainIs
<1>10. PICK fits \in 1 .. Capacity : fits = IF room = 0 THEN Capacity ELSE room
  BY PullAssumption
<1>11. PICK cat \in 1 .. Capacity : cat = IF left < fits THEN left ELSE fits
  BY <1>5, PullAssumption
<1>12. cat <= left /\ cat <= fits /\ cat \in Nat /\ left - cat \in Nat
  BY <1>5, <1>11, PullAssumption
<1>13. \/ /\ cat # left /\ buf' = [buf EXCEPT ![b].items = B!CatItem(@, Bytes(c, n, cat))]
          /\ bwk' = [bwk EXCEPT ![w].n = left - cat]
       \/ /\ cat = left
          /\ buf' = [buf EXCEPT ![b].items = B!CatItem(@, Bytes(c, n, cat)), ![b].length = @ + len]
          /\ bwk' = [bwk EXCEPT ![w].pc = "on_receive", ![w].n = 0, ![w].len = 0]
  <2> DEFINE room0  == B!Remain(buf[reserved[bwk[w].c]].items)
             fits0  == IF room0 = 0 THEN Capacity ELSE room0
             cat0   == IF bwk[w].n < fits0 THEN bwk[w].n ELSE fits0
             bytes0 == [i \in 1 .. cat0 |-> B!Byte(bwk[w].c, sent[bwk[w].c] - bwk[w].n + i)]
  <2>1. \/ /\ cat0 < bwk[w].n
           /\ buf' = [buf EXCEPT ![reserved[bwk[w].c]].items = B!CatItem(@, bytes0)]
           /\ bwk' = [bwk EXCEPT ![w].n = bwk[w].n - cat0]
        \/ /\ cat0 = bwk[w].n
           /\ buf' = [buf EXCEPT ![reserved[bwk[w].c]].items = B!CatItem(@, bytes0),
                                ![reserved[bwk[w].c]].length = @ + bwk[w].len]
           /\ bwk' = [bwk EXCEPT ![w].pc = "on_receive", ![w].n = 0, ![w].len = 0]
    BY Zenon DEF B!Cat
  <2>2. cat0 = cat
    BY <1>2, <1>3, <1>4, <1>8, <1>9, <1>10, <1>11
  <2>3. bytes0 = Bytes(c, n, cat)
    BY <1>2, <1>4, <1>7, <2>2 DEF Bytes
  <2> HIDE DEF room0, fits0, cat0, bytes0
  <2>4. cat < left => cat # left
    BY <1>12
  <2> QED BY <1>2, <1>3, <1>4, <2>1, <2>2, <2>3, <2>4
<1>14. PICK new \in Seq(ItemType) :
         new = B!CatItem(items, Bytes(c, n, cat)) /\ Chained(new, c, g, n + cat)
  <2>1. B!Remain(items) # 0 => cat <= B!Remain(items)
    BY <1>9, <1>10, <1>12
  <2>2. Chained(B!CatItem(items, Bytes(c, n, cat)), c, g, n + cat)
    BY <1>8, <2>1, CatChained
  <2> QED BY <2>2 DEF Chained
<1>15. n + cat = k - (left - cat)
  BY <1>7, <1>12
<1>16. CASE cat # left /\ bwk' = [bwk EXCEPT ![w].n = left - cat]
  <2>1. buf' = [buf EXCEPT ![b].items = B!CatItem(@, Bytes(c, n, cat))]
    BY <1>13, <1>16
  <2>2. PICK r \in BwkType : r = [bwk[w] EXCEPT !.n = left - cat]
    BY <1>1, <1>12 DEF BwkType
  <2>3. r.pc = "cat" /\ r.c = c /\ r.b = None /\ r.n = left - cat /\ r.len = len
    BY <1>1, <1>2, <1>4, <1>5, <2>2 DEF BwkType
  <2>4. PICK x \in BufType : x = [buf[b] EXCEPT !.items = new]
    BY <1>3 DEF BufType
  <2>5. x.id = c /\ x.length = l /\ x.items = new
    BY <1>3, <1>4, <2>4 DEF BufType
  <2>6. /\ Others(w) /\ bwk'[w] = r /\ BufOthers(b) /\ buf'[b] = x
    BY <1>1, <1>8, <1>14, <1>16, <2>1, <2>2, <2>4 DEF PullTypes, Others, BufOthers
  <2>7. left - cat > 0 /\ left - cat <= len
    BY <1>6, <1>12, <1>16
  <2>8. /\ Len(got'[c]) <= sent[c] /\ \A i \in 1 .. Len(got'[c]) : got'[c][i] = B!Byte(c, i)
        /\ got' \in [B!ConnIds -> Seq(ByteType)]
    BY <1>1 DEF PullInv, PullTypes, Delivered
  <2>9. /\ buf'[b].length + bwk'[w].len + Len(got'[c]) = sent[c]
        /\ Chained(buf'[b].items, c, Len(got'[c]), sent[c] - bwk'[w].n)
    BY <1>1, <1>4, <1>6, <1>14, <1>15, <2>3, <2>5, <2>6
  <2> QED BY <1>1, <1>2, <1>3, <2>3, <2>5, <2>6, <2>7, <2>8, <2>9, FilledFrom DEF Callback
<1>17. CASE cat = left
  <2>1. /\ buf' = [buf EXCEPT ![b].items = B!CatItem(@, Bytes(c, n, cat)), ![b].length = @ + len]
        /\ bwk' = [bwk EXCEPT ![w].pc = "on_receive", ![w].n = 0, ![w].len = 0]
    BY <1>13, <1>17
  <2>2. PICK r \in BwkType : r = [bwk[w] EXCEPT !.pc = "on_receive", !.n = 0, !.len = 0]
    BY <1>1 DEF BwkType, Callback
  <2>3. r.pc = "on_receive" /\ r.c = c /\ r.b = None /\ r.n = 0 /\ r.len = 0
    BY <1>1, <1>2, <1>5, <2>2 DEF BwkType
  <2>4. PICK x \in BufType : x = [buf[b] EXCEPT !.items = new, !.length = l + len]
    <3>1. l + len \in Nat
      OBVIOUS
    <3>2. [buf[b] EXCEPT !.items = new, !.length = l + len] \in BufType
      BY <1>3, <3>1 DEF BufType
    <3> QED BY <3>2
  <2>5. x.id = c /\ x.length = l + len /\ x.items = new
    BY <1>3, <2>4 DEF BufType
  <2>6. /\ Others(w) /\ bwk'[w] = r /\ BufOthers(b) /\ buf'[b] = x
    BY <1>1, <1>4, <1>8, <1>14, <2>1, <2>2, <2>4 DEF PullTypes, Others, BufOthers
  <2>7. /\ Len(got'[c]) <= sent[c] /\ \A i \in 1 .. Len(got'[c]) : got'[c][i] = B!Byte(c, i)
        /\ got' \in [B!ConnIds -> Seq(ByteType)]
    BY <1>1 DEF PullInv, PullTypes, Delivered
  <2>8. l + len + 0 + g = k /\ k - (left - cat) = k - 0
    BY <1>6, <1>17
  <2>9. /\ buf'[b].length + bwk'[w].len + Len(got'[c]) = sent[c]
        /\ Chained(buf'[b].items, c, Len(got'[c]), sent[c] - bwk'[w].n)
    BY <1>1, <1>4, <1>14, <1>15, <2>3, <2>5, <2>6, <2>8
  <2>10. /\ bwk'[w].pc # "cat" /\ bwk'[w].n = 0 /\ bwk'[w].len = 0 /\ bwk'[w].n <= bwk'[w].len
         /\ bwk[w].pc \in Callback /\ bwk'[w].pc \in Callback /\ bwk'[w].c = c /\ bwk'[w].b = None
    BY <1>1, <2>3, <2>6 DEF Callback
  <2>11. IF bwk'[w].pc = "cat" THEN bwk'[w].n > 0 ELSE bwk'[w].n = 0 /\ bwk'[w].len = 0
    BY <2>10
  <2> QED BY <1>1, <1>2, <1>3, <2>5, <2>6, <2>7, <2>9, <2>10, <2>11, FilledFrom
<1> QED BY <1>13, <1>16, <1>17

\* A byte is fetched.
LEMMA FetchPull ==
  ASSUME PullInv, NEW w \in Workers, B!Fetch(w)
  PROVE  PullInv'
<1>1. /\ PullTypes /\ bwk[w].pc \in {"on_receive", "on_close"} /\ bwk[w] \in BwkType
      /\ UNCHANGED <<bconns, reserved, cache, bfree, gc, bwk, sent>>
  BY DEF B!Fetch, PullInv, PullTypes
<1>2. PICK c \in B!ConnIds : c = bwk[w].c /\ Cached(c) /\ Accounted(c, bwk[w].n, bwk[w].len)
  BY <1>1 DEF PullInv, Serving, Delivered, Cached, Callback
<1>3. /\ bwk[w].n = 0 /\ bwk[w].len = 0 /\ bwk[w].b = None
      /\ bwk[w].pc \in Callback /\ bwk[w].pc # "cat"
  BY <1>1 DEF PullInv, Serving, Keeping, Callback
<1>4. PICK b \in PullBufs : /\ b = reserved[c] /\ b = cache[B!Slot(c)]
                            /\ buf[b].id = c /\ buf[b] \in BufType
  BY <1>1, <1>2 DEF PullInv, Identified, Mine, PullTypes
<1>5. PICK items \in Seq(ItemType) : items = buf[b].items
  BY <1>4 DEF BufType
<1>6. /\ buf[b].length > 0
      /\ buf' = [buf EXCEPT ![b].length = @ - 1, ![b].items = B!DropByte(@)]
      /\ got' = [got EXCEPT ![c] = Append(@, Head(Head(items).data))]
  <2>1. PICK d \in B!ConnIds :
          /\ d = bwk[w].c /\ buf[cache[B!Slot(d)]].length > 0
          /\ buf' = [buf EXCEPT ![cache[B!Slot(d)]].length = @ - 1,
                               ![cache[B!Slot(d)]].items = B!DropByte(@)]
          /\ got' = [got EXCEPT ![d] = Append(@, Head(Head(buf[cache[B!Slot(d)]].items).data))]
    BY Zenon, PullAssumption DEF B!Fetch
  <2> QED BY <1>2, <1>4, <1>5, <2>1
<1>7. PICK l \in Nat, g \in Nat, k \in Nat : l = buf[b].length /\ g = Len(got[c]) /\ k = sent[c]
  <2>1. buf[b].length \in Nat
    BY <1>4 DEF BufType
  <2>2. Len(got[c]) \in Nat /\ sent[c] \in Nat
    BY <1>1 DEF PullTypes
  <2> QED BY <2>1, <2>2
<1>8. l > 0 /\ l + 0 + g = k /\ B!InItems(items, c, g, k - 0)
  BY <1>2, <1>3, <1>4, <1>5, <1>6, <1>7 DEF Accounted
<1>9. k - 0 = k /\ g # k
  BY <1>8
<1>10. Chained(items, c, g, k)
  BY <1>1, <1>5, <1>8, <1>9, ChainOf DEF PullInv
<1>11. items # <<>>
  BY <1>8, <1>9 DEF B!InItems
<1>12. PICK new \in Seq(ItemType) :
         /\ new = B!DropByte(items) /\ Chained(new, c, g + 1, k)
         /\ Head(Head(items).data) = B!Byte(c, g + 1)
  <2>1. Head(Head(items).data) = B!Byte(c, g + 1) /\ Chained(B!DropByte(items), c, g + 1, k)
    BY <1>10, <1>11, DropChained
  <2> QED BY <2>1 DEF Chained
<1>13. PICK x \in BufType : x = [buf[b] EXCEPT !.length = l - 1, !.items = new]
  <2>1. l - 1 \in Nat
    BY <1>8
  <2>2. [buf[b] EXCEPT !.length = l - 1, !.items = new] \in BufType
    BY <1>4, <2>1 DEF BufType
  <2> QED BY <2>2
<1>14. x.id = c /\ x.length = l - 1 /\ x.items = new
  BY <1>4, <1>13 DEF BufType
<1>15. /\ Others(w) /\ bwk'[w] = bwk[w] /\ BufOthers(b) /\ buf'[b] = x
  <2>1. buf' = [buf EXCEPT ![b] = x]
    BY <1>5, <1>6, <1>7, <1>12, <1>13
  <2> QED BY <1>1, <2>1 DEF PullTypes, Others, BufOthers
<1>16. PICK old \in Seq(ByteType) : old = got[c] /\ Len(old) = g
  BY <1>1, <1>7 DEF PullTypes
<1>17. PICK more \in Seq(ByteType) :
         /\ more = Append(old, B!Byte(c, g + 1)) /\ Len(more) = g + 1
         /\ more[g + 1] = B!Byte(c, g + 1) /\ \A i \in 1 .. g : more[i] = old[i]
  <2>1. B!Byte(c, g + 1) \in ByteType
    BY DEF B!Byte, ByteType
  <2>2. PICK y \in ByteType : y = B!Byte(c, g + 1)
    BY <2>1
  <2>3. /\ Append(old, y) \in Seq(ByteType) /\ Len(Append(old, y)) = Len(old) + 1
        /\ Append(old, y)[Len(old) + 1] = y
        /\ \A i \in 1 .. Len(old) : Append(old, y)[i] = old[i]
    BY AppendProperties
  <2> QED BY <1>16, <2>2, <2>3
<1>18. /\ got'[c] = more /\ got' \in [B!ConnIds -> Seq(ByteType)]
       /\ \A d \in B!ConnIds : d # c => got'[d] = got[d]
  BY <1>1, <1>6, <1>12, <1>16, <1>17 DEF PullTypes
<1>19. \A i \in 1 .. g + 1 : more[i] = B!Byte(c, i)
  <2>1. \A i \in 1 .. g : old[i] = B!Byte(c, i)
    BY <1>16 DEF PullInv, Delivered
  <2>2. \A i \in 1 .. g + 1 : i \in 1 .. g \/ i = g + 1
    OBVIOUS
  <2> QED BY <1>17, <2>1, <2>2
<1>20. g + 1 <= k /\ (l - 1) + 0 + (g + 1) = k
  BY <1>8
<1>21. Len(got'[c]) <= sent[c] /\ \A i \in 1 .. Len(got'[c]) : got'[c][i] = B!Byte(c, i)
  BY <1>7, <1>17, <1>18, <1>19, <1>20
<1>22. buf'[b].length + bwk'[w].len + Len(got'[c]) = sent[c]
  BY <1>3, <1>7, <1>14, <1>15, <1>17, <1>18, <1>20
<1>23. /\ Chained(buf'[b].items, c, Len(got'[c]), sent[c] - bwk'[w].n)
       /\ bwk'[w].n <= bwk'[w].len
  BY <1>3, <1>7, <1>9, <1>12, <1>14, <1>15, <1>17, <1>18
<1>24. /\ bwk'[w].pc \in Callback /\ bwk'[w].c = c /\ bwk'[w].b = None /\ buf'[b].id = c
       /\ IF bwk'[w].pc = "cat" THEN bwk'[w].n > 0 ELSE bwk'[w].n = 0 /\ bwk'[w].len = 0
  BY <1>2, <1>3, <1>14, <1>15
<1> QED BY <1>1, <1>2, <1>3, <1>4, <1>15, <1>18, <1>21, <1>22, <1>23, <1>24, FilledFrom

-----------------------------------------------------------------------------
(* The invariant of PullServer, and what it says.                          *)
LEMMA InitPull == B!Init => PullInv
<1> SUFFICES ASSUME B!Init PROVE PullInv
  OBVIOUS
<1> USE DEF B!Init
<1>1. PICK r \in BwkType : r = B!Idle /\ r.pc = "idle" /\ r.b = None /\ r.n = 0 /\ r.len = 0
  BY IdleIs
<1>2. \A w \in Workers : bwk[w] = r
  BY <1>1
<1>3. \A c \in B!ConnIds :
        bconns[c] = "none" /\ reserved[c] = None /\ sent[c] = 0 /\ got[c] = <<>> /\ Len(got[c]) = 0
  OBVIOUS
<1>4. B!Fresh \in BufType /\ B!Fresh.id = 0 /\ B!Fresh.length = 0 /\ B!Fresh.items = <<>>
  <2>1. 0 \in 0 .. PullConns /\ <<>> \in Seq(ItemType)
    BY PullAssumption
  <2> QED BY <2>1 DEF B!Fresh, BufType
<1>5. PullTypes
  <2>1. buf \in [PullBufs -> BufType] /\ bwk \in [Workers -> BwkType]
    BY <1>1, <1>4
  <2> QED BY <2>1 DEF PullTypes
<1>6. Serving
  <2>1. "idle" \notin Keeping
    BY DEF Keeping
  <2> QED BY <1>1, <1>2, <2>1 DEF Serving
<1>7. SlotsApart
  BY <1>3 DEF SlotsApart
<1>8. \A c \in B!ConnIds : ~Cached(c)
  BY <1>1, <1>2, <1>3 DEF Cached, Callback
<1>9. \A b \in PullBufs : buf[b] = B!Fresh
  OBVIOUS
<1>10. Identified
  BY <1>1, <1>2, <1>4, <1>8, <1>9 DEF Identified
<1>11. Emptied
  BY <1>1, <1>2, <1>9 DEF Emptied
<1>12. WellFormed
  BY <1>4, <1>9 DEF WellFormed
<1>13. Delivered
  BY <1>1, <1>2, <1>3 DEF Delivered, Callback
<1> QED BY <1>5, <1>6, <1>7, <1>10, <1>11, <1>12, <1>13 DEF PullInv

LEMMA NextPull == PullInv /\ B!Next => PullInv'
<1> SUFFICES ASSUME PullInv, NEW w \in Workers,
                    \/ B!Accept(w) \/ B!Refuse(w) \/ B!PickFreeBuffer(w) \/ B!PutCacheBuffer(w)
                    \/ B!Receive(w) \/ B!Cat(w) \/ B!Fetch(w) \/ B!Received(w) \/ B!Close(w)
                    \/ B!RemoveEx(w) \/ B!ResetBuffer(w) \/ B!PutFreeItem(w)
                    \/ B!PutFreeBuffer(w) \/ B!RemoveSocket(w)
             PROVE  PullInv'
  BY DEF B!Next
<1>1. CASE B!Accept(w) \/ B!Refuse(w)
  BY <1>1, AcceptPull, RefusePull
<1>2. CASE B!PickFreeBuffer(w) \/ B!PutCacheBuffer(w)
  BY <1>2, PickFreePull, PutCachePull
<1>3. CASE B!Receive(w) \/ B!Cat(w) \/ B!Fetch(w) \/ B!Received(w)
  BY <1>3, ReceivePull, CatPull, FetchPull, ReceivedPull
<1>4. CASE B!Close(w) \/ B!RemoveEx(w) \/ B!ResetBuffer(w)
  BY <1>4, ClosePull, RemoveExPull, ResetPull
<1>5. CASE B!PutFreeItem(w) \/ B!PutFreeBuffer(w) \/ B!RemoveSocket(w)
  BY <1>5, PutItemPull, PutBufferPull, RemoveSocketPull
<1> QED BY <1>1, <1>2, <1>3, <1>4, <1>5

LEMMA RestPull == PullInv /\ UNCHANGED bvars => PullInv'
<1> SUFFICES ASSUME PullInv, UNCHANGED <<bconns, reserved, cache, buf, bfree, gc, bwk, sent, got>>
             PROVE  PullInv'
  BY DEF bvars
<1>1. PullTypes' /\ Serving' /\ SlotsApart' /\ WellFormed'
  BY DEF PullInv, PullTypes, Serving, SlotsApart, WellFormed
<1>2. \A c \in B!ConnIds : (Cached(c)' <=> Cached(c)) /\ (Mine(c)' <=> Mine(c))
  BY DEF Cached, Mine
<1>3. Identified' /\ Emptied'
  BY <1>2 DEF PullInv, Identified, Emptied
<1>4. Delivered'
  BY DEF PullInv, Delivered, Accounted
<1> QED BY <1>1, <1>3, <1>4 DEF PullInv

LEMMA PullTyped == PullInv => B!PullTypeOK
<1> SUFFICES ASSUME PullInv PROVE B!PullTypeOK
  OBVIOUS
<1>1. PullTypes
  BY DEF PullInv
<1>2. ASSUME NEW b \in PullBufs
      PROVE  /\ buf[b].id \in 0 .. PullConns /\ buf[b].length \in Nat
             /\ \A i \in DOMAIN buf[b].items :
                  /\ buf[b].items[i].used \in 1 .. Capacity
                  /\ Len(buf[b].items[i].data) \in 1 .. buf[b].items[i].used
  <2>1. /\ buf[b].id \in 0 .. PullConns /\ buf[b].length \in Nat
        /\ buf[b].items \in Seq(ItemType)
    BY <1>1 DEF PullTypes, BufType
  <2>2. DOMAIN buf[b].items = 1 .. Len(buf[b].items)
    BY <2>1, LenProperties
  <2> QED BY <2>1, <2>2 DEF PullInv, WellFormed
<1>3. ASSUME NEW w \in Workers
      PROVE  /\ bwk[w].c \in 0 .. PullConns /\ bwk[w].b \in PullBufs \cup {None}
             /\ bwk[w].n \in 0 .. bwk[w].len
  <2>1. bwk[w] \in BwkType
    BY <1>1 DEF PullTypes
  <2>2. PICK n \in Nat, len \in Nat : n = bwk[w].n /\ len = bwk[w].len
    BY <2>1 DEF BwkType
  <2>3. n <= len
    <3>1. CASE bwk[w].pc = "cat"
      <4>1. Accounted(bwk[w].c, bwk[w].n, bwk[w].len)
        BY <3>1 DEF PullInv, Delivered, Callback
      <4> QED BY <2>2, <4>1 DEF Accounted
    <3>2. CASE bwk[w].pc # "cat"
      <4>1. n = 0 /\ len = 0
        BY <2>2, <3>2 DEF PullInv, Serving
      <4> QED BY <4>1
    <3> QED BY <3>1, <3>2
  <2>4. n \in 0 .. len
    BY <2>3
  <2> QED BY <2>1, <2>2, <2>4 DEF BwkType
<1> QED BY <1>1, <1>2, <1>3 DEF PullTypes, B!PullTypeOK

LEMMA PullOwn == PullInv => B!BufferIsOwn
<1> SUFFICES ASSUME PullInv, NEW c \in B!ConnIds, bconns[c] = "open"
             PROVE  /\ cache[B!Slot(c)] = reserved[c] /\ cache[B!Slot(c)] # None
                    /\ buf[cache[B!Slot(c)]].id = c
                    /\ cache[B!Slot(c)] \notin bfree \cup gc \cup B!InHands
                    /\ buf[cache[B!Slot(c)]].length = sent[c] - Len(got[c])
                    /\ B!InItems(buf[cache[B!Slot(c)]].items, c, Len(got[c]), sent[c])
  BY Zenon DEF B!BufferIsOwn
<1>1. PullTypes
  BY DEF PullInv
<1>2. PICK b \in PullBufs : /\ b = reserved[c] /\ b = cache[B!Slot(c)] /\ b # None
                            /\ buf[b].id = c /\ c # 0
  BY PullAssumption, Ids DEF PullInv, Identified, Cached, Mine
<1>3. b \notin bfree \cup gc
  BY <1>2 DEF PullInv, Emptied, B!Fresh
<1>4. b \notin B!InHands
  BY <1>2, Ids DEF PullInv, Identified, B!InHands
<1>5. Accounted(c, 0, 0)
  BY DEF PullInv, Delivered
<1>6. PICK l \in Nat, g \in Nat, k \in Nat : l = buf[b].length /\ g = Len(got[c]) /\ k = sent[c]
  <2>1. buf[b].length \in Nat
    BY <1>1 DEF PullTypes, BufType
  <2>2. Len(got[c]) \in Nat /\ sent[c] \in Nat
    BY <1>1 DEF PullTypes
  <2> QED BY <2>1, <2>2
<1>7. l + 0 + g = k /\ B!InItems(buf[b].items, c, g, k - 0)
  BY <1>2, <1>5, <1>6 DEF Accounted
<1>8. l = k - g /\ k - 0 = k
  BY <1>7
<1> QED BY <1>2, <1>3, <1>4, <1>6, <1>7, <1>8

LEMMA PullEmpty == PullInv => B!FreeIsEmpty
<1> SUFFICES ASSUME PullInv PROVE B!FreeIsEmpty
  OBVIOUS
<1>1. PullTypes
  BY DEF PullInv
<1>2. ASSUME NEW b \in bfree \cup gc
      PROVE  buf[b] = B!Fresh /\ \A s \in DOMAIN cache : cache[s] # b
  <2>1. buf[b] = B!Fresh /\ buf[b].id = 0 /\ b # None /\ DOMAIN cache = 0 .. PullSize - 1
    BY <1>1, PullAssumption DEF PullInv, Emptied, B!Fresh, PullTypes
  <2> QED BY <2>1, Ids DEF PullInv, Identified
<1>3. ASSUME NEW b \in PullBufs, buf[b].id # 0 PROVE b \in B!Living \ (bfree \cup gc)
  <2>1. b \notin bfree \cup gc /\ b # None
    BY <1>3, PullAssumption DEF PullInv, Emptied, B!Fresh
  <2>2. CASE cache[B!Slot(buf[b].id)] = b
    <3>1. buf[b].id \in 0 .. PullConns
      BY <1>1 DEF PullTypes, BufType
    <3>2. B!Slot(buf[b].id) \in 0 .. PullSize - 1
      BY <1>3, <3>1, Ids
    <3> QED BY <2>1, <2>2, <3>2 DEF B!Living
  <2>3. CASE \E w \in Workers : bwk[w].b = b
    BY <2>1, <2>3 DEF B!Living, B!InHands
  <2> QED BY <1>3, <2>2, <2>3 DEF PullInv, Identified
<1>4. bfree \cap gc = {}
  BY DEF PullInv, Emptied
<1> QED BY <1>2, <1>3, <1>4 DEF B!FreeIsEmpty

LEMMA PullFetched == PullInv => B!FetchedInOrder
<1> SUFFICES ASSUME PullInv, NEW c \in B!ConnIds, NEW n \in DOMAIN got[c]
             PROVE  got[c][n] = B!Byte(c, n) /\ n <= sent[c]
  BY DEF B!FetchedInOrder
<1>1. got[c] \in Seq(ByteType) /\ sent[c] \in Nat
  BY DEF PullInv, PullTypes
<1>2. PICK g \in Nat, k \in Nat : g = Len(got[c]) /\ k = sent[c]
  BY <1>1
<1>3. n \in 1 .. g
  BY <1>1, <1>2, LenProperties
<1>4. g <= k
  BY <1>2 DEF PullInv, Delivered
<1>5. n <= k
  BY <1>3, <1>4
<1>6. got[c][n] = B!Byte(c, n)
  BY <1>2, <1>3 DEF PullInv, Delivered
<1> QED BY <1>2, <1>5, <1>6

-----------------------------------------------------------------------------
(* The two servers are instances of TcpServer; what is proved of it holds  *)
(* of both.                                                                *)
LP == INSTANCE TcpServerProofs WITH Stops <- FALSE
FP == INSTANCE TcpServerProofs WITH
        Conns <- FlowConns, Objs <- FlowObjs, Apps <- FlowApps, AppOps <- FlowOps,
        MaxOps <- FlowMaxOps, MaxWrites <- FlowMaxWrites, PoolCap <- FlowPoolCap,
        Stops <- FALSE

LEMMA SameLife == (L!Init <=> LP!Init) /\ (L!Next <=> LP!Next)
BY DEF L!FreshObj, LP!FreshObj, L!IdleWk, LP!IdleWk, L!IdleAp, LP!IdleAp, L!Init, LP!Init, L!WAt,
       LP!WAt, L!WGoto, LP!WGoto, L!Fire, LP!Fire, L!Pending, LP!Pending, L!IsOpen, LP!IsOpen,
       L!CloseObj, LP!CloseObj, L!Filter, LP!Filter, L!Rearm, LP!Rearm, L!Connect, LP!Connect,
       L!PeerSend, LP!PeerSend, L!PeerClose, LP!PeerClose, L!PeerRead, LP!PeerRead, L!Ready,
       LP!Ready, L!TakeListen, LP!TakeListen, L!Settled, LP!Settled, L!Usable, LP!Usable,
       L!Accept, LP!Accept, L!Publish, LP!Publish, L!OnAccept, LP!OnAccept, L!OnHandShake,
       LP!OnHandShake, L!Arm, LP!Arm, L!TakeEvent, LP!TakeEvent, L!EventOf, LP!EventOf,
       L!TakeCmd, LP!TakeCmd, L!LockIo, LP!LockIo, L!Read, LP!Read, L!PopItem, LP!PopItem,
       L!SendItem, LP!SendItem, L!PushFront, LP!PushFront, L!HungUp, LP!HungUp, L!After,
       LP!After, L!Invalid, LP!Invalid, L!OnClose, LP!OnClose, L!CloseSocket, LP!CloseSocket,
       L!Remove, LP!Remove, L!Release, LP!Release, L!Find, LP!Find, L!Post, LP!Post, L!Done,
       LP!Done, L!Send, LP!Send, L!Disconnect, LP!Disconnect, L!PauseReceive, LP!PauseReceive,
       L!PostUnpause, LP!PostUnpause, L!CloseListen, LP!CloseListen, L!Snapshot, LP!Snapshot,
       L!DisconnectOne, LP!DisconnectOne, L!WaitClosed, LP!WaitClosed, L!WaitWorkers,
       LP!WaitWorkers, L!StopSteps, LP!StopSteps, L!Work, LP!Work, L!Call, LP!Call, L!Peer,
       LP!Peer, L!Next, LP!Next, L!Cardinality, LP!Cardinality

LEMMA SameFlow == (F!Init <=> FP!Init) /\ (F!Next <=> FP!Next)
BY DEF F!FreshObj, FP!FreshObj, F!IdleWk, FP!IdleWk, F!IdleAp, FP!IdleAp, F!Init, FP!Init, F!WAt,
       FP!WAt, F!WGoto, FP!WGoto, F!Fire, FP!Fire, F!Pending, FP!Pending, F!IsOpen, FP!IsOpen,
       F!CloseObj, FP!CloseObj, F!Filter, FP!Filter, F!Rearm, FP!Rearm, F!Connect, FP!Connect,
       F!PeerSend, FP!PeerSend, F!PeerClose, FP!PeerClose, F!PeerRead, FP!PeerRead, F!Ready,
       FP!Ready, F!TakeListen, FP!TakeListen, F!Settled, FP!Settled, F!Usable, FP!Usable,
       F!Accept, FP!Accept, F!Publish, FP!Publish, F!OnAccept, FP!OnAccept, F!OnHandShake,
       FP!OnHandShake, F!Arm, FP!Arm, F!TakeEvent, FP!TakeEvent, F!EventOf, FP!EventOf,
       F!TakeCmd, FP!TakeCmd, F!LockIo, FP!LockIo, F!Read, FP!Read, F!PopItem, FP!PopItem,
       F!SendItem, FP!SendItem, F!PushFront, FP!PushFront, F!HungUp, FP!HungUp, F!After,
       FP!After, F!Invalid, FP!Invalid, F!OnClose, FP!OnClose, F!CloseSocket, FP!CloseSocket,
       F!Remove, FP!Remove, F!Release, FP!Release, F!Find, FP!Find, F!Post, FP!Post, F!Done,
       FP!Done, F!Send, FP!Send, F!Disconnect, FP!Disconnect, F!PauseReceive, FP!PauseReceive,
       F!PostUnpause, FP!PostUnpause, F!CloseListen, FP!CloseListen, F!Snapshot, FP!Snapshot,
       F!DisconnectOne, FP!DisconnectOne, F!WaitClosed, FP!WaitClosed, F!WaitWorkers,
       FP!WaitWorkers, F!StopSteps, FP!StopSteps, F!Work, FP!Work, F!Call, FP!Call, F!Peer,
       FP!Peer, F!Next, FP!Next, F!Cardinality, FP!Cardinality

LEMMA LifeHolds == LP!IInv => L!TypeOK /\ L!OwnObject /\ L!CloseIsLast /\ L!GoneWasClosed
<1>1. LP!TypeOK => L!TypeOK
  BY DEF LP!TypeOK, L!TypeOK, LP!WPc, L!WPc
<1>2. LP!OwnObject => L!OwnObject
  BY DEF LP!OwnObject, L!OwnObject
<1>3. LP!CloseIsLast => L!CloseIsLast
  BY DEF LP!CloseIsLast, L!CloseIsLast, LP!Count, L!Count, LP!Cardinality, L!Cardinality
<1>4. LP!GoneWasClosed => L!GoneWasClosed
  BY DEF LP!GoneWasClosed, L!GoneWasClosed, LP!Count, L!Count, LP!Cardinality, L!Cardinality
<1> QED BY <1>1, <1>2, <1>3, <1>4, LP!TypeOKHolds, LP!OwnObjectHolds, LP!CloseIsLastHolds,
           LP!GoneWasClosedHolds, LifeAssumption

LEMMA FlowHolds == FP!IInv => F!ReadIsArmed /\ F!SentInOrder
<1>1. FP!ReadIsArmed => F!ReadIsArmed
  BY DEF FP!ReadIsArmed, F!ReadIsArmed, FP!Handled, F!Handled
<1>2. FP!SentInOrder => F!SentInOrder
  BY DEF FP!SentInOrder, F!SentInOrder
<1> QED BY <1>1, <1>2, FP!ReadIsArmedHolds, FP!SentInOrderHolds,
           LifeAssumption, FlowAssumption

-----------------------------------------------------------------------------
(* Whichever part runs keeps its invariant; the others rest.               *)
MCInv ==
  /\ part = "life" => LP!IInv /\ LP!StopOrder
  /\ part = "flow" => FP!IInv /\ FP!StopOrder
  /\ part = "pull" => PullInv

THEOREM ConnectionsInvariance == MCSpec => []MCInv
<1>1. MCInit => MCInv
  <2> SUFFICES ASSUME MCInit PROVE MCInv
    OBVIOUS
  <2>1. part = "life" => LP!IInv /\ LP!StopOrder
    BY SameLife, LP!InitIInv, LifeAssumption DEF MCInit
  <2>2. part = "flow" => FP!IInv /\ FP!StopOrder
    BY SameFlow, FP!InitIInv, LifeAssumption, FlowAssumption DEF MCInit
  <2>3. part = "pull" => PullInv
    BY InitPull DEF MCInit
  <2> QED BY <2>1, <2>2, <2>3 DEF MCInv
<1>2. MCInv /\ [MCNext]_<<part, vars, svars, bvars>> => MCInv'
  <2> SUFFICES ASSUME MCInv, [MCNext]_<<part, vars, svars, bvars>> PROVE MCInv'
    OBVIOUS
  <2>1. part' = part
    BY DEF MCNext
  <2>2. ASSUME part = "life" PROVE (LP!IInv /\ LP!StopOrder)'
    <3>1. [LP!Next]_LP!vars
      BY <2>2, SameLife DEF MCNext, svars, LP!vars
    <3> QED BY <2>2, <3>1, LP!NextIInv, LifeAssumption DEF MCInv
  <2>3. ASSUME part = "flow" PROVE (FP!IInv /\ FP!StopOrder)'
    <3>1. [FP!Next]_FP!vars
      BY <2>3, SameFlow DEF MCNext, svars, FP!vars
    <3> QED BY <2>3, <3>1, FP!NextIInv, LifeAssumption, FlowAssumption DEF MCInv
  <2>4. ASSUME part = "pull" PROVE PullInv'
    <3>1. B!Next \/ UNCHANGED bvars
      BY <2>4 DEF MCNext
    <3> QED BY <2>4, <3>1, NextPull, RestPull DEF MCInv
  <2> QED BY <2>1, <2>2, <2>3, <2>4 DEF MCInv
<1> QED BY <1>1, <1>2, PTL DEF MCSpec

(* A connection of the server has an object of its own that no pool holds, *)
(* and one that pulls has a buffer of its own, to which its id leads, with *)
(* what it has still to fetch; a buffer in a pool is empty and found by no *)
(* id: of connections in all that use the same slot one after another.     *)
THEOREM ConnectionsOwnObject == MCSpec => []LifeOwnObject
<1>1. MCInv => LifeOwnObject
  BY LifeHolds, PullTyped, PullOwn, PullEmpty DEF MCInv, LifeOwnObject
<1> QED BY <1>1, ConnectionsInvariance, PTL

(* OnClose comes once, after every OnReceive, and comes for every          *)
(* connection that OnHandShake accepted.                                   *)
THEOREM ConnectionsCloseIsLast == MCSpec => []LifeCloseIsLast
<1>1. MCInv => LifeCloseIsLast
  BY LifeHolds DEF MCInv, LifeCloseIsLast
<1> QED BY <1>1, ConnectionsInvariance, PTL

(* A connection that nobody handles and that is not paused can be read.    *)
THEOREM ConnectionsReadIsArmed == MCSpec => []FlowReadIsArmed
<1>1. MCInv => FlowReadIsArmed
  BY FlowHolds DEF MCInv, FlowReadIsArmed
<1> QED BY <1>1, ConnectionsInvariance, PTL

(* What Send accepted is on the wire in its order; what a connection       *)
(* fetches by its id is what it received, from the first byte on, without  *)
(* a gap and nobody else's.                                                *)
THEOREM ConnectionsInOrder == MCSpec => []FlowSentInOrder
<1>1. MCInv => FlowSentInOrder
  BY FlowHolds, PullFetched DEF MCInv, FlowSentInOrder
<1> QED BY <1>1, ConnectionsInvariance, PTL
=============================================================================
