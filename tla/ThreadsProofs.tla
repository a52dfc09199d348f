--------------------------- MODULE ThreadsProofs ---------------------------
(***************************************************************************)
(* Proofs about what MCThreads runs.  SemRWLock: its counters count, no    *)
(* wake-up is lost, and it implements ReadWriteLock, for every number of   *)
(* threads and nested locks.  IODispatcher and UdpNode: no byte, command   *)
(* or datagram is lost or used twice, and their Stop() leaves nothing, as  *)
(* that of ThreadPool (whose proofs are in ThreadPoolProofs).  UdpServer:  *)
(* an address is one connection, and its OnClose comes once and last.      *)
(***************************************************************************)
EXTENDS MCThreads, FiniteSetTheorems, SequenceTheorems, TLAPS

-----------------------------------------------------------------------------
(* What m_nActive counts.                                                  *)

(* A pair is a lock when its number is one the thread has reached.         *)
LEMMA LocksOfFact ==
  ASSUME NEW held \in [Threads -> Nat]
  PROVE  /\ LocksOf(held) \subseteq Threads \X Int
         /\ \A t \in Threads, i \in Int :
              <<t, i>> \in LocksOf(held) <=> 1 <= i /\ i <= held[t]
<1>1. \A l : l \in LocksOf(held) <=> \E t \in Threads : l \in {t} \X (1 .. held[t])
  BY DEF LocksOf
<1>2. \A t \in Threads : 1 .. held[t] \subseteq Int
  OBVIOUS
<1>3. \A t, s \in Threads, i \in Int : <<s, i>> \in {t} \X (1 .. held[t])
                                      <=> s = t /\ 1 <= i /\ i <= held[t]
  OBVIOUS
<1> QED BY <1>1, <1>2, <1>3

(* A lock more.                                                            *)
LEMMA OneMore ==
  ASSUME NEW held \in [Threads -> Nat], IsFiniteSet(LocksOf(held)), NEW t \in Threads
  PROVE  LET more == LocksOf([held EXCEPT ![t] = @ + 1]) IN
         /\ IsFiniteSet(more)
         /\ Cardinality(more) = Cardinality(LocksOf(held)) + 1
<1> DEFINE after == [held EXCEPT ![t] = @ + 1]
           new   == <<t, held[t] + 1>>
<1>1. after \in [Threads -> Nat]
  OBVIOUS
<1>2. new \notin LocksOf(held) /\ new \in Threads \X Int
  BY LocksOfFact
<1>3. \A s \in Threads, i \in Int :
        1 <= i /\ i <= after[s] <=> (1 <= i /\ i <= held[s]) \/ (s = t /\ i = held[t] + 1)
  OBVIOUS
<1> HIDE DEF after
<1>4. \A s \in Threads, i \in Int :
        <<s, i>> \in LocksOf(after) <=> <<s, i>> \in LocksOf(held) \/ <<s, i>> = new
  BY <1>1, <1>3, LocksOfFact
<1>5. LocksOf(after) \subseteq Threads \X Int /\ LocksOf(held) \subseteq Threads \X Int
  BY <1>1, LocksOfFact
<1>6. LocksOf(after) = LocksOf(held) \cup {new}
  BY <1>2, <1>4, <1>5
<1>7. /\ IsFiniteSet(LocksOf(after))
      /\ Cardinality(LocksOf(after)) = Cardinality(LocksOf(held)) + 1
  BY <1>2, <1>6, FS_AddElement
<1> QED BY <1>7 DEF after

(* A lock less.                                                            *)
LEMMA OneLess ==
  ASSUME NEW held \in [Threads -> Nat], IsFiniteSet(LocksOf(held)), NEW t \in Threads,
         held[t] > 0
  PROVE  LET less == LocksOf([held EXCEPT ![t] = @ - 1]) IN
         /\ IsFiniteSet(less)
         /\ Cardinality(less) = Cardinality(LocksOf(held)) - 1
<1> DEFINE after == [held EXCEPT ![t] = @ - 1]
           old   == <<t, held[t]>>
<1>1. after \in [Threads -> Nat]
  OBVIOUS
<1>2. old \in LocksOf(held)
  BY LocksOfFact
<1>3. \A s \in Threads, i \in Int :
        1 <= i /\ i <= after[s] <=> (1 <= i /\ i <= held[s]) /\ ~(s = t /\ i = held[t])
  OBVIOUS
<1> HIDE DEF after
<1>4. \A s \in Threads, i \in Int :
        <<s, i>> \in LocksOf(after) <=> <<s, i>> \in LocksOf(held) /\ <<s, i>> # old
  BY <1>1, <1>3, LocksOfFact
<1>5. LocksOf(after) \subseteq Threads \X Int /\ LocksOf(held) \subseteq Threads \X Int
  BY <1>1, LocksOfFact
<1>6. LocksOf(after) = LocksOf(held) \ {old}
  BY <1>2, <1>4, <1>5
<1>7. /\ IsFiniteSet(LocksOf(after))
      /\ Cardinality(LocksOf(after)) = Cardinality(LocksOf(held)) - 1
  BY <1>2, <1>6, FS_RemoveElement
<1> QED BY <1>7 DEF after

(* With no lock counted, no thread holds one, and conversely.              *)
LEMMA NoLocks ==
  ASSUME NEW held \in [Threads -> Nat]
  PROVE  /\ IsFiniteSet(LocksOf(held)) /\ Cardinality(LocksOf(held)) = 0
              => \A t \in Threads : held[t] = 0
         /\ (\A t \in Threads : held[t] = 0)
              => IsFiniteSet(LocksOf(held)) /\ Cardinality(LocksOf(held)) = 0
<1>1. ASSUME NEW t \in Threads, held[t] # 0 PROVE <<t, 1>> \in LocksOf(held)
  BY <1>1, LocksOfFact
<1>2. ASSUME \A t \in Threads : held[t] = 0 PROVE LocksOf(held) = {}
  BY <1>2, LocksOfFact
<1> QED BY <1>1, <1>2, FS_EmptySet

-----------------------------------------------------------------------------
(* What m_nWaitingReaders and m_nWaitingWriters count.                     *)

(* A thread that goes on waiting, or one that is woken, is counted as      *)
(* before.                                                                 *)
LEMMA StillWaiting ==
  ASSUME TypeOK, WaitersCounted, UNCHANGED <<waitingReaders, waitingWriters>>,
         \A t \in Threads :
           /\ pc'[t] \in {"cvRead", "readWoken"} <=> pc[t] \in {"cvRead", "readWoken"}
           /\ pc'[t] \in {"cvWrite", "writeWoken"} <=> pc[t] \in {"cvWrite", "writeWoken"}
  PROVE  WaitersCounted'
<1>1. WaitingToRead' = WaitingToRead /\ WaitingToWrite' = WaitingToWrite
  BY DEF WaitingToRead, WaitingToWrite, Blocked
<1> QED BY <1>1 DEF WaitersCounted

(* A thread that begins to wait is counted; one that ends is not.          *)
LEMMA WaitChange ==
  ASSUME TypeOK, WaitersCounted, NEW t \in Threads,
         NEW p, pc' = [pc EXCEPT ![t] = p],
         \/ /\ pc[t] = "run" /\ p = "cvRead"
            /\ waitingReaders' = waitingReaders + 1 /\ UNCHANGED waitingWriters
         \/ /\ pc[t] = "run" /\ p = "cvWrite"
            /\ waitingWriters' = waitingWriters + 1 /\ UNCHANGED waitingReaders
         \/ /\ pc[t] = "readWoken" /\ p = "run"
            /\ waitingReaders' = waitingReaders - 1 /\ UNCHANGED waitingWriters
         \/ /\ pc[t] = "writeWoken" /\ p = "run"
            /\ waitingWriters' = waitingWriters - 1 /\ UNCHANGED waitingReaders
  PROVE  /\ WaitersCounted'
         /\ waitingReaders' \in Nat /\ waitingWriters' \in Nat
<1>1. CASE pc[t] = "run" /\ p = "cvRead"
  <2>1. WaitingToRead' = WaitingToRead \cup {t} /\ t \notin WaitingToRead /\ WaitingToWrite' = WaitingToWrite
    BY <1>1 DEF TypeOK, WaitingToRead, WaitingToWrite, Blocked
  <2>2. waitingReaders' = waitingReaders + 1 /\ waitingWriters' = waitingWriters
    BY <1>1
  <2>3. IsFiniteSet(WaitingToRead') /\ waitingReaders' = Cardinality(WaitingToRead')
    BY <2>1, <2>2, FS_AddElement DEF WaitersCounted
  <2> QED BY <2>1, <2>2, <2>3, FS_CardinalityType DEF WaitersCounted
<1>2. CASE pc[t] = "run" /\ p = "cvWrite"
  <2>1. WaitingToWrite' = WaitingToWrite \cup {t} /\ t \notin WaitingToWrite /\ WaitingToRead' = WaitingToRead
    BY <1>2 DEF TypeOK, WaitingToRead, WaitingToWrite, Blocked
  <2>2. waitingWriters' = waitingWriters + 1 /\ waitingReaders' = waitingReaders
    BY <1>2
  <2>3. IsFiniteSet(WaitingToWrite') /\ waitingWriters' = Cardinality(WaitingToWrite')
    BY <2>1, <2>2, FS_AddElement DEF WaitersCounted
  <2> QED BY <2>1, <2>2, <2>3, FS_CardinalityType DEF WaitersCounted
<1>3. CASE pc[t] = "readWoken" /\ p = "run"
  <2>1. WaitingToRead' = WaitingToRead \ {t} /\ t \in WaitingToRead /\ WaitingToWrite' = WaitingToWrite
    BY <1>3 DEF TypeOK, WaitingToRead, WaitingToWrite, Blocked
  <2>2. waitingReaders' = waitingReaders - 1 /\ waitingWriters' = waitingWriters
    BY <1>3
  <2>3. IsFiniteSet(WaitingToRead') /\ waitingReaders' = Cardinality(WaitingToRead')
    BY <2>1, <2>2, FS_RemoveElement DEF WaitersCounted
  <2> QED BY <2>1, <2>2, <2>3, FS_CardinalityType DEF WaitersCounted
<1>4. CASE pc[t] = "writeWoken" /\ p = "run"
  <2>1. WaitingToWrite' = WaitingToWrite \ {t} /\ t \in WaitingToWrite /\ WaitingToRead' = WaitingToRead
    BY <1>4 DEF TypeOK, WaitingToRead, WaitingToWrite, Blocked
  <2>2. waitingWriters' = waitingWriters - 1 /\ waitingReaders' = waitingReaders
    BY <1>4
  <2>3. IsFiniteSet(WaitingToWrite') /\ waitingWriters' = Cardinality(WaitingToWrite')
    BY <2>1, <2>2, FS_RemoveElement DEF WaitersCounted
  <2> QED BY <2>1, <2>2, <2>3, FS_CardinalityType DEF WaitersCounted
<1> QED BY <1>1, <1>2, <1>3, <1>4

(* A side nobody is counted at has nobody blocked.                         *)
LEMMA NobodyWaits ==
  ASSUME WaitersCounted
  PROVE  /\ waitingReaders = 0 => Blocked("cvRead") = {}
         /\ waitingWriters = 0 => Blocked("cvWrite") = {} 
BY FS_EmptySet DEF WaitersCounted, WaitingToRead, WaitingToWrite

-----------------------------------------------------------------------------
(* The invariant, step by step.                                            *)

(* The invariant holds of a new lock.                                      *)
LEMMA InitIInv == Init => IInv
<1> SUFFICES ASSUME Init PROVE IInv
  OBVIOUS
<1>1. TypeOK
  BY DEF Init, TypeOK
<1>2. WaitingToRead = {} /\ WaitingToWrite = {}
  BY DEF Init, WaitingToRead, WaitingToWrite, Blocked
<1>3. WaitersCounted
  BY <1>2, FS_EmptySet DEF Init, WaitersCounted
<1>4. LocksCounted
  BY <1>1, NoLocks DEF Init, TypeOK, LocksCounted, ReadLocks
<1>5. NoLostWakeup
  BY DEF Init, NoLostWakeup, Blocked
<1> QED BY <1>1, <1>3, <1>4, <1>5 DEF IInv

(* A lock that can be read has no owner.                                   *)
LEMMA FreeHasNoOwner ==
  ASSUME IInv, active >= 0
  PROVE  owner = NoThread /\ active = Cardinality(ReadLocks)
BY DEF IInv, TypeOK, LocksCounted

(* A lock nobody holds has no reader.                                      *)
LEMMA FreeHasNoReader ==
  ASSUME IInv, active = 0
  PROVE  owner = NoThread /\ \A t \in Threads : reads[t] = 0
BY FreeHasNoOwner, NoLocks DEF IInv, TypeOK, LocksCounted, ReadLocks

(* A reader enters, or is counted among those that wait.                   *)
LEMMA WaitToReadIInv ==
  ASSUME IInv, NEW t \in Threads, WaitToRead(t)
  PROVE  IInv'
<1> USE NoThreadAssumption DEF IInv, MayCall, WaitToRead, HoldRead, lock
<1>1. TypeOK'
  BY DEF TypeOK
<1>2. WaitersCounted'
  <2>1. CASE pc' = pc
    BY <2>1, StillWaiting DEF TypeOK
  <2>2. CASE pc' # pc
    BY <2>2, WaitChange
  <2> QED BY <2>1, <2>2
<1>3. LocksCounted'
  <2>1. HoldRead(t) => /\ IsFiniteSet(ReadLocks')
                       /\ Cardinality(ReadLocks') = Cardinality(ReadLocks) + 1
    BY OneMore DEF TypeOK, LocksCounted, ReadLocks
  <2>2. CASE IsOwner(t)
    BY <2>1, <2>2 DEF TypeOK, LocksCounted, IsOwner
  <2>3. CASE ~IsOwner(t) /\ ReadPredicate
    BY <2>1, <2>3, FreeHasNoOwner DEF LocksCounted, ReadPredicate
  <2>4. CASE ~IsOwner(t) /\ ~ReadPredicate
    BY <2>4 DEF LocksCounted, ReadLocks
  <2> QED BY <2>2, <2>3, <2>4
<1>4. NoLostWakeup'
  BY FreeHasNoOwner DEF TypeOK, NoLostWakeup, Blocked, ReadPredicate, IsOwner
<1> QED BY <1>1, <1>2, <1>3, <1>4

(* A woken reader enters, or goes on waiting.                              *)
LEMMA ReadWokenIInv ==
  ASSUME IInv, NEW t \in Threads, ReadWoken(t)
  PROVE  IInv'
<1> USE NoThreadAssumption DEF IInv, ReadWoken, HoldRead
<1>1. WaitersCounted' /\ waitingReaders' \in Nat
  <2>1. CASE ReadPredicate
    BY <2>1, WaitChange
  <2>2. CASE ~ReadPredicate
    BY <2>2, StillWaiting DEF TypeOK
  <2> QED BY <2>1, <2>2
<1>2. TypeOK'
  BY <1>1 DEF TypeOK
<1>3. LocksCounted'
  <2>1. CASE ReadPredicate
    <3>1. IsFiniteSet(ReadLocks') /\ Cardinality(ReadLocks') = Cardinality(ReadLocks) + 1
      BY <2>1, OneMore DEF TypeOK, LocksCounted, ReadLocks
    <3> QED BY <2>1, <3>1, FreeHasNoOwner DEF LocksCounted, ReadPredicate
  <2>2. CASE ~ReadPredicate
    BY <2>2 DEF LocksCounted, ReadLocks
  <2> QED BY <2>1, <2>2
<1>4. NoLostWakeup'
  BY FreeHasNoOwner DEF TypeOK, NoLostWakeup, Blocked, ReadPredicate
<1> QED BY <1>1, <1>2, <1>3, <1>4

(* A writer enters a free lock, or its own again, or is counted among      *)
(* those that wait.                                                        *)
LEMMA WaitToWriteIInv ==
  ASSUME IInv, NEW t \in Threads, WaitToWrite(t)
  PROVE  IInv'
<1> USE NoThreadAssumption DEF IInv, MayCall, WaitToWrite, HoldWrite
<1>1. TypeOK'
  BY DEF TypeOK
<1>2. WaitersCounted'
  <2>1. CASE pc' = pc
    BY <2>1, StillWaiting DEF TypeOK
  <2>2. CASE pc' # pc
    BY <2>2, WaitChange
  <2> QED BY <2>1, <2>2
<1>3. LocksCounted'
  <2> ReadLocks' = ReadLocks
    BY DEF ReadLocks
  <2>1. CASE IsOwner(t)
    BY <2>1 DEF TypeOK, LocksCounted, IsOwner
  <2>2. CASE ~IsOwner(t) /\ WritePredicate
    BY <2>2, FreeHasNoReader DEF TypeOK, LocksCounted, WritePredicate
  <2>3. CASE ~IsOwner(t) /\ ~WritePredicate
    BY <2>3 DEF LocksCounted
  <2> QED BY <2>1, <2>2, <2>3
<1>4. NoLostWakeup'
  BY DEF TypeOK, LocksCounted, NoLostWakeup, Blocked, WritePredicate, IsOwner
<1> QED BY <1>1, <1>2, <1>3, <1>4

(* A woken writer enters, or goes on waiting.                              *)
LEMMA WriteWokenIInv ==
  ASSUME IInv, NEW t \in Threads, WriteWoken(t)
  PROVE  IInv'
<1> USE NoThreadAssumption DEF IInv, WriteWoken, HoldWrite
<1>1. WaitersCounted' /\ waitingWriters' \in Nat
  <2>1. CASE WritePredicate
    BY <2>1, WaitChange
  <2>2. CASE ~WritePredicate
    BY <2>2, StillWaiting DEF TypeOK
  <2> QED BY <2>1, <2>2
<1>2. TypeOK'
  BY <1>1 DEF TypeOK
<1>3. LocksCounted'
  <2> ReadLocks' = ReadLocks
    BY DEF ReadLocks
  <2>1. CASE WritePredicate
    BY <2>1, FreeHasNoReader DEF TypeOK, LocksCounted, WritePredicate
  <2>2. CASE ~WritePredicate
    BY <2>2 DEF LocksCounted
  <2> QED BY <2>1, <2>2
<1>4. NoLostWakeup'
  BY DEF TypeOK, NoLostWakeup, Blocked, WritePredicate
<1> QED BY <1>1, <1>2, <1>3, <1>4

(* The last reader to leave wakes a writer if one is blocked.              *)
LEMMA ReadDoneIInv ==
  ASSUME IInv, NEW t \in Threads, ReadDone(t)
  PROVE  IInv'
<1> USE NoThreadAssumption DEF IInv, ReadDone
<1>1. TypeOK'
  BY DEF TypeOK, WakeOne, Blocked
<1>2. WaitersCounted'
  BY StillWaiting DEF TypeOK, WakeOne, Blocked
<1>3. LocksCounted'
  <2>1. IsFiniteSet(ReadLocks') /\ Cardinality(ReadLocks') = Cardinality(ReadLocks) - 1
    BY OneLess DEF TypeOK, LocksCounted, ReadLocks
  <2>2. CASE IsOwner(t)
    BY <2>1, <2>2 DEF TypeOK, LocksCounted, IsOwner
  <2>3. CASE ~IsOwner(t)
    BY <2>1, <2>3 DEF TypeOK, LocksCounted, IsOwner
  <2> QED BY <2>2, <2>3
<1>4. NoLostWakeup'
  <2>1. CASE IsOwner(t)
    BY <2>1 DEF NoLostWakeup, Blocked
  <2>2. CASE ~IsOwner(t) /\ ~(active = 1 /\ waitingWriters > 0)
    BY <2>2, NobodyWaits DEF TypeOK, NoLostWakeup, Blocked, LocksCounted, IsOwner
  <2>3. CASE ~IsOwner(t) /\ active = 1 /\ waitingWriters > 0
    BY <2>3 DEF TypeOK, NoLostWakeup, Blocked, WakeOne
  <2> QED BY <2>1, <2>2, <2>3
<1> QED BY <1>1, <1>2, <1>3, <1>4

(* A writer that leaves wakes a blocked writer, or every blocked reader.   *)
LEMMA WriteDoneIInv ==
  ASSUME IInv, NEW t \in Threads, WriteDone(t)
  PROVE  IInv'
<1> USE NoThreadAssumption DEF IInv, WriteDone
<1>1. TypeOK'
  BY DEF TypeOK, WakeOne, WakeAll, Blocked
<1>2. WaitersCounted'
  BY StillWaiting DEF TypeOK, WakeOne, WakeAll, Blocked
<1>3. owner = t /\ active = -writes[t]
  BY DEF LocksCounted
<1>4. LocksCounted'
  <2> ReadLocks' = ReadLocks
    BY DEF ReadLocks
  <2>1. CASE active = -1
    <3>1. \A s \in Threads : reads[s] = 0
      BY <1>3, <2>1 DEF TypeOK, LocksCounted
    <3>2. Cardinality(ReadLocks) = 0
      BY <3>1, NoLocks DEF TypeOK, ReadLocks
    <3> QED BY <1>3, <2>1, <3>2 DEF TypeOK, LocksCounted
  <2>2. CASE active # -1
    BY <1>3, <2>2 DEF TypeOK, LocksCounted
  <2> QED BY <2>1, <2>2
<1>5. NoLostWakeup'
  <2>1. CASE active # -1
    BY <1>3, <2>1 DEF TypeOK, NoLostWakeup
  <2>2. CASE active = -1 /\ waitingWriters > 0
    BY <2>2 DEF TypeOK, NoLostWakeup, Blocked, WakeOne
  <2>3. CASE active = -1 /\ ~(waitingWriters > 0) /\ waitingReaders > 0
    BY <2>3, NobodyWaits DEF TypeOK, NoLostWakeup, Blocked, WakeAll
  <2>4. CASE active = -1 /\ ~(waitingWriters > 0) /\ ~(waitingReaders > 0)
    BY <2>4, NobodyWaits DEF TypeOK, NoLostWakeup, Blocked
  <2> QED BY <2>1, <2>2, <2>3, <2>4
<1> QED BY <1>1, <1>2, <1>4, <1>5

(* A spurious wake-up wakes, and counts nobody out.                        *)
LEMMA SpuriousIInv ==
  ASSUME IInv, NEW t \in Threads, Spurious(t)
  PROVE  IInv'
<1> USE DEF IInv, Spurious, lock
<1>1. TypeOK'
  BY DEF TypeOK
<1>2. WaitersCounted'
  BY StillWaiting DEF TypeOK
<1>3. LocksCounted'
  BY DEF LocksCounted, ReadLocks
<1>4. NoLostWakeup'
  BY DEF TypeOK, NoLostWakeup, Blocked
<1> QED BY <1>1, <1>2, <1>3, <1>4

(* The counters count and no wake-up is lost in every reachable state.     *)
THEOREM LockInvariance == Spec => []IInv
<1>1. IInv /\ [Next]_vars => IInv'
  <2> SUFFICES ASSUME IInv, [Next]_vars PROVE IInv'
    OBVIOUS
  <2>1. ASSUME NEW t \in Threads, WaitToRead(t)  PROVE IInv'
    BY <2>1, WaitToReadIInv
  <2>2. ASSUME NEW t \in Threads, ReadWoken(t)   PROVE IInv'
    BY <2>2, ReadWokenIInv
  <2>3. ASSUME NEW t \in Threads, WaitToWrite(t) PROVE IInv'
    BY <2>3, WaitToWriteIInv
  <2>4. ASSUME NEW t \in Threads, WriteWoken(t)  PROVE IInv'
    BY <2>4, WriteWokenIInv
  <2>5. ASSUME NEW t \in Threads, ReadDone(t)    PROVE IInv'
    BY <2>5, ReadDoneIInv
  <2>6. ASSUME NEW t \in Threads, WriteDone(t)   PROVE IInv'
    BY <2>6, WriteDoneIInv
  <2>7. ASSUME NEW t \in Threads, Spurious(t)    PROVE IInv'
    BY <2>7, SpuriousIInv
  <2>8. CASE UNCHANGED vars
    BY <2>8 DEF vars, lock, IInv, TypeOK, WaitersCounted, WaitingToRead, WaitingToWrite,
                LocksCounted, ReadLocks, NoLostWakeup, Blocked
  <2> QED BY <2>1, <2>2, <2>3, <2>4, <2>5, <2>6, <2>7, <2>8 DEF Next
<1> QED BY InitIInv, <1>1, PTL DEF Spec

(* The members of CSEMRWLock keep their types: the counters of waiting     *)
(* threads never pass below zero.                                          *)
THEOREM LockTypeOK == Spec => []TypeOK
<1>1. IInv => TypeOK
  BY DEF IInv
<1> QED BY LockInvariance, <1>1, PTL

(* No wake-up is lost, whatever the number of readers and writers and      *)
(* however deep they nest.                                                 *)
THEOREM LockNoLostWakeup == Spec => []NoLostWakeup
<1>1. IInv => NoLostWakeup
  BY DEF IInv
<1> QED BY LockInvariance, <1>1, PTL

-----------------------------------------------------------------------------
(* CSEMRWLock is the lock ReadWriteLock describes.                         *)

(* A reader that enters finds no other writer.                             *)
LEMMA ReaderEnters ==
  ASSUME IInv, NEW t \in Threads, IsOwner(t) \/ ReadPredicate, HoldRead(t),
         UNCHANGED writes
  PROVE  Abstract!AcquireRead(t)
<1>1. \A s \in Threads \ {t} : writes[s] = 0
  BY FreeHasNoOwner, NoThreadAssumption DEF IInv, LocksCounted, IsOwner, ReadPredicate
<1> QED BY <1>1 DEF HoldRead, Abstract!AcquireRead, Abstract!Others

(* A writer that enters finds nobody else.                                 *)
LEMMA WriterEnters ==
  ASSUME IInv, NEW t \in Threads, IsOwner(t) \/ WritePredicate, HoldWrite(t),
         UNCHANGED reads
  PROVE  Abstract!AcquireWrite(t)
<1>1. \A s \in Threads \ {t} : writes[s] = 0 /\ reads[s] = 0
  BY FreeHasNoReader, NoThreadAssumption DEF IInv, LocksCounted, IsOwner, WritePredicate
<1> QED BY <1>1 DEF HoldWrite, Abstract!AcquireWrite, Abstract!Others

(* Every step is a step of the abstract lock, or none.                     *)
LEMMA LockStep ==
  ASSUME IInv, [Next]_vars
  PROVE  [Abstract!LNext]_<<reads, writes>>
<1> USE DEF Abstract!LNext
<1>1. ASSUME NEW t \in Threads, WaitToRead(t) PROVE [Abstract!LNext]_<<reads, writes>>
  <2>1. CASE IsOwner(t) \/ ReadPredicate
    BY <1>1, <2>1, ReaderEnters DEF WaitToRead
  <2>2. CASE ~(IsOwner(t) \/ ReadPredicate)
    BY <1>1, <2>2 DEF WaitToRead
  <2> QED BY <2>1, <2>2
<1>2. ASSUME NEW t \in Threads, ReadWoken(t) PROVE [Abstract!LNext]_<<reads, writes>>
  <2>1. CASE ReadPredicate
    BY <1>2, <2>1, ReaderEnters DEF ReadWoken
  <2>2. CASE ~ReadPredicate
    BY <1>2, <2>2 DEF ReadWoken
  <2> QED BY <2>1, <2>2
<1>3. ASSUME NEW t \in Threads, WaitToWrite(t) PROVE [Abstract!LNext]_<<reads, writes>>
  <2>1. CASE IsOwner(t) \/ WritePredicate
    BY <1>3, <2>1, WriterEnters DEF WaitToWrite
  <2>2. CASE ~(IsOwner(t) \/ WritePredicate)
    BY <1>3, <2>2 DEF WaitToWrite
  <2> QED BY <2>1, <2>2
<1>4. ASSUME NEW t \in Threads, WriteWoken(t) PROVE [Abstract!LNext]_<<reads, writes>>
  <2>1. CASE WritePredicate
    BY <1>4, <2>1, WriterEnters DEF WriteWoken
  <2>2. CASE ~WritePredicate
    BY <1>4, <2>2 DEF WriteWoken
  <2> QED BY <2>1, <2>2
<1>5. ASSUME NEW t \in Threads, ReadDone(t) PROVE Abstract!ReleaseRead(t)
  BY <1>5 DEF ReadDone, Abstract!ReleaseRead
<1>6. ASSUME NEW t \in Threads, WriteDone(t) PROVE Abstract!ReleaseWrite(t)
  BY <1>6 DEF WriteDone, Abstract!ReleaseWrite
<1>7. ASSUME NEW t \in Threads, Spurious(t) PROVE UNCHANGED <<reads, writes>>
  BY <1>7 DEF Spurious
<1>8. CASE UNCHANGED vars
  BY <1>8 DEF vars
<1> QED BY <1>1, <1>2, <1>3, <1>4, <1>5, <1>6, <1>7, <1>8 DEF Next

(* CSEMRWLock implements ReadWriteLock: any number of readers or one       *)
(* writer, who may lock again, for every number of threads.                *)
THEOREM LockIsReadWriteLock == Spec => IsReadWriteLock
<1>1. Init => Abstract!LInit
  BY DEF Init, Abstract!LInit
<1>2. IInv /\ [Next]_vars => [Abstract!LNext]_<<reads, writes>>
  BY LockStep
<1> QED BY LockInvariance, <1>1, <1>2, PTL DEF Spec, IsReadWriteLock, Abstract!LSpec
(* The dispatcher.  1. Types.                                              *)
DispTypes ==
  /\ pipe \in 0 .. PipeCap /\ exits \in Nat /\ left \in Nat
  /\ reports \subseteq {"cmd", "exit"} /\ stop \in D!StopPc
  /\ dpc \in [D!Senders -> D!Pc] /\ batch \in [Workers -> SUBSET D!Events]
  /\ run \in [Workers -> BOOLEAN] /\ cmd \in [D!Senders -> Cmds \cup {NoCmd}]
  /\ q \in Seq([val : Cmds, linked : BOOLEAN]) /\ size \in Int
  /\ owe \subseteq D!Senders /\ got \in [D!Senders -> Cmds \cup {NoCmd}]
  /\ unsent \subseteq Cmds /\ handled \subseteq Cmds /\ lost \subseteq Cmds

(* 2. Bytes: every report has its own, and Stop() writes no more than      *)
(* there are workers.                                                      *)
DispBytes ==
  /\ D!ByteForEvent
  /\ exits + left <= Cardinality(Workers)
  /\ stop = "running" => exits = 0 /\ left = 0

(* 3. Calls: what a thread has in its hands, where it is in its call.      *)
Sending(t) == dpc[t] \in D!SendSteps
Popping(t) == dpc[t] \in {"count_down", "handle"}
DispCalls ==
  /\ \A t \in D!Senders :
       /\ cmd[t] # NoCmd <=> Sending(t) \/ Popping(t)
       /\ t \in owe <=> dpc[t] \in {"link", "count_up"}
       /\ got[t] # NoCmd <=> dpc[t] = "count_down"
       /\ dpc[t] = "link" => \E i \in 1 .. Len(q) : q[i].val = cmd[t] /\ ~q[i].linked
  /\ \A s, t \in D!Senders : Sending(s) /\ Sending(t) /\ cmd[s] = cmd[t] => s = t
  /\ \A i \in 1 .. Len(q) :
       ~q[i].linked => \E t \in D!Senders : dpc[t] = "link" /\ cmd[t] = q[i].val

(* 4. The places of a command.                                             *)
Made(c)   == \E t \in D!Senders : dpc[t] = "push" /\ cmd[t] = c
InQ(c)    == \E i \in 1 .. Len(q) : q[i].val = c
Popped(c) == \E t \in D!Senders : Popping(t) /\ cmd[t] = c
Done(c)   == c \in handled \cup lost
DispApart ==
  /\ \A i, j \in 1 .. Len(q) : q[i].val = q[j].val => i = j
  /\ \A s, t \in D!Senders : Popping(s) /\ Popping(t) /\ cmd[s] = cmd[t] => s = t
  /\ handled \cap lost = {}
DispPlaced ==
  \A c \in Cmds :
    /\ c \in unsent => ~InQ(c) /\ ~Popped(c) /\ ~Done(c) /\ \A t \in D!Senders : Sending(t) => cmd[t] # c
    /\ Made(c) => ~InQ(c) /\ ~Popped(c) /\ ~Done(c)
    /\ InQ(c) => ~Popped(c) /\ ~Done(c)
    /\ Popped(c) => ~Done(c)
    /\ c \in unsent \/ Made(c) \/ InQ(c) \/ Popped(c) \/ Done(c)

(* 5. m_iSize.                                                             *)
Uncounting == {t \in D!Senders : dpc[t] = "count_down"}
DispCounted == size = Len(q) - Cardinality(owe) + Cardinality(Uncounting)

(* 6. Stop().                                                              *)
DispStages ==
  /\ stop # "running" => \A a \in Apps : dpc[a] = "idle"
  /\ stop \in {"drain", "stopped"} => \A w \in Workers : dpc[w] = "exited"
  /\ stop = "stopped" => q = <<>> /\ size = 0

DispInv == /\ DispTypes /\ DispBytes /\ DispCalls /\ DispApart /\ DispPlaced
           /\ DispCounted /\ DispStages

-----------------------------------------------------------------------------

(* The threads are finitely many, and the modules count alike.             *)
LEMMA ThreadsFinite ==
  /\ IsFiniteSet(Workers) /\ Cardinality(Workers) \in Nat
  /\ IsFiniteSet(D!Senders) /\ Cardinality(D!Senders) \in Nat
  /\ Workers \subseteq D!Senders /\ Apps \subseteq D!Senders
  /\ \A S : D!Cardinality(S) = Cardinality(S)
<1>1. IsFiniteSet(Workers) /\ IsFiniteSet(D!Senders)
  BY CmdsAssumption, FS_Subset DEF D!Senders
<1>2. \A S : D!Cardinality(S) = Cardinality(S)
  BY DEF D!Cardinality, Cardinality
<1> QED BY <1>1, <1>2, FS_CardinalityType DEF D!Senders

(* A thread goes on.                                                       *)
LEMMA DispGoes ==
  ASSUME DispTypes, NEW t \in D!Senders, NEW p \in D!Pc, D!Goto(t, p)
  PROVE  /\ dpc' \in [D!Senders -> D!Pc] /\ dpc'[t] = p
         /\ \A s \in D!Senders : s # t => dpc'[s] = dpc[s]
BY DEF DispTypes, D!Goto

(* The workers that were told of a pipe and have not looked at it.         *)
Hear(e) == {w \in Workers : e \in batch[w]}
LEMMA HearFinite ==
  ASSUME NEW e
  PROVE  /\ IsFiniteSet(Hear(e)) /\ Cardinality(Hear(e)) \in Nat
         /\ IsFiniteSet(Hear(e)') /\ Cardinality(Hear(e)') \in Nat
         /\ D!Told(e) = Cardinality(Hear(e)) + (IF e \in reports THEN 1 ELSE 0)
         /\ D!Told(e)' = Cardinality(Hear(e)') + (IF e \in reports' THEN 1 ELSE 0)
<1>1. IsFiniteSet(Hear(e)) /\ IsFiniteSet(Hear(e)')
  BY ThreadsFinite, FS_Subset DEF Hear
<1>2. Cardinality(Hear(e)) \in Nat /\ Cardinality(Hear(e)') \in Nat
  BY <1>1, FS_CardinalityType
<1>3. D!Told(e) = Cardinality(Hear(e)) + (IF e \in reports THEN 1 ELSE 0)
  BY ThreadsFinite DEF Hear, D!Told
<1>4. D!Told(e)' = Cardinality(Hear(e)') + (IF e \in reports' THEN 1 ELSE 0)
  BY ThreadsFinite DEF Hear, D!Told
<1> QED BY <1>1, <1>2, <1>3, <1>4

(* A step that leaves the pipes alone.                                     *)
LEMMA BytesStay ==
  ASSUME DispBytes, UNCHANGED <<batch, reports, pipe, exits, left>>,
         stop' = stop \/ stop' # "running"
  PROVE  DispBytes'
BY DEF DispBytes, D!ByteForEvent, D!Told

(* A worker fetches the reports, so that nobody else is told.              *)
LEMMA WaitBytes ==
  ASSUME DispTypes, DispBytes, NEW w \in Workers, D!Wait(w)
  PROVE  DispBytes'
<1>1. /\ reports' = {} /\ UNCHANGED <<pipe, exits, stop, left>>
      /\ batch' \in [Workers -> SUBSET D!Events]
      /\ \A v \in Workers : v # w => batch'[v] = batch[v]
      /\ \A e \in {"cmd", "exit"} : e \in batch'[w] => e \in reports
  BY DEF D!Wait, DispTypes, D!Events
<1>2. ASSUME NEW e \in {"cmd", "exit"} PROVE D!Told(e)' <= D!Told(e)
  <2>1. CASE e \in reports
    <3>1. Hear(e)' \subseteq Hear(e) \cup {w}
      BY <1>1 DEF Hear
    <3>2. IsFiniteSet(Hear(e) \cup {w}) /\ Cardinality(Hear(e) \cup {w}) <= Cardinality(Hear(e)) + 1
      <4>1. IsFiniteSet(Hear(e)) /\ Cardinality(Hear(e)) \in Nat
        BY HearFinite
      <4>2. Cardinality(Hear(e) \cup {w}) \in {Cardinality(Hear(e)), Cardinality(Hear(e)) + 1}
        BY <4>1, FS_AddElement
      <4>3. IsFiniteSet(Hear(e) \cup {w})
        BY <4>1, FS_AddElement
      <4> QED BY <4>1, <4>2, <4>3
    <3>3. Cardinality(Hear(e)') <= Cardinality(Hear(e) \cup {w})
      BY <3>1, <3>2, FS_Subset
    <3>4. Cardinality(Hear(e) \cup {w}) \in Nat
      BY <3>2, FS_CardinalityType
    <3> QED BY <1>1, <2>1, <3>2, <3>3, <3>4, HearFinite
  <2>2. CASE e \notin reports
    <3>1. Hear(e)' \subseteq Hear(e)
      BY <1>1, <2>2 DEF Hear
    <3>2. Cardinality(Hear(e)') <= Cardinality(Hear(e))
      BY <3>1, HearFinite, FS_Subset
    <3> QED BY <1>1, <2>2, <3>2, HearFinite
  <2> QED BY <2>1, <2>2
<1>3. /\ D!Told("cmd") \in Nat /\ D!Told("cmd")' \in Nat
      /\ D!Told("exit") \in Nat /\ D!Told("exit")' \in Nat
  BY HearFinite
<1>4. pipe \in Nat /\ exits \in Nat
  BY CmdsAssumption DEF DispTypes
<1> QED BY <1>1, <1>2, <1>3, <1>4 DEF DispBytes, D!ByteForEvent

(* A worker looks at a pipe that it was told of: there is a byte.          *)
LEMMA LookBytes ==
  ASSUME DispTypes, DispBytes, NEW w \in Workers, NEW e \in {"cmd", "exit"}, e \in batch[w],
         batch' = [batch EXCEPT ![w] = @ \ {e}], UNCHANGED reports
  PROVE  /\ D!Told(e) > 0 /\ D!Told(e)' = D!Told(e) - 1 /\ D!Told(e) \in Nat
         /\ \A f : f # e => D!Told(f)' = D!Told(f)
<1>1. Hear(e)' = Hear(e) \ {w} /\ w \in Hear(e)
  BY DEF DispTypes, Hear
<1>2. Cardinality(Hear(e)') = Cardinality(Hear(e)) - 1
  BY <1>1, HearFinite, FS_RemoveElement
<1>3. D!Told(e) > 0 /\ D!Told(e)' = D!Told(e) - 1 /\ D!Told(e) \in Nat
  BY <1>2, HearFinite
<1>4. ASSUME NEW f, f # e PROVE D!Told(f)' = D!Told(f)
  <2>1. Hear(f)' = Hear(f)
    BY <1>4 DEF DispTypes, Hear
  <2> QED BY <2>1, HearFinite
<1> QED BY <1>3, <1>4

LEMMA ReadByteBytes ==
  ASSUME DispTypes, DispBytes, NEW w \in Workers, D!ReadByte(w)
  PROVE  DispBytes' /\ pipe > 0 /\ pipe' = pipe - 1 /\ D!Goto(w, "pop")
<1>1. /\ "cmd" \in batch[w] /\ batch' = [batch EXCEPT ![w] = @ \ {"cmd"}]
      /\ UNCHANGED <<reports, exits, stop, left>>
  BY DEF D!ReadByte
<1>2. /\ D!Told("cmd") > 0 /\ D!Told("cmd")' = D!Told("cmd") - 1 /\ D!Told("cmd") \in Nat
      /\ D!Told("exit")' = D!Told("exit")
  BY <1>1, LookBytes
<1>3. pipe \in Nat /\ D!Told("cmd") <= pipe
  BY CmdsAssumption DEF DispTypes, DispBytes, D!ByteForEvent
<1>4. pipe > 0
  BY <1>2, <1>3
<1>5. pipe' = pipe - 1 /\ D!Goto(w, "pop")
  BY <1>4 DEF D!ReadByte
<1> QED BY <1>1, <1>2, <1>3, <1>4, <1>5 DEF DispBytes, D!ByteForEvent

LEMMA ReadExitBytes ==
  ASSUME DispTypes, DispBytes, NEW w \in Workers, D!ReadExit(w)
  PROVE  DispBytes' /\ exits' \in Nat
<1>1. /\ "exit" \in batch[w] /\ batch' = [batch EXCEPT ![w] = @ \ {"exit"}]
      /\ UNCHANGED <<reports, pipe, stop, left>>
  BY DEF D!ReadExit
<1>2. /\ D!Told("exit") > 0 /\ D!Told("exit")' = D!Told("exit") - 1 /\ D!Told("exit") \in Nat
      /\ D!Told("cmd")' = D!Told("cmd")
  BY <1>1, LookBytes
<1>3. exits \in Nat /\ left \in Nat /\ D!Told("exit") <= exits /\ exits + left <= Cardinality(Workers)
  BY DEF DispTypes, DispBytes, D!ByteForEvent
<1>4. exits > 0
  BY <1>2, <1>3
<1>5. exits' = exits - 1
  BY <1>4 DEF D!ReadExit
<1>6. exits' + left' <= Cardinality(Workers)
  BY <1>1, <1>3, <1>5, ThreadsFinite
<1> QED BY <1>1, <1>2, <1>3, <1>4, <1>5, <1>6 DEF DispBytes, D!ByteForEvent

(* A byte is written, with a report of it.                                 *)
LEMMA WriteBytes ==
  ASSUME DispTypes, DispBytes, NEW e \in {"cmd", "exit"}, reports' = reports \cup {e},
         UNCHANGED batch
  PROVE  /\ D!Told(e)' <= D!Told(e) + 1 /\ D!Told(e) \in Nat /\ D!Told(e)' \in Nat
         /\ \A f \in {"cmd", "exit"} : f # e => D!Told(f)' = D!Told(f)
<1>1. \A f : Hear(f)' = Hear(f)
  BY DEF Hear
<1> QED BY <1>1, HearFinite

LEMMA WriteByteBytes ==
  ASSUME DispTypes, DispBytes, NEW t \in D!Senders, D!WriteByte(t)
  PROVE  DispBytes' /\ pipe' \in 0 .. PipeCap
<1>1. /\ reports' = reports \cup {"cmd"} /\ pipe < PipeCap /\ pipe' = pipe + 1
      /\ UNCHANGED <<batch, exits, stop, left>>
  BY DEF D!WriteByte
<1>2. /\ D!Told("cmd")' <= D!Told("cmd") + 1 /\ D!Told("cmd") \in Nat /\ D!Told("cmd")' \in Nat
      /\ D!Told("exit")' = D!Told("exit")
  BY <1>1, WriteBytes
<1>3. pipe \in Nat
  BY CmdsAssumption DEF DispTypes
<1> QED BY <1>1, <1>2, <1>3, CmdsAssumption DEF DispBytes, D!ByteForEvent

LEMMA SetExitBytes ==
  ASSUME DispTypes, DispBytes, D!SetExit
  PROVE  DispBytes'
<1>1. /\ reports' = reports \cup {"exit"} /\ exits' = exits + 1 /\ left' = left - 1 /\ left > 0
      /\ stop' # "running" /\ UNCHANGED <<batch, pipe>>
  BY DEF D!SetExit
<1>2. /\ D!Told("exit")' <= D!Told("exit") + 1 /\ D!Told("exit") \in Nat /\ D!Told("exit")' \in Nat
      /\ D!Told("cmd")' = D!Told("cmd")
  BY <1>1, WriteBytes
<1>3. exits \in Nat /\ left \in Nat
  BY DEF DispTypes
<1> QED BY <1>1, <1>2, <1>3, ThreadsFinite DEF DispBytes, D!ByteForEvent

-----------------------------------------------------------------------------
(* Where the commands are.                                                 *)
DispQueue == DispCalls /\ DispApart /\ DispPlaced /\ DispCounted

(* A step of a thread that has no command, or none any more.               *)
LEMMA QuietQueue ==
  ASSUME DispQueue, NEW t \in D!Senders, ~Sending(t), ~Popping(t), ~Sending(t)', ~Popping(t)',
         \A s \in D!Senders : s # t => dpc'[s] = dpc[s],
         UNCHANGED <<q, size, owe, got, cmd, unsent, handled, lost>>
  PROVE  DispQueue'
<1>1. \A s \in D!Senders : (Sending(s)' <=> Sending(s)) /\ (Popping(s)' <=> Popping(s))
  BY DEF Sending, Popping
<1>2. \A s \in D!Senders : \A p \in {"push", "link", "count_up", "count_down"} :
        dpc'[s] = p <=> dpc[s] = p
  BY DEF Sending, Popping, D!SendSteps
<1>3. DispCalls'
  BY <1>1, <1>2 DEF DispQueue, DispCalls
<1>4. DispApart'
  BY <1>1 DEF DispQueue, DispApart
<1>5. \A c \in Cmds : /\ Made(c)' <=> Made(c)
                      /\ InQ(c)' <=> InQ(c)
                      /\ Popped(c)' <=> Popped(c)
                      /\ Done(c)' <=> Done(c)
  BY <1>1, <1>2 DEF Made, InQ, Popped, Done
<1>6. DispPlaced'
  BY <1>1, <1>5 DEF DispQueue, DispPlaced
<1>7. Uncounting' = Uncounting
  BY <1>2 DEF Uncounting
<1>8. DispCounted'
  BY <1>7 DEF DispQueue, DispCounted
<1> QED BY <1>3, <1>4, <1>6, <1>8 DEF DispQueue

(* The queue is a sequence of commands.                                    *)
LEMMA QueueIs ==
  ASSUME DispTypes
  PROVE  /\ q \in Seq([val : Cmds, linked : BOOLEAN]) /\ Len(q) \in Nat
         /\ \A i \in 1 .. Len(q) : q[i] \in [val : Cmds, linked : BOOLEAN]
<1> DEFINE Elem == [val : Cmds, linked : BOOLEAN]
<1>1. q \in Seq(Elem)
  BY DEF DispTypes
<1> HIDE DEF Elem
<1>2. Len(q) \in Nat /\ \A i \in 1 .. Len(q) : q[i] \in Elem
  BY <1>1, ElementOfSeq, LenProperties
<1> QED BY <1>1, <1>2 DEF Elem

(* SendCommand() constructs a command.                                     *)
LEMMA ConstructQueue ==
  ASSUME DispTypes, DispQueue, NEW t \in D!Senders, D!Construct(t), ~Sending(t), ~Popping(t),
         UNCHANGED <<q, size, owe, got, handled, lost>>
  PROVE  /\ DispQueue' /\ dpc' \in [D!Senders -> D!Pc] /\ unsent' \subseteq Cmds
         /\ cmd' \in [D!Senders -> Cmds \cup {NoCmd}]
         /\ \A s \in D!Senders : s # t => dpc'[s] = dpc[s]
<1>1. PICK c \in unsent : cmd' = [cmd EXCEPT ![t] = c] /\ unsent' = unsent \ {c}
  BY DEF D!Construct
<1>2. /\ dpc' \in [D!Senders -> D!Pc] /\ dpc'[t] = "push"
      /\ \A s \in D!Senders : s # t => dpc'[s] = dpc[s]
  BY DispGoes DEF D!Construct, D!Pc, D!SendSteps
<1>3. /\ c \in Cmds /\ c # NoCmd /\ cmd'[t] = c /\ \A s \in D!Senders : s # t => cmd'[s] = cmd[s]
      /\ unsent' \subseteq Cmds /\ cmd' \in [D!Senders -> Cmds \cup {NoCmd}]
  BY <1>1, CmdsAssumption DEF DispTypes
<1>4. /\ ~InQ(c) /\ ~Popped(c) /\ ~Done(c) /\ ~Made(c)
      /\ \A s \in D!Senders : Sending(s) => cmd[s] # c
  BY <1>1, <1>3 DEF DispQueue, DispPlaced, Made, Sending, D!SendSteps
<1>5. /\ Sending(t)' /\ ~Popping(t)'
      /\ \A s \in D!Senders : s # t => (Sending(s)' <=> Sending(s)) /\ (Popping(s)' <=> Popping(s))
  BY <1>2 DEF Sending, Popping, D!SendSteps
<1>6. DispCalls'
  <2>1. \A s \in D!Senders :
          /\ cmd'[s] # NoCmd <=> Sending(s)' \/ Popping(s)'
          /\ s \in owe' <=> dpc'[s] \in {"link", "count_up"}
          /\ got'[s] # NoCmd <=> dpc'[s] = "count_down"
          /\ dpc'[s] = "link" => \E i \in 1 .. Len(q') : q'[i].val = cmd'[s] /\ ~q'[i].linked
    <3>1. t \notin owe /\ got[t] = NoCmd
      BY DEF DispQueue, DispCalls, Sending, Popping, D!SendSteps
    <3> QED BY <1>2, <1>3, <1>5, <3>1 DEF DispQueue, DispCalls
  <2>2. \A r, s \in D!Senders : Sending(r)' /\ Sending(s)' /\ cmd'[r] = cmd'[s] => r = s
    BY <1>3, <1>4, <1>5 DEF DispQueue, DispCalls
  <2>3. \A i \in 1 .. Len(q') :
          ~q'[i].linked => \E s \in D!Senders : dpc'[s] = "link" /\ cmd'[s] = q'[i].val
    <3>1. dpc[t] # "link"
      BY DEF Sending, D!SendSteps
    <3> QED BY <1>2, <1>3, <3>1 DEF DispQueue, DispCalls
  <2> QED BY <2>1, <2>2, <2>3 DEF DispCalls
<1>7. DispApart'
  BY <1>3, <1>5 DEF DispQueue, DispApart
<1>8. \A d \in Cmds : /\ Made(d)' <=> Made(d) \/ d = c
                      /\ InQ(d)' <=> InQ(d)
                      /\ Popped(d)' <=> Popped(d)
                      /\ Done(d)' <=> Done(d)
  <2>1. dpc[t] # "push"
    BY DEF Sending, D!SendSteps
  <2>2. \A d \in Cmds : Made(d)' <=> Made(d) \/ d = c
    BY <1>2, <1>3, <2>1 DEF Made
  <2>3. \A d \in Cmds : Popped(d)' <=> Popped(d)
    BY <1>3, <1>5 DEF Popped
  <2> QED BY <2>2, <2>3 DEF InQ, Done
<1>9. DispPlaced'
  BY <1>1, <1>3, <1>4, <1>5, <1>8 DEF DispQueue, DispPlaced
<1>10. Uncounting' = Uncounting
  BY <1>2 DEF Uncounting, Popping
<1>11. DispCounted'
  BY <1>10 DEF DispQueue, DispCounted
<1> QED BY <1>2, <1>3, <1>6, <1>7, <1>9, <1>11 DEF DispQueue

LEMMA PushQueue ==
  ASSUME DispTypes, DispQueue, NEW t \in D!Senders, D!Push(t)
  PROVE  /\ DispQueue' /\ q' \in Seq([val : Cmds, linked : BOOLEAN]) /\ owe' \subseteq D!Senders
<1>1. /\ dpc[t] = "push" /\ q' = Append(q, [val |-> cmd[t], linked |-> FALSE])
      /\ owe' = owe \cup {t} /\ t \notin owe /\ UNCHANGED <<size, got, cmd, unsent, handled, lost>>
  BY DEF D!Push, D!Queue!Enqueue, D!At, D!ghost
<1>2. /\ dpc' \in [D!Senders -> D!Pc] /\ dpc'[t] = "link"
      /\ \A s \in D!Senders : s # t => dpc'[s] = dpc[s]
  BY DispGoes DEF D!Push, D!Pc, D!SendSteps
<1>3. cmd[t] \in Cmds /\ cmd[t] # NoCmd
  BY <1>1 DEF DispQueue, DispCalls, DispTypes, Sending, D!SendSteps
<1>4. [val |-> cmd[t], linked |-> FALSE] \in [val : Cmds, linked : BOOLEAN]
  BY <1>3
<1>5. /\ q' \in Seq([val : Cmds, linked : BOOLEAN]) /\ Len(q) \in Nat /\ Len(q') = Len(q) + 1
      /\ \A i \in 1 .. Len(q) : q'[i] = q[i]
      /\ q'[Len(q) + 1] = [val |-> cmd[t], linked |-> FALSE]
  BY <1>1, <1>4, QueueIs, AppendProperties
<1>6. Made(cmd[t]) /\ ~InQ(cmd[t]) /\ ~Popped(cmd[t]) /\ ~Done(cmd[t])
  BY <1>1, <1>3 DEF DispQueue, DispPlaced, Made
<1>7. \A s \in D!Senders : (Sending(s)' <=> Sending(s)) /\ (Popping(s)' <=> Popping(s))
  BY <1>1, <1>2 DEF Sending, Popping, D!SendSteps
<1>8. Sending(t)
  BY <1>1 DEF Sending, D!SendSteps
<1>9. DispCalls'
  <2>1. \A s \in D!Senders :
          /\ cmd'[s] # NoCmd <=> Sending(s)' \/ Popping(s)'
          /\ s \in owe' <=> dpc'[s] \in {"link", "count_up"}
          /\ got'[s] # NoCmd <=> dpc'[s] = "count_down"
    BY <1>1, <1>2, <1>7 DEF DispQueue, DispCalls
  <2>2. ASSUME NEW s \in D!Senders, dpc'[s] = "link"
        PROVE  \E i \in 1 .. Len(q') : q'[i].val = cmd'[s] /\ ~q'[i].linked
    <3>1. CASE s = t
      <4>1. q'[Len(q) + 1].val = cmd'[s] /\ ~q'[Len(q) + 1].linked
        BY <1>1, <1>5, <3>1
      <4>2. Len(q) + 1 \in 1 .. Len(q')
        BY <1>5
      <4> QED BY <4>1, <4>2
    <3>2. CASE s # t
      <4>1. PICK i \in 1 .. Len(q) : q[i].val = cmd[s] /\ ~q[i].linked
        BY <1>2, <2>2, <3>2 DEF DispQueue, DispCalls
      <4>2. i \in 1 .. Len(q') /\ q'[i] = q[i]
        BY <1>5
      <4> QED BY <1>1, <4>1, <4>2
    <3> QED BY <3>1, <3>2
  <2>3. \A r, s \in D!Senders : Sending(r)' /\ Sending(s)' /\ cmd'[r] = cmd'[s] => r = s
    BY <1>1, <1>7 DEF DispQueue, DispCalls
  <2>4. ASSUME NEW i \in 1 .. Len(q'), ~q'[i].linked
        PROVE  \E s \in D!Senders : dpc'[s] = "link" /\ cmd'[s] = q'[i].val
    <3>1. CASE i \in 1 .. Len(q)
      <4>1. PICK s \in D!Senders : dpc[s] = "link" /\ cmd[s] = q[i].val
        BY <1>5, <2>4, <3>1 DEF DispQueue, DispCalls
      <4>2. s # t
        BY <1>1, <4>1
      <4> QED BY <1>1, <1>2, <1>5, <3>1, <4>1, <4>2
    <3>2. CASE i = Len(q) + 1
      BY <1>1, <1>2, <1>5, <3>2
    <3> QED BY <1>5, <3>1, <3>2
  <2> QED BY <2>1, <2>2, <2>3, <2>4 DEF DispCalls
<1>10. \A i \in 1 .. Len(q) : q[i].val # cmd[t]
  BY <1>6 DEF InQ
<1>11. \A i \in 1 .. Len(q') : i \in 1 .. Len(q) \/ i = Len(q) + 1
  BY <1>5
<1>12. DispApart'
  <2>1. ASSUME NEW i \in 1 .. Len(q'), NEW j \in 1 .. Len(q'), q'[i].val = q'[j].val PROVE i = j
    BY <1>5, <1>10, <1>11, <2>1 DEF DispQueue, DispApart
  <2>2. \A r, s \in D!Senders : Popping(r)' /\ Popping(s)' /\ cmd'[r] = cmd'[s] => r = s
    BY <1>1, <1>7 DEF DispQueue, DispApart
  <2> QED BY <1>1, <2>1, <2>2 DEF DispQueue, DispApart
<1>13. \A d \in Cmds : /\ Made(d)' <=> Made(d) /\ d # cmd[t]
                       /\ InQ(d)' <=> InQ(d) \/ d = cmd[t]
                       /\ Popped(d)' <=> Popped(d)
                       /\ Done(d)' <=> Done(d)
  <2>1. ASSUME NEW d \in Cmds PROVE Made(d)' <=> Made(d) /\ d # cmd[t]
    <3>1. ASSUME NEW s \in D!Senders, dpc[s] = "push", cmd[s] = cmd[t] PROVE s = t
      BY <1>8, <3>1 DEF DispQueue, DispCalls, Sending, D!SendSteps
    <3> QED BY <1>1, <1>2, <3>1 DEF Made
  <2>2. ASSUME NEW d \in Cmds PROVE InQ(d)' <=> InQ(d) \/ d = cmd[t]
    <3>1. InQ(d) => InQ(d)'
      BY <1>5 DEF InQ
    <3>2. d = cmd[t] => InQ(d)'
      <4>1. Len(q) + 1 \in 1 .. Len(q')
        BY <1>5
      <4> QED BY <1>5, <4>1 DEF InQ
    <3>3. InQ(d)' => InQ(d) \/ d = cmd[t]
      BY <1>5, <1>11 DEF InQ
    <3> QED BY <3>1, <3>2, <3>3
  <2>3. \A d \in Cmds : Popped(d)' <=> Popped(d)
    BY <1>1, <1>7 DEF Popped
  <2> QED BY <1>1, <2>1, <2>2, <2>3 DEF Done
<1>14. DispPlaced'
  <2>1. cmd[t] \notin unsent
    BY <1>3, <1>8 DEF DispQueue, DispPlaced
  <2> QED BY <1>1, <1>3, <1>6, <1>7, <1>13, <2>1 DEF DispQueue, DispPlaced
<1>15. DispCounted'
  <2>1. Uncounting' = Uncounting
    BY <1>1, <1>2 DEF Uncounting
  <2>2. IsFiniteSet(owe) /\ Cardinality(owe') = Cardinality(owe) + 1
    BY <1>1, ThreadsFinite, FS_Subset, FS_AddElement DEF DispTypes
  <2>3. Cardinality(owe) \in Nat /\ Cardinality(Uncounting) \in Int
    BY <2>2, FS_CardinalityType, ThreadsFinite, FS_Subset DEF Uncounting
  <2> QED BY <1>1, <1>5, <2>1, <2>2, <2>3 DEF DispQueue, DispCounted
<1> QED BY <1>1, <1>5, <1>9, <1>12, <1>14, <1>15 DEF DispQueue, DispTypes

(* A push becomes reachable.                                               *)
LEMMA LinkQueue ==
  ASSUME DispTypes, DispQueue, NEW t \in D!Senders, D!Link(t)
  PROVE  DispQueue' /\ q' \in Seq([val : Cmds, linked : BOOLEAN])
<1> DEFINE Elem == [val : Cmds, linked : BOOLEAN]
<1>1. /\ dpc[t] = "link" /\ UNCHANGED <<size, owe, got, cmd, unsent, handled, lost>>
      /\ \E i \in 1 .. Len(q) : /\ q[i].val = cmd[t] /\ ~q[i].linked
                                /\ q' = [q EXCEPT ![i] = [val |-> cmd[t], linked |-> TRUE]]
  BY DEF D!Link, D!Queue!Link, D!At, D!ghost
<1>2. PICK k \in 1 .. Len(q) : /\ q[k].val = cmd[t] /\ ~q[k].linked
                               /\ q' = [q EXCEPT ![k] = [val |-> cmd[t], linked |-> TRUE]]
  BY <1>1
<1>3. /\ dpc' \in [D!Senders -> D!Pc] /\ dpc'[t] = "count_up"
      /\ \A s \in D!Senders : s # t => dpc'[s] = dpc[s]
  BY DispGoes DEF D!Link, D!Pc, D!SendSteps
<1>4. q \in Seq(Elem) /\ Len(q) \in Nat /\ [val |-> cmd[t], linked |-> TRUE] \in Elem
  BY <1>2, QueueIs
<1>5. /\ q' \in Seq(Elem) /\ Len(q') = Len(q)
      /\ \A i \in 1 .. Len(q) : q'[i] = IF i = k THEN [val |-> cmd[t], linked |-> TRUE] ELSE q[i]
  <2> HIDE DEF Elem
  <2> QED BY <1>2, <1>4, ExceptSeq
<1>6. \A i \in 1 .. Len(q) : q'[i].val = q[i].val /\ (q'[i].linked <=> i = k \/ q[i].linked)
  BY <1>2, <1>5
<1>7. \A s \in D!Senders : (Sending(s)' <=> Sending(s)) /\ (Popping(s)' <=> Popping(s))
  BY <1>1, <1>3 DEF Sending, Popping, D!SendSteps
<1>8. Sending(t)
  BY <1>1 DEF Sending, D!SendSteps
<1>9. DispCalls'
  <2>1. \A s \in D!Senders :
          /\ cmd'[s] # NoCmd <=> Sending(s)' \/ Popping(s)'
          /\ s \in owe' <=> dpc'[s] \in {"link", "count_up"}
          /\ got'[s] # NoCmd <=> dpc'[s] = "count_down"
    BY <1>1, <1>3, <1>7 DEF DispQueue, DispCalls
  <2>2. ASSUME NEW s \in D!Senders, dpc'[s] = "link"
        PROVE  \E i \in 1 .. Len(q') : q'[i].val = cmd'[s] /\ ~q'[i].linked
    <3>1. s # t /\ dpc[s] = "link"
      BY <1>3, <2>2
    <3>2. PICK i \in 1 .. Len(q) : q[i].val = cmd[s] /\ ~q[i].linked
      BY <3>1 DEF DispQueue, DispCalls
    <3>3. cmd[s] # cmd[t]
      BY <1>8, <3>1 DEF DispQueue, DispCalls, Sending, D!SendSteps
    <3>4. i # k
      BY <1>2, <3>2, <3>3
    <3> QED BY <1>1, <1>5, <1>6, <3>2, <3>4
  <2>3. \A r, s \in D!Senders : Sending(r)' /\ Sending(s)' /\ cmd'[r] = cmd'[s] => r = s
    BY <1>1, <1>7 DEF DispQueue, DispCalls
  <2>4. ASSUME NEW i \in 1 .. Len(q'), ~q'[i].linked
        PROVE  \E s \in D!Senders : dpc'[s] = "link" /\ cmd'[s] = q'[i].val
    <3>1. i \in 1 .. Len(q) /\ i # k /\ ~q[i].linked
      BY <1>5, <1>6, <2>4
    <3>2. PICK s \in D!Senders : dpc[s] = "link" /\ cmd[s] = q[i].val
      BY <3>1 DEF DispQueue, DispCalls
    <3>3. s # t
      BY <1>2, <3>1, <3>2 DEF DispQueue, DispApart
    <3> QED BY <1>1, <1>3, <1>6, <3>1, <3>2, <3>3
  <2> QED BY <2>1, <2>2, <2>3, <2>4 DEF DispCalls
<1>10. DispApart'
  BY <1>1, <1>5, <1>6, <1>7 DEF DispQueue, DispApart
<1>11. \A d \in Cmds : /\ Made(d)' <=> Made(d)
                       /\ InQ(d)' <=> InQ(d)
                       /\ Popped(d)' <=> Popped(d)
                       /\ Done(d)' <=> Done(d)
  <2>1. \A d \in Cmds : Made(d)' <=> Made(d)
    BY <1>1, <1>3 DEF Made
  <2>2. \A d \in Cmds : InQ(d)' <=> InQ(d)
    BY <1>5, <1>6 DEF InQ
  <2>3. \A d \in Cmds : Popped(d)' <=> Popped(d)
    BY <1>1, <1>7 DEF Popped
  <2> QED BY <1>1, <2>1, <2>2, <2>3 DEF Done
<1>12. DispPlaced'
  BY <1>1, <1>7, <1>11 DEF DispQueue, DispPlaced
<1>13. Uncounting' = Uncounting
  BY <1>1, <1>3 DEF Uncounting
<1>14. DispCounted'
  BY <1>1, <1>5, <1>13 DEF DispQueue, DispCounted
<1> QED BY <1>5, <1>9, <1>10, <1>12, <1>14 DEF DispQueue

(* m_iSize counts the push.                                                *)
LEMMA CountUpQueue ==
  ASSUME DispTypes, DispQueue, NEW t \in D!Senders, D!CountUp(t)
  PROVE  DispQueue' /\ size' \in Int /\ owe' \subseteq D!Senders
<1>1. /\ dpc[t] = "count_up" /\ t \in owe /\ size' = size + 1 /\ owe' = owe \ {t}
      /\ UNCHANGED <<q, got, cmd, unsent, handled, lost>>
  BY DEF D!CountUp, D!Queue!CountUp, D!At, D!ghost
<1>2. /\ dpc' \in [D!Senders -> D!Pc] /\ dpc'[t] = "write"
      /\ \A s \in D!Senders : s # t => dpc'[s] = dpc[s]
  BY DispGoes DEF D!CountUp, D!Pc, D!SendSteps
<1>3. \A s \in D!Senders : (Sending(s)' <=> Sending(s)) /\ (Popping(s)' <=> Popping(s))
  BY <1>1, <1>2 DEF Sending, Popping, D!SendSteps
<1>4. \A s \in D!Senders : \A p \in {"push", "link", "count_down"} : dpc'[s] = p <=> dpc[s] = p
  BY <1>1, <1>2
<1>5. DispCalls'
  <2>1. \A s \in D!Senders : s \in owe' <=> dpc'[s] \in {"link", "count_up"}
    BY <1>1, <1>2 DEF DispQueue, DispCalls
  <2> QED BY <1>1, <1>3, <1>4, <2>1 DEF DispQueue, DispCalls
<1>6. DispApart'
  BY <1>1, <1>3 DEF DispQueue, DispApart
<1>7. \A d \in Cmds : /\ Made(d)' <=> Made(d)
                      /\ InQ(d)' <=> InQ(d)
                      /\ Popped(d)' <=> Popped(d)
                      /\ Done(d)' <=> Done(d)
  BY <1>1, <1>3, <1>4 DEF Made, InQ, Popped, Done
<1>8. DispPlaced'
  BY <1>1, <1>3, <1>7 DEF DispQueue, DispPlaced
<1>9. DispCounted'
  <2>1. Uncounting' = Uncounting
    BY <1>4 DEF Uncounting
  <2>2. IsFiniteSet(owe) /\ Cardinality(owe') = Cardinality(owe) - 1
    BY <1>1, ThreadsFinite, FS_Subset, FS_RemoveElement DEF DispTypes
  <2>3. Cardinality(owe) \in Nat /\ Cardinality(Uncounting) \in Int /\ Len(q) \in Nat
    BY <2>2, FS_CardinalityType, ThreadsFinite, FS_Subset, QueueIs DEF Uncounting
  <2> QED BY <1>1, <2>1, <2>2, <2>3 DEF DispQueue, DispCounted
<1> QED BY <1>1, <1>5, <1>6, <1>8, <1>9 DEF DispQueue, DispTypes

(* SendCommand() returns.                                                  *)
LEMMA WriteByteQueue ==
  ASSUME DispTypes, DispQueue, NEW t \in D!Senders, D!WriteByte(t)
  PROVE  /\ DispQueue' /\ cmd' \in [D!Senders -> Cmds \cup {NoCmd}]
         /\ dpc' \in [D!Senders -> D!Pc] /\ \A s \in D!Senders : s # t => dpc'[s] = dpc[s]
<1>1. /\ dpc[t] = "write" /\ cmd' = [cmd EXCEPT ![t] = NoCmd]
      /\ UNCHANGED <<q, size, owe, got, unsent, handled, lost>>
  BY DEF D!WriteByte, D!At, D!queue
<1>2. PICK p \in {"events", "idle"} : D!Goto(t, p)
  BY DEF D!WriteByte
<1>3. /\ dpc' \in [D!Senders -> D!Pc] /\ dpc'[t] = p
      /\ \A s \in D!Senders : s # t => dpc'[s] = dpc[s]
  BY <1>2, DispGoes DEF D!Pc
<1>4. /\ cmd'[t] = NoCmd /\ cmd' \in [D!Senders -> Cmds \cup {NoCmd}]
      /\ \A s \in D!Senders : s # t => cmd'[s] = cmd[s]
  BY <1>1 DEF DispTypes
<1>5. /\ ~Sending(t)' /\ ~Popping(t)' /\ ~Popping(t)
      /\ \A s \in D!Senders : s # t => (Sending(s)' <=> Sending(s)) /\ (Popping(s)' <=> Popping(s))
  BY <1>1, <1>3 DEF Sending, Popping, D!SendSteps
<1>6. \A s \in D!Senders : \A r \in {"push", "link", "count_up", "count_down"} : dpc'[s] = r <=> dpc[s] = r
  BY <1>1, <1>3
<1>7. DispCalls'
  <2>1. \A s \in D!Senders :
          /\ cmd'[s] # NoCmd <=> Sending(s)' \/ Popping(s)'
          /\ s \in owe' <=> dpc'[s] \in {"link", "count_up"}
          /\ got'[s] # NoCmd <=> dpc'[s] = "count_down"
          /\ dpc'[s] = "link" => \E i \in 1 .. Len(q') : q'[i].val = cmd'[s] /\ ~q'[i].linked
    BY <1>1, <1>3, <1>4, <1>5, <1>6 DEF DispQueue, DispCalls
  <2>2. \A r, s \in D!Senders : Sending(r)' /\ Sending(s)' /\ cmd'[r] = cmd'[s] => r = s
    BY <1>4, <1>5 DEF DispQueue, DispCalls
  <2>3. \A i \in 1 .. Len(q') :
          ~q'[i].linked => \E s \in D!Senders : dpc'[s] = "link" /\ cmd'[s] = q'[i].val
    BY <1>1, <1>4, <1>6 DEF DispQueue, DispCalls
  <2> QED BY <2>1, <2>2, <2>3 DEF DispCalls
<1>8. DispApart'
  BY <1>1, <1>4, <1>5 DEF DispQueue, DispApart
<1>9. \A d \in Cmds : /\ Made(d)' <=> Made(d)
                      /\ InQ(d)' <=> InQ(d)
                      /\ Popped(d)' <=> Popped(d)
                      /\ Done(d)' <=> Done(d)
  <2>1. \A d \in Cmds : Made(d)' <=> Made(d)
    BY <1>1, <1>3, <1>4, <1>6 DEF Made
  <2>2. \A d \in Cmds : Popped(d)' <=> Popped(d)
    BY <1>4, <1>5 DEF Popped
  <2> QED BY <1>1, <2>1, <2>2 DEF InQ, Done
<1>10. DispPlaced'
  BY <1>1, <1>4, <1>5, <1>9 DEF DispQueue, DispPlaced
<1>11. Uncounting' = Uncounting
  BY <1>6 DEF Uncounting
<1>12. DispCounted'
  BY <1>1, <1>11 DEF DispQueue, DispCounted
<1> QED BY <1>3, <1>4, <1>7, <1>8, <1>10, <1>12 DEF DispQueue

(* m_iSize uncounts the pop.                                               *)
LEMMA CountDownQueue ==
  ASSUME DispTypes, DispQueue, NEW t \in D!Senders, D!CountDown(t)
  PROVE  DispQueue' /\ size' \in Int /\ got' \in [D!Senders -> Cmds \cup {NoCmd}]
<1>1. /\ dpc[t] = "count_down" /\ size' = size - 1 /\ got' = [got EXCEPT ![t] = NoCmd]
      /\ UNCHANGED <<q, owe, cmd, unsent, handled, lost>>
  BY DEF D!CountDown, D!Queue!CountDown, D!At, D!ghost
<1>2. /\ dpc' \in [D!Senders -> D!Pc] /\ dpc'[t] = "handle"
      /\ \A s \in D!Senders : s # t => dpc'[s] = dpc[s]
  BY DispGoes DEF D!CountDown, D!Pc, D!PopSteps
<1>3. \A s \in D!Senders : (Sending(s)' <=> Sending(s)) /\ (Popping(s)' <=> Popping(s))
  BY <1>1, <1>2 DEF Sending, Popping, D!SendSteps
<1>4. \A s \in D!Senders : \A p \in {"push", "link", "count_up"} : dpc'[s] = p <=> dpc[s] = p
  BY <1>1, <1>2
<1>5. /\ got'[t] = NoCmd /\ got' \in [D!Senders -> Cmds \cup {NoCmd}]
      /\ \A s \in D!Senders : s # t => got'[s] = got[s]
  BY <1>1 DEF DispTypes
<1>6. DispCalls'
  <2>1. \A s \in D!Senders : got'[s] # NoCmd <=> dpc'[s] = "count_down"
    BY <1>2, <1>5 DEF DispQueue, DispCalls
  <2> QED BY <1>1, <1>3, <1>4, <2>1 DEF DispQueue, DispCalls
<1>7. DispApart'
  BY <1>1, <1>3 DEF DispQueue, DispApart
<1>8. \A d \in Cmds : /\ Made(d)' <=> Made(d)
                      /\ InQ(d)' <=> InQ(d)
                      /\ Popped(d)' <=> Popped(d)
                      /\ Done(d)' <=> Done(d)
  BY <1>1, <1>3, <1>4 DEF Made, InQ, Popped, Done
<1>9. DispPlaced'
  BY <1>1, <1>3, <1>8 DEF DispQueue, DispPlaced
<1>10. DispCounted'
  <2>1. Uncounting' = Uncounting \ {t} /\ t \in Uncounting
    BY <1>1, <1>2 DEF Uncounting
  <2>2. IsFiniteSet(Uncounting) /\ Cardinality(Uncounting') = Cardinality(Uncounting) - 1
    BY <2>1, ThreadsFinite, FS_Subset, FS_RemoveElement DEF Uncounting
  <2>3. Cardinality(owe) \in Int /\ Cardinality(Uncounting) \in Nat /\ Len(q) \in Nat
    BY <2>2, FS_CardinalityType, ThreadsFinite, FS_Subset, QueueIs DEF DispTypes
  <2> QED BY <1>1, <2>2, <2>3 DEF DispQueue, DispCounted
<1> QED BY <1>1, <1>5, <1>6, <1>7, <1>9, <1>10 DEF DispQueue, DispTypes

(* The front of the queue is taken: it was there once, and linked.         *)
LEMMA FrontGone ==
  ASSUME DispTypes, DispQueue, q # <<>>, Head(q).linked, q' = Tail(q)
  PROVE  /\ q' \in Seq([val : Cmds, linked : BOOLEAN]) /\ Len(q) \in Nat /\ Len(q') = Len(q) - 1
         /\ Head(q).val \in Cmds /\ InQ(Head(q).val)
         /\ \A d \in Cmds : InQ(d)' <=> InQ(d) /\ d # Head(q).val
         /\ \A i, j \in 1 .. Len(q') : q'[i].val = q'[j].val => i = j
         /\ \A i \in 1 .. Len(q') : ~q'[i].linked =>
              \E s \in D!Senders : dpc[s] = "link" /\ cmd[s] = q'[i].val
         /\ \A s \in D!Senders : dpc[s] = "link" =>
              \E i \in 1 .. Len(q') : q'[i].val = cmd[s] /\ ~q'[i].linked
<1> DEFINE Elem == [val : Cmds, linked : BOOLEAN]
<1>1. q \in Seq(Elem)
  BY QueueIs
<1> HIDE DEF Elem
<1>2. /\ q' \in Seq(Elem) /\ Len(q) \in Nat \ {0} /\ Len(q') = Len(q) - 1
      /\ \A i \in 1 .. Len(q') : q'[i] = q[i + 1]
  BY <1>1, HeadTailProperties, EmptySeq
<1>3. Head(q) = q[1] /\ 1 \in 1 .. Len(q)
  BY <1>2
<1>4. q[1].val \in Cmds
  BY <1>3, QueueIs
<1>5. \A i \in 1 .. Len(q') : i + 1 \in 1 .. Len(q) /\ i + 1 # 1 /\ q'[i] = q[i + 1]
  BY <1>2
<1>6. \A i \in 1 .. Len(q) : i # 1 => i - 1 \in 1 .. Len(q') /\ q'[i - 1] = q[i]
  BY <1>2
<1>7. ASSUME NEW d \in Cmds PROVE InQ(d)' <=> InQ(d) /\ d # q[1].val
  <2>1. InQ(d)' => InQ(d) /\ d # q[1].val
    BY <1>3, <1>5 DEF InQ, DispQueue, DispApart
  <2>2. InQ(d) /\ d # q[1].val => InQ(d)'
    BY <1>6 DEF InQ
  <2> QED BY <2>1, <2>2
<1>8. \A i, j \in 1 .. Len(q') : q'[i].val = q'[j].val => i = j
  <2> SUFFICES ASSUME NEW i \in 1 .. Len(q'), NEW j \in 1 .. Len(q'), q'[i].val = q'[j].val
               PROVE  i = j
    OBVIOUS
  <2>1. i + 1 = j + 1
    BY <1>5 DEF DispQueue, DispApart
  <2> QED BY <2>1
<1>9. \A i \in 1 .. Len(q') : ~q'[i].linked =>
        \E s \in D!Senders : dpc[s] = "link" /\ cmd[s] = q'[i].val
  BY <1>5 DEF DispQueue, DispCalls
<1>10. ASSUME NEW s \in D!Senders, dpc[s] = "link"
       PROVE  \E i \in 1 .. Len(q') : q'[i].val = cmd[s] /\ ~q'[i].linked
  <2>1. PICK i \in 1 .. Len(q) : q[i].val = cmd[s] /\ ~q[i].linked
    BY <1>10 DEF DispQueue, DispCalls
  <2>2. i # 1
    BY <1>3, <2>1
  <2> QED BY <1>6, <2>1, <2>2
<1>11. InQ(q[1].val)
  BY <1>3 DEF InQ
<1> QED BY <1>2, <1>3, <1>4, <1>7, <1>8, <1>9, <1>10, <1>11 DEF Elem

(* A pop takes the front.                                                  *)
LEMMA TakeQueue ==
  ASSUME DispTypes, DispQueue, NEW w \in D!Senders, D!Take(w), q # <<>>, Head(q).linked
  PROVE  /\ DispQueue' /\ q' \in Seq([val : Cmds, linked : BOOLEAN])
         /\ cmd' \in [D!Senders -> Cmds \cup {NoCmd}] /\ got' \in [D!Senders -> Cmds \cup {NoCmd}]
         /\ dpc' \in [D!Senders -> D!Pc] /\ \A s \in D!Senders : s # w => dpc'[s] = dpc[s]
<1> DEFINE c == Head(q).val
<1>1. /\ dpc[w] = "take" /\ q' = Tail(q) /\ got' = [got EXCEPT ![w] = c]
      /\ cmd' = [cmd EXCEPT ![w] = c] /\ D!Goto(w, "count_down")
      /\ UNCHANGED <<size, owe, unsent, handled, lost>>
  BY DEF D!Take, D!Queue!Dequeue, D!At, D!ghost
<1>2. /\ dpc' \in [D!Senders -> D!Pc] /\ dpc'[w] = "count_down"
      /\ \A s \in D!Senders : s # w => dpc'[s] = dpc[s]
  BY <1>1, DispGoes DEF D!Pc, D!PopSteps
<1> HIDE DEF c
<1>3. /\ q' \in Seq([val : Cmds, linked : BOOLEAN]) /\ Len(q) \in Nat /\ Len(q') = Len(q) - 1
      /\ c \in Cmds /\ InQ(c)
      /\ \A d \in Cmds : InQ(d)' <=> InQ(d) /\ d # c
      /\ \A i, j \in 1 .. Len(q') : q'[i].val = q'[j].val => i = j
      /\ \A i \in 1 .. Len(q') : ~q'[i].linked =>
           \E s \in D!Senders : dpc[s] = "link" /\ cmd[s] = q'[i].val
      /\ \A s \in D!Senders : dpc[s] = "link" =>
           \E i \in 1 .. Len(q') : q'[i].val = cmd[s] /\ ~q'[i].linked
  BY <1>1, FrontGone DEF c
<1>4. /\ cmd'[w] = c /\ got'[w] = c /\ c # NoCmd
      /\ \A s \in D!Senders : s # w => cmd'[s] = cmd[s] /\ got'[s] = got[s]
      /\ cmd' \in [D!Senders -> Cmds \cup {NoCmd}] /\ got' \in [D!Senders -> Cmds \cup {NoCmd}]
  BY <1>1, <1>3, CmdsAssumption DEF DispTypes
<1>5. /\ ~Sending(w)' /\ ~Sending(w) /\ Popping(w)' /\ ~Popping(w)
      /\ \A s \in D!Senders : s # w => (Sending(s)' <=> Sending(s)) /\ (Popping(s)' <=> Popping(s))
  BY <1>1, <1>2 DEF Sending, Popping, D!SendSteps
<1>6. \A s \in D!Senders : \A r \in {"push", "link", "count_up"} : dpc'[s] = r <=> dpc[s] = r
  BY <1>1, <1>2
<1>7. ~Popped(c) /\ ~Done(c) /\ ~Made(c) /\ c \notin unsent
  BY <1>3 DEF DispQueue, DispPlaced
<1>8. DispCalls'
  <2>1. \A s \in D!Senders :
          /\ cmd'[s] # NoCmd <=> Sending(s)' \/ Popping(s)'
          /\ s \in owe' <=> dpc'[s] \in {"link", "count_up"}
          /\ got'[s] # NoCmd <=> dpc'[s] = "count_down"
    BY <1>1, <1>2, <1>4, <1>5, <1>6 DEF DispQueue, DispCalls
  <2>2. \A s \in D!Senders : dpc'[s] = "link" =>
          \E i \in 1 .. Len(q') : q'[i].val = cmd'[s] /\ ~q'[i].linked
    BY <1>1, <1>2, <1>3, <1>4
  <2>3. \A r, s \in D!Senders : Sending(r)' /\ Sending(s)' /\ cmd'[r] = cmd'[s] => r = s
    BY <1>4, <1>5 DEF DispQueue, DispCalls
  <2>4. \A i \in 1 .. Len(q') :
          ~q'[i].linked => \E s \in D!Senders : dpc'[s] = "link" /\ cmd'[s] = q'[i].val
    <3>1. \A s \in D!Senders : dpc[s] = "link" => dpc'[s] = "link" /\ cmd'[s] = cmd[s]
      BY <1>1, <1>2, <1>4
    <3> QED BY <1>3, <3>1
  <2> QED BY <2>1, <2>2, <2>3, <2>4 DEF DispCalls
<1>9. DispApart'
  <2>1. \A s \in D!Senders : Popping(s) => cmd[s] # c
    BY <1>7 DEF Popped
  <2>2. \A r, s \in D!Senders : Popping(r)' /\ Popping(s)' /\ cmd'[r] = cmd'[s] => r = s
    BY <1>4, <1>5, <2>1 DEF DispQueue, DispApart
  <2> QED BY <1>1, <1>3, <2>2 DEF DispQueue, DispApart
<1>10. \A d \in Cmds : /\ Made(d)' <=> Made(d)
                       /\ Popped(d)' <=> Popped(d) \/ d = c
                       /\ Done(d)' <=> Done(d)
  <2>1. \A d \in Cmds : Made(d)' <=> Made(d)
    BY <1>1, <1>4, <1>6 DEF Made
  <2>2. \A d \in Cmds : Popped(d)' <=> Popped(d) \/ d = c
    BY <1>4, <1>5 DEF Popped
  <2> QED BY <1>1, <2>1, <2>2 DEF Done
<1>11. DispPlaced'
  <2>1. \A d \in Cmds : d \in unsent => \A s \in D!Senders : Sending(s)' => cmd'[s] # d
    BY <1>4, <1>5 DEF DispQueue, DispPlaced
  <2> QED BY <1>1, <1>3, <1>7, <1>10, <2>1 DEF DispQueue, DispPlaced
<1>12. DispCounted'
  <2>1. Uncounting' = Uncounting \cup {w} /\ w \notin Uncounting
    BY <1>1, <1>2 DEF Uncounting
  <2>2. IsFiniteSet(Uncounting) /\ Cardinality(Uncounting') = Cardinality(Uncounting) + 1
    BY <2>1, ThreadsFinite, FS_Subset, FS_AddElement DEF Uncounting
  <2>3. Cardinality(owe) \in Int /\ Cardinality(Uncounting) \in Nat
    BY <2>2, FS_CardinalityType, ThreadsFinite, FS_Subset DEF DispTypes
  <2> QED BY <1>1, <1>3, <2>2, <2>3 DEF DispQueue, DispCounted
<1> QED BY <1>2, <1>3, <1>4, <1>8, <1>9, <1>11, <1>12 DEF DispQueue

(* OnCommand() gets it.                                                    *)
LEMMA HandleQueue ==
  ASSUME DispTypes, DispQueue, NEW w \in D!Senders, D!Handle(w)
  PROVE  /\ DispQueue' /\ cmd' \in [D!Senders -> Cmds \cup {NoCmd}] /\ handled' \subseteq Cmds
         /\ dpc' \in [D!Senders -> D!Pc] /\ \A s \in D!Senders : s # w => dpc'[s] = dpc[s]
<1> DEFINE c == cmd[w]
<1>1. /\ dpc[w] = "handle" /\ handled' = handled \cup {c} /\ cmd' = [cmd EXCEPT ![w] = NoCmd]
      /\ D!Goto(w, "pop") /\ UNCHANGED <<q, size, owe, got, unsent, lost>>
  BY DEF D!Handle, D!At, D!queue
<1>2. /\ dpc' \in [D!Senders -> D!Pc] /\ dpc'[w] = "pop"
      /\ \A s \in D!Senders : s # w => dpc'[s] = dpc[s]
  BY <1>1, DispGoes DEF D!Pc, D!PopSteps
<1>3. c \in Cmds /\ c # NoCmd /\ Popping(w)
  BY <1>1 DEF DispQueue, DispCalls, DispTypes, Popping
<1> HIDE DEF c
<1>4. /\ cmd'[w] = NoCmd /\ \A s \in D!Senders : s # w => cmd'[s] = cmd[s]
      /\ cmd' \in [D!Senders -> Cmds \cup {NoCmd}]
  BY <1>1 DEF DispTypes
<1>5. /\ ~Sending(w)' /\ ~Sending(w) /\ ~Popping(w)'
      /\ \A s \in D!Senders : s # w => (Sending(s)' <=> Sending(s)) /\ (Popping(s)' <=> Popping(s))
  BY <1>1, <1>2 DEF Sending, Popping, D!SendSteps
<1>6. \A s \in D!Senders : \A r \in {"push", "link", "count_up", "count_down"} : dpc'[s] = r <=> dpc[s] = r
  BY <1>1, <1>2
<1>7. Popped(c) /\ ~Done(c) /\ ~InQ(c) /\ ~Made(c) /\ c \notin unsent
  <2>1. Popped(c)
    BY <1>3 DEF Popped, c
  <2> QED BY <1>3, <2>1 DEF DispQueue, DispPlaced
<1>8. DispCalls'
  <2>1. \A s \in D!Senders :
          /\ cmd'[s] # NoCmd <=> Sending(s)' \/ Popping(s)'
          /\ s \in owe' <=> dpc'[s] \in {"link", "count_up"}
          /\ got'[s] # NoCmd <=> dpc'[s] = "count_down"
    BY <1>1, <1>4, <1>5, <1>6 DEF DispQueue, DispCalls
  <2>2. \A s \in D!Senders : dpc[s] = "link" => cmd'[s] = cmd[s]
    BY <1>1, <1>4
  <2>3. \A r, s \in D!Senders : Sending(r)' /\ Sending(s)' /\ cmd'[r] = cmd'[s] => r = s
    BY <1>4, <1>5 DEF DispQueue, DispCalls
  <2> QED BY <1>1, <1>6, <2>1, <2>2, <2>3 DEF DispQueue, DispCalls
<1>9. DispApart'
  <2>1. \A r, s \in D!Senders : Popping(r)' /\ Popping(s)' /\ cmd'[r] = cmd'[s] => r = s
    BY <1>4, <1>5 DEF DispQueue, DispApart
  <2>2. c \notin lost
    BY <1>7 DEF Done
  <2> QED BY <1>1, <2>1, <2>2 DEF DispQueue, DispApart
<1>10. \A d \in Cmds : /\ Made(d)' <=> Made(d)
                       /\ InQ(d)' <=> InQ(d)
                       /\ Popped(d)' <=> Popped(d) /\ d # c
                       /\ Done(d)' <=> Done(d) \/ d = c
  <2>1. \A d \in Cmds : Made(d)' <=> Made(d)
    BY <1>1, <1>4, <1>6 DEF Made
  <2>2. ASSUME NEW d \in Cmds PROVE Popped(d)' <=> Popped(d) /\ d # c
    <3>1. \A s \in D!Senders : Popping(s) /\ cmd[s] = c => s = w
      BY <1>3 DEF DispQueue, DispApart, c
    <3> QED BY <1>4, <1>5, <3>1 DEF Popped, c
  <2> QED BY <1>1, <2>1, <2>2 DEF InQ, Done
<1>11. DispPlaced'
  <2>1. \A d \in Cmds : d \in unsent => \A s \in D!Senders : Sending(s)' => cmd'[s] # d
    BY <1>4, <1>5 DEF DispQueue, DispPlaced
  <2> QED BY <1>1, <1>7, <1>10, <2>1 DEF DispQueue, DispPlaced
<1>12. Uncounting' = Uncounting
  BY <1>6 DEF Uncounting
<1>13. DispCounted'
  BY <1>1, <1>12 DEF DispQueue, DispCounted
<1>14. handled' \subseteq Cmds
  BY <1>1, <1>3 DEF DispTypes
<1> QED BY <1>2, <1>4, <1>8, <1>9, <1>11, <1>13, <1>14 DEF DispQueue

(* Stop() destructs a command that nobody popped.                          *)
LEMMA DrainQueue ==
  ASSUME DispTypes, DispQueue, D!Drain, size # 0, q # <<>>, Head(q).linked
  PROVE  /\ DispQueue' /\ q' \in Seq([val : Cmds, linked : BOOLEAN]) /\ size' \in Int
         /\ lost' \subseteq Cmds
<1> DEFINE c == Head(q).val
<1>1. /\ lost' = lost \cup {c} /\ q' = Tail(q) /\ size' = size - 1
      /\ UNCHANGED <<owe, got, dpc, cmd, unsent, handled>>
  BY DEF D!Drain
<1> HIDE DEF c
<1>2. /\ q' \in Seq([val : Cmds, linked : BOOLEAN]) /\ Len(q) \in Nat /\ Len(q') = Len(q) - 1
      /\ c \in Cmds /\ InQ(c)
      /\ \A d \in Cmds : InQ(d)' <=> InQ(d) /\ d # c
      /\ \A i, j \in 1 .. Len(q') : q'[i].val = q'[j].val => i = j
      /\ \A i \in 1 .. Len(q') : ~q'[i].linked =>
           \E s \in D!Senders : dpc[s] = "link" /\ cmd[s] = q'[i].val
      /\ \A s \in D!Senders : dpc[s] = "link" =>
           \E i \in 1 .. Len(q') : q'[i].val = cmd[s] /\ ~q'[i].linked
  BY <1>1, FrontGone DEF c
<1>3. \A s \in D!Senders : (Sending(s)' <=> Sending(s)) /\ (Popping(s)' <=> Popping(s))
  BY <1>1 DEF Sending, Popping
<1>4. ~Popped(c) /\ ~Done(c) /\ ~Made(c) /\ c \notin unsent
  BY <1>2 DEF DispQueue, DispPlaced
<1>5. DispCalls'
  BY <1>1, <1>2, <1>3 DEF DispQueue, DispCalls
<1>6. DispApart'
  BY <1>1, <1>2, <1>3, <1>4 DEF DispQueue, DispApart, Done
<1>7. \A d \in Cmds : /\ Made(d)' <=> Made(d)
                      /\ Popped(d)' <=> Popped(d)
                      /\ Done(d)' <=> Done(d) \/ d = c
  BY <1>1, <1>3 DEF Made, Popped, Done
<1>8. DispPlaced'
  BY <1>1, <1>2, <1>3, <1>4, <1>7 DEF DispQueue, DispPlaced
<1>9. DispCounted'
  <2>1. Uncounting' = Uncounting
    BY <1>1 DEF Uncounting
  <2>2. Cardinality(owe) \in Int /\ Cardinality(Uncounting) \in Int
    BY FS_CardinalityType, ThreadsFinite, FS_Subset DEF DispTypes, Uncounting
  <2> QED BY <1>1, <1>2, <2>1, <2>2 DEF DispQueue, DispCounted
<1> QED BY <1>1, <1>2, <1>5, <1>6, <1>8, <1>9 DEF DispQueue, DispTypes

-----------------------------------------------------------------------------
(* Stop() finds the callers gone, and joins the workers before it drains.  *)
LEMMA StagesStay ==
  ASSUME DispTypes, DispStages, NEW t \in D!Senders, dpc[t] \notin {"exited", "idle"},
         \A s \in D!Senders : s # t => dpc'[s] = dpc[s], UNCHANGED stop
  PROVE  DispStages' /\ stop \notin {"drain", "stopped"}
<1>1. stop # "running" => t \notin Apps
  BY DEF DispStages
<1>2. stop \notin {"drain", "stopped"}
  BY <1>1 DEF DispStages, D!Senders
<1>3. \A s \in Apps : s # t => dpc'[s] = dpc[s]
  BY ThreadsFinite
<1> QED BY <1>1, <1>2, <1>3 DEF DispStages

(* Nothing is left in the queue that PopFront() cannot take, when nobody   *)
(* sends or pops any more.                                                 *)
LEMMA AllLinked ==
  ASSUME DispTypes, DispQueue, \A t \in D!Senders : dpc[t] \in {"exited", "idle"}
  PROVE  /\ size = Len(q) /\ (q # <<>> => Head(q).linked /\ size # 0)
         /\ \A t \in D!Senders : cmd[t] = NoCmd
<1>1. owe = {} /\ Uncounting = {}
  BY DEF DispQueue, DispCalls, DispTypes, Uncounting
<1>2. size = Len(q)
  <2>1. Cardinality(owe) = 0 /\ Cardinality(Uncounting) = 0
    BY <1>1, FS_EmptySet
  <2> QED BY <2>1, QueueIs DEF DispQueue, DispCounted
<1>3. \A i \in 1 .. Len(q) : q[i].linked
  BY DEF DispQueue, DispCalls
<1>4. ASSUME q # <<>> PROVE Head(q).linked /\ size # 0
  <2>1. Len(q) # 0
    BY <1>4, QueueIs, EmptySeq
  <2>2. Len(q) \in Nat /\ 1 \in 1 .. Len(q)
    BY <2>1, QueueIs
  <2>3. Head(q) = q[1]
    OBVIOUS
  <2> QED BY <1>2, <1>3, <2>1, <2>2, <2>3
<1>5. \A t \in D!Senders : cmd[t] = NoCmd
  BY DEF DispQueue, DispCalls, Sending, Popping, D!SendSteps
<1> QED BY <1>2, <1>4, <1>5

(* SendCommand(), step by step.                                            *)
LEMMA StartSendInv ==
  ASSUME DispInv, NEW t \in Apps, D!StartSend(t)
  PROVE  DispInv'
<1>1. DispTypes /\ DispBytes /\ DispQueue /\ DispStages /\ t \in D!Senders
  BY ThreadsFinite DEF DispInv, DispQueue
<1>2. /\ dpc[t] = "idle" /\ stop = "running" /\ D!Construct(t)
      /\ UNCHANGED <<q, size, owe, got, handled, lost, pipe, exits, reports, batch, run, stop, left>>
  BY DEF D!StartSend, D!At, D!queue, D!pipes
<1>3. ~Sending(t) /\ ~Popping(t)
  BY <1>2 DEF Sending, Popping, D!SendSteps
<1>4. /\ DispQueue' /\ dpc' \in [D!Senders -> D!Pc] /\ unsent' \subseteq Cmds
      /\ cmd' \in [D!Senders -> Cmds \cup {NoCmd}]
  BY <1>1, <1>2, <1>3, ConstructQueue
<1>5. DispTypes'
  BY <1>1, <1>2, <1>4 DEF DispTypes
<1>6. DispBytes'
  BY <1>1, <1>2, BytesStay
<1>7. DispStages'
  BY <1>2 DEF DispStages
<1> QED BY <1>4, <1>5, <1>6, <1>7 DEF DispInv, DispQueue

LEMMA SendInv ==
  ASSUME DispInv, NEW t \in D!Senders, D!Send(t)
  PROVE  DispInv'
<1>1. DispTypes /\ DispBytes /\ DispQueue /\ DispStages
  BY DEF DispInv, DispQueue
<1>2. CASE D!Push(t)
  <2>1. /\ dpc[t] = "push" /\ D!Goto(t, "link")
        /\ UNCHANGED <<size, got, pipe, exits, reports, batch, run, cmd, unsent, handled, lost,
                       stop, left>>
    BY <1>2 DEF D!Push, D!Queue!Enqueue, D!At, D!pipes, D!ghost
  <2>2. /\ dpc' \in [D!Senders -> D!Pc] /\ \A s \in D!Senders : s # t => dpc'[s] = dpc[s]
    BY <1>1, <2>1, DispGoes DEF D!Pc, D!SendSteps
  <2>3. DispQueue' /\ q' \in Seq([val : Cmds, linked : BOOLEAN]) /\ owe' \subseteq D!Senders
    BY <1>1, <1>2, PushQueue
  <2>4. DispTypes'
    BY <1>1, <2>1, <2>2, <2>3 DEF DispTypes
  <2>5. DispBytes' /\ DispStages'
    BY <1>1, <2>1, <2>2, BytesStay, StagesStay
  <2> QED BY <2>3, <2>4, <2>5 DEF DispInv, DispQueue
<1>3. CASE D!Link(t)
  <2>1. /\ dpc[t] = "link" /\ D!Goto(t, "count_up")
        /\ UNCHANGED <<size, owe, got, pipe, exits, reports, batch, run, cmd, unsent, handled,
                       lost, stop, left>>
    BY <1>3 DEF D!Link, D!Queue!Link, D!At, D!pipes, D!ghost
  <2>2. /\ dpc' \in [D!Senders -> D!Pc] /\ \A s \in D!Senders : s # t => dpc'[s] = dpc[s]
    BY <1>1, <2>1, DispGoes DEF D!Pc, D!SendSteps
  <2>3. DispQueue' /\ q' \in Seq([val : Cmds, linked : BOOLEAN])
    BY <1>1, <1>3, LinkQueue
  <2>4. DispTypes'
    BY <1>1, <2>1, <2>2, <2>3 DEF DispTypes
  <2>5. DispBytes' /\ DispStages'
    BY <1>1, <2>1, <2>2, BytesStay, StagesStay
  <2> QED BY <2>3, <2>4, <2>5 DEF DispInv, DispQueue
<1>4. CASE D!CountUp(t)
  <2>1. /\ dpc[t] = "count_up" /\ D!Goto(t, "write")
        /\ UNCHANGED <<q, got, pipe, exits, reports, batch, run, cmd, unsent, handled, lost,
                       stop, left>>
    BY <1>4 DEF D!CountUp, D!Queue!CountUp, D!At, D!pipes, D!ghost
  <2>2. /\ dpc' \in [D!Senders -> D!Pc] /\ \A s \in D!Senders : s # t => dpc'[s] = dpc[s]
    BY <1>1, <2>1, DispGoes DEF D!Pc, D!SendSteps
  <2>3. DispQueue' /\ size' \in Int /\ owe' \subseteq D!Senders
    BY <1>1, <1>4, CountUpQueue
  <2>4. DispTypes'
    BY <1>1, <2>1, <2>2, <2>3 DEF DispTypes
  <2>5. DispBytes' /\ DispStages'
    BY <1>1, <2>1, <2>2, BytesStay, StagesStay
  <2> QED BY <2>3, <2>4, <2>5 DEF DispInv, DispQueue
<1>5. CASE D!WriteByte(t)
  <2>1. /\ dpc[t] = "write" /\ reports' = reports \cup {"cmd"}
        /\ UNCHANGED <<q, size, owe, got, exits, batch, run, unsent, handled, lost, stop, left>>
    BY <1>5 DEF D!WriteByte, D!At, D!queue
  <2>2. /\ DispQueue' /\ cmd' \in [D!Senders -> Cmds \cup {NoCmd}]
        /\ dpc' \in [D!Senders -> D!Pc] /\ \A s \in D!Senders : s # t => dpc'[s] = dpc[s]
    BY <1>1, <1>5, WriteByteQueue
  <2>3. DispBytes' /\ pipe' \in 0 .. PipeCap
    BY <1>1, <1>5, WriteByteBytes
  <2>4. DispTypes'
    BY <1>1, <2>1, <2>2, <2>3 DEF DispTypes
  <2>5. DispStages'
    BY <1>1, <2>1, <2>2, StagesStay
  <2> QED BY <2>2, <2>3, <2>4, <2>5 DEF DispInv, DispQueue
<1> QED BY <1>2, <1>3, <1>4, <1>5 DEF D!Send

(* A worker's step that touches no command.                                *)
LEMMA QuietInv ==
  ASSUME DispInv, NEW w \in Workers, NEW p \in D!Pc \ {"push", "link", "count_up", "write",
                                                       "count_down", "handle"},
         dpc[w] \in {"wait", "events", "pop", "take"},
         D!Goto(w, p) \/ UNCHANGED dpc,
         UNCHANGED <<q, size, owe, got, cmd, unsent, handled, lost, stop, left>>,
         DispBytes', pipe' \in 0 .. PipeCap, exits' \in Nat, reports' \subseteq {"cmd", "exit"},
         batch' \in [Workers -> SUBSET D!Events], run' \in [Workers -> BOOLEAN]
  PROVE  DispInv'
<1>1. DispTypes /\ DispBytes /\ DispQueue /\ DispStages /\ w \in D!Senders
  BY ThreadsFinite DEF DispInv, DispQueue
<1>2. /\ dpc' \in [D!Senders -> D!Pc] /\ \A s \in D!Senders : s # w => dpc'[s] = dpc[s]
      /\ dpc'[w] \in {p, dpc[w]}
  <2>1. CASE D!Goto(w, p)
    BY <1>1, <2>1, DispGoes
  <2>2. CASE UNCHANGED dpc
    BY <1>1, <2>2 DEF DispTypes
  <2> QED BY <2>1, <2>2
<1>3. ~Sending(w) /\ ~Popping(w) /\ ~Sending(w)' /\ ~Popping(w)'
  BY <1>2 DEF Sending, Popping, D!SendSteps
<1>4. DispQueue'
  BY <1>1, <1>2, <1>3, QuietQueue
<1>5. DispTypes'
  BY <1>1, <1>2 DEF DispTypes
<1>6. DispStages'
  BY <1>1, <1>2, StagesStay
<1> QED BY <1>4, <1>5, <1>6 DEF DispInv, DispQueue

(* WorkerProc() before it looks at the commands.                           *)
LEMMA WorkerInv ==
  ASSUME DispInv, NEW w \in Workers, D!Wait(w) \/ D!EndBatch(w) \/ D!ReadByte(w) \/ D!ReadExit(w)
  PROVE  DispInv'
<1>1. DispTypes /\ DispBytes /\ w \in D!Senders
  BY ThreadsFinite DEF DispInv
<1>2. CASE D!Wait(w)
  <2>1. /\ dpc[w] = "wait" /\ D!Goto(w, "events") /\ reports' = {}
        /\ batch' \in [Workers -> SUBSET D!Events]
        /\ UNCHANGED <<q, size, owe, got, pipe, exits, run, cmd, unsent, handled, lost, stop, left>>
    BY <1>1, <1>2 DEF D!Wait, D!At, D!queue, D!ghost, D!Events, DispTypes
  <2>2. DispBytes'
    BY <1>1, <1>2, WaitBytes
  <2> QED BY <1>1, <2>1, <2>2, QuietInv DEF D!Pc, DispTypes
<1>3. CASE D!EndBatch(w)
  <2>1. /\ dpc[w] = "events"
        /\ D!Goto(w, "wait") \/ D!Goto(w, "exited")
        /\ UNCHANGED <<q, size, owe, got, pipe, exits, reports, batch, run, cmd, unsent, handled,
                       lost, stop, left>>
    BY <1>3 DEF D!EndBatch, D!At, D!queue, D!pipes, D!ghost
  <2>2. DispBytes'
    BY <1>1, <2>1, BytesStay
  <2>3. CASE D!Goto(w, "wait")
    BY <1>1, <2>1, <2>2, <2>3, QuietInv DEF D!Pc, DispTypes
  <2>4. CASE D!Goto(w, "exited")
    BY <1>1, <2>1, <2>2, <2>4, QuietInv DEF D!Pc, DispTypes
  <2> QED BY <2>1, <2>3, <2>4
<1>4. CASE D!ReadByte(w)
  <2>1. /\ dpc[w] = "events" /\ batch' \in [Workers -> SUBSET D!Events]
        /\ UNCHANGED <<q, size, owe, got, exits, reports, run, cmd, unsent, handled, lost, stop, left>>
    BY <1>1, <1>4 DEF D!ReadByte, D!At, D!queue, D!ghost, DispTypes
  <2>2. DispBytes' /\ pipe > 0 /\ pipe' = pipe - 1 /\ D!Goto(w, "pop")
    BY <1>1, <1>4, ReadByteBytes
  <2>3. pipe' \in 0 .. PipeCap
    BY <1>1, <2>2, CmdsAssumption DEF DispTypes
  <2> QED BY <1>1, <2>1, <2>2, <2>3, QuietInv DEF D!Pc, D!PopSteps, DispTypes
<1>5. CASE D!ReadExit(w)
  <2>1. /\ dpc[w] = "events" /\ batch' \in [Workers -> SUBSET D!Events]
        /\ run' \in [Workers -> BOOLEAN]
        /\ UNCHANGED <<q, size, owe, got, pipe, reports, dpc, cmd, unsent, handled, lost, stop, left>>
    BY <1>1, <1>5 DEF D!ReadExit, D!At, D!queue, D!ghost, DispTypes
  <2>2. DispBytes' /\ exits' \in Nat
    BY <1>1, <1>5, ReadExitBytes
  <2> QED BY <1>1, <2>1, <2>2, QuietInv DEF D!Pc, DispTypes
<1> QED BY <1>2, <1>3, <1>4, <1>5

(* ProcessIo(): the callback may send a command.                           *)
LEMMA ProcessIoInv ==
  ASSUME DispInv, NEW w \in Workers, D!ProcessIo(w)
  PROVE  DispInv'
<1>1. DispTypes /\ DispBytes /\ DispQueue /\ DispStages /\ w \in D!Senders
  BY ThreadsFinite DEF DispInv, DispQueue
<1>2. /\ dpc[w] = "events" /\ batch' = [batch EXCEPT ![w] = @ \ {"io"}]
      /\ D!Construct(w) \/ UNCHANGED <<cmd, unsent, dpc>>
      /\ UNCHANGED <<q, size, owe, got, pipe, exits, reports, run, handled, lost, stop, left>>
  BY DEF D!ProcessIo, D!At, D!queue, D!pipes
<1>3. batch' \in [Workers -> SUBSET D!Events]
  BY <1>1, <1>2 DEF DispTypes
<1>4. DispBytes'
  <2>1. Hear("cmd")' = Hear("cmd") /\ Hear("exit")' = Hear("exit")
    BY <1>1, <1>2 DEF Hear, DispTypes
  <2>2. D!Told("cmd")' = D!Told("cmd") /\ D!Told("exit")' = D!Told("exit")
    BY <1>2, <2>1, HearFinite
  <2> QED BY <1>1, <1>2, <2>2 DEF DispBytes, D!ByteForEvent
<1>5. CASE UNCHANGED <<cmd, unsent, dpc>>
  BY <1>1, <1>2, <1>3, <1>4, <1>5, QuietInv DEF D!Pc, DispTypes
<1>6. CASE D!Construct(w)
  <2>1. ~Sending(w) /\ ~Popping(w)
    BY <1>2 DEF Sending, Popping, D!SendSteps
  <2>2. /\ DispQueue' /\ dpc' \in [D!Senders -> D!Pc] /\ unsent' \subseteq Cmds
        /\ cmd' \in [D!Senders -> Cmds \cup {NoCmd}]
        /\ \A s \in D!Senders : s # w => dpc'[s] = dpc[s]
    BY <1>1, <1>2, <1>6, <2>1, ConstructQueue
  <2>3. DispTypes'
    BY <1>1, <1>2, <1>3, <2>2 DEF DispTypes
  <2>4. DispStages'
    BY <1>1, <1>2, <2>2, StagesStay
  <2> QED BY <1>4, <2>2, <2>3, <2>4 DEF DispInv, DispQueue
<1> QED BY <1>2, <1>5, <1>6

(* PopFront() and OnCommand().                                             *)
LEMMA PopInv ==
  ASSUME DispInv, NEW w \in Workers, D!PopCheck(w) \/ D!Take(w) \/ D!CountDown(w) \/ D!Handle(w)
  PROVE  DispInv'
<1>1. DispTypes /\ DispBytes /\ DispQueue /\ DispStages /\ w \in D!Senders
  BY ThreadsFinite DEF DispInv, DispQueue
<1>2. CASE D!PopCheck(w)
  <2>1. /\ dpc[w] = "pop"
        /\ D!Goto(w, "events") \/ D!Goto(w, "take")
        /\ UNCHANGED <<q, size, owe, got, pipe, exits, reports, batch, run, cmd, unsent, handled,
                       lost, stop, left>>
    BY <1>2 DEF D!PopCheck, D!At, D!queue, D!pipes, D!ghost
  <2>2. DispBytes'
    BY <1>1, <2>1, BytesStay
  <2>3. CASE D!Goto(w, "events")
    BY <1>1, <2>1, <2>2, <2>3, QuietInv DEF D!Pc, DispTypes
  <2>4. CASE D!Goto(w, "take")
    BY <1>1, <2>1, <2>2, <2>4, QuietInv DEF D!Pc, D!PopSteps, DispTypes
  <2> QED BY <2>1, <2>3, <2>4
<1>3. CASE D!Take(w)
  <2>1. /\ dpc[w] = "take"
        /\ UNCHANGED <<size, owe, pipe, exits, reports, batch, run, unsent, handled, lost, stop, left>>
    BY <1>3 DEF D!Take, D!Queue!Dequeue, D!At, D!queue, D!pipes, D!ghost
  <2>2. DispBytes'
    BY <1>1, <2>1, BytesStay
  <2>3. CASE q # <<>> /\ Head(q).linked
    <3>1. /\ DispQueue' /\ q' \in Seq([val : Cmds, linked : BOOLEAN])
          /\ cmd' \in [D!Senders -> Cmds \cup {NoCmd}] /\ got' \in [D!Senders -> Cmds \cup {NoCmd}]
          /\ dpc' \in [D!Senders -> D!Pc] /\ \A s \in D!Senders : s # w => dpc'[s] = dpc[s]
      BY <1>1, <1>3, <2>3, TakeQueue
    <3>2. DispTypes'
      BY <1>1, <2>1, <3>1 DEF DispTypes
    <3>3. DispStages'
      BY <1>1, <2>1, <3>1, StagesStay
    <3> QED BY <2>2, <3>1, <3>2, <3>3 DEF DispInv, DispQueue
  <2>4. CASE ~(q # <<>> /\ Head(q).linked)
    <3>1. D!Goto(w, "events") /\ UNCHANGED <<q, got, cmd>>
      BY <1>3, <2>4 DEF D!Take, D!queue
    <3> QED BY <1>1, <2>1, <2>2, <3>1, QuietInv DEF D!Pc, DispTypes
  <2> QED BY <2>3, <2>4
<1>4. CASE D!CountDown(w)
  <2>1. /\ dpc[w] = "count_down" /\ D!Goto(w, "handle")
        /\ UNCHANGED <<q, owe, pipe, exits, reports, batch, run, cmd, unsent, handled, lost, stop, left>>
    BY <1>4 DEF D!CountDown, D!Queue!CountDown, D!At, D!pipes, D!ghost
  <2>2. /\ dpc' \in [D!Senders -> D!Pc] /\ \A s \in D!Senders : s # w => dpc'[s] = dpc[s]
    BY <1>1, <2>1, DispGoes DEF D!Pc, D!PopSteps
  <2>3. DispQueue' /\ size' \in Int /\ got' \in [D!Senders -> Cmds \cup {NoCmd}]
    BY <1>1, <1>4, CountDownQueue
  <2>4. DispTypes'
    BY <1>1, <2>1, <2>2, <2>3 DEF DispTypes
  <2>5. DispBytes' /\ DispStages'
    BY <1>1, <2>1, <2>2, BytesStay, StagesStay
  <2> QED BY <2>3, <2>4, <2>5 DEF DispInv, DispQueue
<1>5. CASE D!Handle(w)
  <2>1. /\ dpc[w] = "handle"
        /\ UNCHANGED <<q, size, owe, got, pipe, exits, reports, batch, run, unsent, lost, stop, left>>
    BY <1>5 DEF D!Handle, D!At, D!queue, D!pipes
  <2>2. /\ DispQueue' /\ cmd' \in [D!Senders -> Cmds \cup {NoCmd}] /\ handled' \subseteq Cmds
        /\ dpc' \in [D!Senders -> D!Pc] /\ \A s \in D!Senders : s # w => dpc'[s] = dpc[s]
    BY <1>1, <1>5, HandleQueue
  <2>3. DispTypes'
    BY <1>1, <2>1, <2>2 DEF DispTypes
  <2>4. DispBytes' /\ DispStages'
    BY <1>1, <2>1, <2>2, BytesStay, StagesStay
  <2> QED BY <2>2, <2>3, <2>4 DEF DispInv, DispQueue
<1> QED BY <1>2, <1>3, <1>4, <1>5

(* A step that leaves the threads and the commands alone.                  *)
LEMMA QueueStays ==
  ASSUME DispQueue, UNCHANGED <<q, size, owe, got, dpc, cmd, unsent, handled, lost>>
  PROVE  DispQueue'
<1>1. DispCalls'
  BY DEF DispQueue, DispCalls, Sending, Popping
<1>2. DispApart'
  BY DEF DispQueue, DispApart, Popping
<1>3. DispPlaced'
  BY DEF DispQueue, DispPlaced, Made, InQ, Popped, Done, Sending, Popping
<1>4. Uncounting' = Uncounting
  BY DEF Uncounting
<1>5. DispCounted'
  BY <1>4 DEF DispQueue, DispCounted
<1> QED BY <1>1, <1>2, <1>3, <1>5 DEF DispQueue

(* Stop(), and what it does.                                               *)
LEMMA DispStopInv ==
  ASSUME DispInv, D!StartStop \/ D!Stop
  PROVE  DispInv'
<1>1. DispTypes /\ DispBytes /\ DispQueue /\ DispStages
  BY DEF DispInv, DispQueue
<1>2. CASE D!StartStop
  <2>1. /\ stop = "running" /\ (\A a \in Apps : dpc[a] = "idle") /\ stop' = "set"
        /\ left' = Cardinality(Workers)
        /\ UNCHANGED <<q, size, owe, got, pipe, exits, reports, dpc, batch, run, cmd, unsent,
                       handled, lost>>
    BY <1>2, ThreadsFinite DEF D!StartStop, D!At, D!queue, D!pipes, D!ghost
  <2>2. DispTypes'
    BY <1>1, <2>1, ThreadsFinite DEF DispTypes, D!StopPc
  <2>3. DispBytes'
    <3>1. exits = 0 /\ D!Told("cmd")' = D!Told("cmd") /\ D!Told("exit")' = D!Told("exit")
      BY <1>1, <2>1 DEF DispBytes, D!Told
    <3> QED BY <1>1, <2>1, <3>1, ThreadsFinite DEF DispBytes, D!ByteForEvent
  <2>4. DispQueue' /\ DispStages'
    BY <1>1, <2>1, QueueStays DEF DispStages
  <2> QED BY <2>2, <2>3, <2>4 DEF DispInv, DispQueue
<1>3. CASE D!SetExit
  <2>1. /\ stop = "set" /\ left > 0 /\ left' = left - 1 /\ stop' \in {"set", "join"}
        /\ exits' = exits + 1 /\ reports' = reports \cup {"exit"}
        /\ UNCHANGED <<q, size, owe, got, pipe, dpc, batch, run, cmd, unsent, handled, lost>>
    BY <1>3 DEF D!SetExit, D!queue, D!ghost
  <2>2. DispTypes'
    BY <1>1, <2>1 DEF DispTypes, D!StopPc
  <2>3. DispBytes'
    BY <1>1, <1>3, SetExitBytes
  <2>4. DispQueue' /\ DispStages'
    BY <1>1, <2>1, QueueStays DEF DispStages
  <2> QED BY <2>2, <2>3, <2>4 DEF DispInv, DispQueue
<1>4. CASE D!Join
  <2>1. /\ stop = "join" /\ (\A w \in Workers : dpc[w] = "exited") /\ stop' = "drain"
        /\ UNCHANGED <<q, size, owe, got, pipe, exits, reports, dpc, batch, run, cmd, unsent,
                       handled, lost, left>>
    BY <1>4 DEF D!Join, D!At, D!queue, D!pipes, D!ghost
  <2>2. DispTypes'
    BY <1>1, <2>1 DEF DispTypes, D!StopPc
  <2>3. DispBytes'
    BY <1>1, <2>1, BytesStay
  <2>4. DispQueue' /\ DispStages'
    BY <1>1, <2>1, QueueStays DEF DispStages
  <2> QED BY <2>2, <2>3, <2>4 DEF DispInv, DispQueue
<1>5. CASE D!Drain
  <2>1. /\ stop = "drain"
        /\ UNCHANGED <<owe, got, pipe, exits, reports, dpc, batch, run, cmd, unsent, handled, left>>
    BY <1>5 DEF D!Drain, D!pipes
  <2>2. \A t \in D!Senders : dpc[t] \in {"exited", "idle"}
    BY <1>1, <2>1 DEF DispStages, D!Senders
  <2>3. size = Len(q) /\ (q # <<>> => Head(q).linked /\ size # 0)
    BY <1>1, <2>2, AllLinked
  <2>4. CASE q # <<>>
    <3>1. DispQueue' /\ q' \in Seq([val : Cmds, linked : BOOLEAN]) /\ size' \in Int /\ lost' \subseteq Cmds
      BY <1>1, <1>5, <2>3, <2>4, DrainQueue
    <3>2. stop' = stop
      BY <1>5, <2>3, <2>4 DEF D!Drain
    <3>3. DispTypes'
      BY <1>1, <2>1, <3>1, <3>2 DEF DispTypes
    <3>4. DispBytes'
      BY <1>1, <2>1, <3>2, BytesStay
    <3>5. DispStages'
      BY <1>1, <2>1, <3>2 DEF DispStages
    <3> QED BY <3>1, <3>3, <3>4, <3>5 DEF DispInv, DispQueue
  <2>5. CASE q = <<>>
    <3>1. stop' = "stopped" /\ UNCHANGED <<q, size, lost>>
      BY <1>5, <2>5 DEF D!Drain
    <3>2. size = 0
      BY <2>3, <2>5
    <3>3. DispTypes'
      BY <1>1, <2>1, <3>1 DEF DispTypes, D!StopPc
    <3>4. DispBytes'
      BY <1>1, <2>1, <3>1, BytesStay
    <3>5. DispQueue' /\ DispStages'
      BY <1>1, <2>1, <2>5, <3>1, <3>2, QueueStays DEF DispStages
    <3> QED BY <3>3, <3>4, <3>5 DEF DispInv, DispQueue
  <2> QED BY <2>4, <2>5
<1> QED BY <1>2, <1>3, <1>4, <1>5 DEF D!Stop

LEMMA DispInvInit == D!Init => DispInv
<1> SUFFICES ASSUME D!Init PROVE DispInv
  OBVIOUS
<1>1. /\ q = <<>> /\ size = 0 /\ owe = {} /\ got = [t \in D!Senders |-> NoCmd]
      /\ pipe = 0 /\ exits = 0 /\ reports = {} /\ stop = "running" /\ left = 0
      /\ dpc = [t \in D!Senders |-> D!Home(t)] /\ batch = [w \in Workers |-> {}]
      /\ run = [w \in Workers |-> TRUE] /\ cmd = [t \in D!Senders |-> NoCmd]
      /\ unsent = Cmds /\ handled = {} /\ lost = {}
  BY DEF D!Init, D!Queue!QInit
<1>2. \A t \in D!Senders : dpc[t] \in {"wait", "idle"}
  BY <1>1 DEF D!Home
<1>3. \A t \in D!Senders : ~Sending(t) /\ ~Popping(t)
  BY <1>2 DEF Sending, Popping, D!SendSteps
<1>4. Len(q) = 0 /\ 1 .. Len(q) = {}
  BY <1>1
<1>5. DispTypes
  <2>1. q \in Seq([val : Cmds, linked : BOOLEAN])
    BY <1>1
  <2>2. dpc \in [D!Senders -> D!Pc]
    BY <1>1 DEF D!Home, D!Pc
  <2> QED BY <1>1, <2>1, <2>2, CmdsAssumption DEF DispTypes, D!StopPc
<1>6. DispBytes
  <2>1. Hear("cmd") = {} /\ Hear("exit") = {}
    BY <1>1 DEF Hear
  <2>2. Cardinality(Hear("cmd")) = 0 /\ Cardinality(Hear("exit")) = 0
    BY <2>1, FS_EmptySet
  <2>3. D!Told("cmd") = 0 /\ D!Told("exit") = 0
    BY <1>1, <2>2, HearFinite
  <2> QED BY <1>1, <2>3, ThreadsFinite DEF DispBytes, D!ByteForEvent
<1>7. DispCalls
  BY <1>1, <1>2, <1>3, <1>4 DEF DispCalls
<1>8. DispApart /\ DispPlaced
  BY <1>1, <1>2, <1>3, <1>4 DEF DispApart, DispPlaced, Made, InQ, Popped, Done
<1>9. DispCounted
  <2>1. Uncounting = {} /\ Cardinality(owe) = 0
    BY <1>1, <1>2, FS_EmptySet DEF Uncounting
  <2>2. Cardinality(Uncounting) = 0
    BY <2>1, FS_EmptySet
  <2> QED BY <1>1, <1>4, <2>1, <2>2 DEF DispCounted
<1>10. DispStages
  BY <1>1 DEF DispStages
<1> QED BY <1>5, <1>6, <1>7, <1>8, <1>9, <1>10 DEF DispInv

LEMMA DispInvNext == DispInv /\ (D!Next \/ UNCHANGED dvars) => DispInv'
<1> SUFFICES ASSUME DispInv, D!Next \/ UNCHANGED dvars PROVE DispInv'
  OBVIOUS
<1>1. CASE \E a \in Apps : D!StartSend(a)
  BY <1>1, StartSendInv
<1>2. CASE \E t \in D!Senders : D!Send(t)
  BY <1>2, SendInv
<1>3. CASE \E w \in Workers : D!Work(w)
  BY <1>3, WorkerInv, ProcessIoInv, PopInv DEF D!Work
<1>4. CASE D!StartStop \/ D!Stop
  BY <1>4, DispStopInv
<1>5. CASE UNCHANGED dvars
  <2>1. UNCHANGED <<q, size, owe, got, pipe, exits, reports, dpc, batch, run, cmd, unsent,
                    handled, lost, stop, left>>
    BY <1>5 DEF dvars
  <2>2. DispTypes'
    BY <2>1 DEF DispInv, DispTypes
  <2>3. DispBytes'
    BY <2>1, BytesStay DEF DispInv
  <2>4. DispQueue' /\ DispStages'
    BY <2>1, QueueStays DEF DispInv, DispQueue, DispStages
  <2> QED BY <2>2, <2>3, <2>4 DEF DispInv, DispQueue
<1> QED BY <1>1, <1>2, <1>3, <1>4, <1>5 DEF D!Next

(* What the invariant says of Stop().                                      *)
LEMMA DispHolds == DispInv => D!TypeOK /\ D!ByteForEvent /\ D!StopDrains
<1> SUFFICES ASSUME DispInv PROVE D!TypeOK /\ D!ByteForEvent /\ D!StopDrains
  OBVIOUS
<1>1. DispTypes /\ DispBytes /\ DispQueue /\ DispStages
  BY DEF DispInv, DispQueue
<1>2. exits \in 0 .. Cardinality(Workers) /\ left \in 0 .. Cardinality(Workers)
  BY <1>1, ThreadsFinite DEF DispTypes, DispBytes
<1>3. D!TypeOK
  BY <1>1, <1>2, ThreadsFinite DEF DispTypes, D!TypeOK
<1>4. ASSUME stop = "stopped" PROVE q = <<>> /\ size = 0 /\ unsent \cup handled \cup lost = Cmds
  <2>1. q = <<>> /\ size = 0 /\ Len(q) = 0
    BY <1>1, <1>4 DEF DispStages
  <2>2. \A t \in D!Senders : dpc[t] \in {"exited", "idle"}
    BY <1>1, <1>4 DEF DispStages, D!Senders
  <2>3. \A c \in Cmds : ~Made(c) /\ ~InQ(c) /\ ~Popped(c)
    BY <2>1, <2>2 DEF Made, InQ, Popped, Popping
  <2>4. \A c \in Cmds : c \in unsent \/ Done(c)
    BY <1>1, <2>3 DEF DispQueue, DispPlaced
  <2> QED BY <1>1, <2>1, <2>4 DEF DispTypes, Done
<1>5. D!StopDrains
  BY <1>1, <1>4 DEF D!StopDrains, DispQueue, DispApart
<1> QED BY <1>1, <1>3, <1>5 DEF DispBytes

-----------------------------------------------------------------------------
(* The node.  1. Types.                                                    *)
NodePc == {"idle", "next", "recv", "tell", "pop", "more", "pending", "take", "rest", "sendto",
           "blocked", "arm", "left"}
NodeEvents == {"receive", "send", "error", "shutdown"}
Told == [event : NodeEvents, d : Out \cup {None}]
NodeWk == [pc : NodePc, d : Out \cup {None}, n : 0 .. MaxReads]
NodeTypes ==
  /\ nstate \in {"stopped", "starting", "started", "stopping"}
  /\ nend \in {"none", "close", "wait", "shutdown", "release", "reset"}
  /\ recvQueue \in Nat /\ extra \in Nat /\ sndBuff \in Seq(Out) /\ told \in Seq(Told)
  /\ nwk \in [Workers -> NodeWk]
  /\ sending \in [Out -> {"new", "asks", "taken", "refused", "past"}]
  /\ nbudget \in [N!Events -> Nat]

(* 2. Which call is under way, and what it leaves.                         *)
AllLeft == nstate = "stopped" \/ nend \in {"shutdown", "release", "reset"}
NodeStages ==
  /\ nend # "none" <=> nstate = "stopping"
  /\ AllLeft => /\ \A w \in Workers : nwk[w].pc = "left"
                /\ ncmds = <<>> /\ \A o \in Out : sending[o] # "asks"
  /\ nstate = "stopped" \/ nend = "reset" => recvQueue = 0 /\ sndBuff = <<>> /\ extra = 0
  /\ \A i \in 1 .. Len(told) :
       told[i].event = "shutdown" => i = Len(told) /\ (nstate = "stopped" \/ nend \in {"release", "reset"})

(* 3. The places of a datagram.                                            *)
InBuff(o) == \E i \in 1 .. Len(sndBuff) : sndBuff[i] = o
AtHand(o) == \E w \in Workers : nwk[w].d = o
WasTold(o) == \E i \in 1 .. Len(told) : told[i].d = o
NodeApart ==
  /\ \A i, j \in 1 .. Len(sndBuff) : sndBuff[i] = sndBuff[j] => i = j
  /\ \A v, w \in Workers : nwk[v].d # None /\ nwk[v].d = nwk[w].d => v = w
  /\ \A i, j \in 1 .. Len(told) : told[i].d # None /\ told[i].d = told[j].d => i = j
  /\ \A w \in Workers : nwk[w].d # None <=> nwk[w].pc \in {"sendto", "blocked"}
NodePlaced ==
  \A o \in Out :
    /\ InBuff(o) => ~AtHand(o) /\ ~WasTold(o)
    /\ AtHand(o) => ~WasTold(o)
    /\ InBuff(o) \/ AtHand(o) \/ WasTold(o) => sending[o] \in {"asks", "taken"}
    /\ nstate \in {"starting", "started"} /\ sending[o] \in {"asks", "taken"}
         => InBuff(o) \/ AtHand(o) \/ WasTold(o)

(* 4. What empty datagrams are counted as.                                 *)
Owed == {o \in Empty : InBuff(o) \/ AtHand(o)}
NodeCounted == Cardinality(Owed) <= extra

NodeInv == NodeTypes /\ NodeStages /\ NodeApart /\ NodePlaced /\ NodeCounted

-----------------------------------------------------------------------------
(* A step of a worker that has no datagram in its hands.                   *)

(* The elements of the sequences.                                          *)
LEMMA NodeSeqs ==
  ASSUME NodeTypes
  PROVE  /\ sndBuff \in Seq(Out) /\ Len(sndBuff) \in Nat
         /\ \A i \in 1 .. Len(sndBuff) : sndBuff[i] \in Out
         /\ told \in Seq(Told) /\ Len(told) \in Nat
<1>1. sndBuff \in Seq(Out) /\ told \in Seq(Told)
  BY DEF NodeTypes
<1> QED BY <1>1, ElementOfSeq, LenProperties

(* The listener is told of one thing more.                                 *)
LEMMA TellMore ==
  ASSUME NodeTypes, NEW e \in NodeEvents, NEW d \in Out \cup {None}, N!Fire(e, d),
         \A i, j \in 1 .. Len(told) : told[i].d # None /\ told[i].d = told[j].d => i = j,
         d # None => ~WasTold(d)
  PROVE  /\ told' \in Seq(Told) /\ Len(told) \in Nat /\ Len(told') = Len(told) + 1
         /\ \A i \in 1 .. Len(told) : told'[i] = told[i]
         /\ told'[Len(told) + 1] = [event |-> e, d |-> d]
         /\ \A o \in Out : WasTold(o)' <=> WasTold(o) \/ o = d
         /\ \A i, j \in 1 .. Len(told') : told'[i].d # None /\ told'[i].d = told'[j].d => i = j
<1> DEFINE new == [event |-> e, d |-> d]
<1>1. told' = Append(told, new) /\ new \in Told /\ new.d = d
  BY DEF N!Fire, Told
<1>2. new.event = e
  OBVIOUS
<1> HIDE DEF new
<1>3. told \in Seq(Told) /\ Len(told) \in Nat
  BY NodeSeqs
<1>4. /\ told' \in Seq(Told) /\ Len(told') = Len(told) + 1
      /\ \A i \in 1 .. Len(told) : told'[i] = told[i]
      /\ told'[Len(told) + 1] = new
  BY <1>1, <1>3, AppendProperties
<1>5. \A i \in 1 .. Len(told') : i \in 1 .. Len(told) \/ i = Len(told) + 1
  BY <1>3, <1>4
<1>6. 1 .. Len(told) \subseteq 1 .. Len(told') /\ Len(told) + 1 \in 1 .. Len(told')
  BY <1>3, <1>4
<1>7. \A o \in Out : WasTold(o)' <=> WasTold(o) \/ o = d
  BY <1>1, <1>4, <1>5, <1>6 DEF WasTold
<1>8. \A i, j \in 1 .. Len(told') : told'[i].d # None /\ told'[i].d = told'[j].d => i = j
  BY <1>1, <1>4, <1>5 DEF WasTold
<1> QED BY <1>3, <1>4, <1>7, <1>8 DEF new

(* While a worker works, the stop is not so far.                           *)
Quiet == \A i \in 1 .. Len(told) : told[i].event # "shutdown"
LEMMA StillWorks ==
  ASSUME NodeStages, ~AllLeft
  PROVE  Quiet /\ ~(nstate = "stopped" \/ nend = "reset")
BY DEF NodeStages, AllLeft, Quiet

LEMMA StagesGoOn ==
  ASSUME NodeStages, ~AllLeft, UNCHANGED <<nstate, nend>>, Quiet'
  PROVE  NodeStages'
BY DEF NodeStages, AllLeft, Quiet

LEMMA NodeQuiet ==
  ASSUME NodeInv, NEW w \in Workers, nwk[w].pc \notin {"left", "sendto", "blocked"},
         nwk' \in [Workers -> NodeWk], \A v \in Workers : v # w => nwk'[v] = nwk[v],
         nwk'[w].d = None, nwk'[w].pc \notin {"sendto", "blocked"},
         told' = told \/ \E e \in NodeEvents : e # "shutdown" /\ N!Fire(e, None),
         recvQueue' \in Nat, UNCHANGED <<nstate, sndBuff, extra, sending, nend, nbudget>>
  PROVE  NodeInv'
<1>1. NodeTypes /\ NodeStages /\ NodeApart /\ NodePlaced /\ NodeCounted
  BY DEF NodeInv
<1>2. nwk[w].d = None
  BY <1>1 DEF NodeApart
<1>3. \A o \in Out : AtHand(o)' <=> AtHand(o)
  BY <1>2, OutAssumption DEF AtHand
<1>4. ~AllLeft /\ Quiet
  BY <1>1, StillWorks DEF NodeStages
<1>5. /\ told' \in Seq(Told) /\ Quiet'
      /\ \A o \in Out : WasTold(o)' <=> WasTold(o)
      /\ \A i, j \in 1 .. Len(told') : told'[i].d # None /\ told'[i].d = told'[j].d => i = j
  <2>1. CASE told' = told
    BY <1>1, <1>4, <2>1 DEF NodeTypes, NodeApart, Quiet, WasTold
  <2>2. CASE \E e \in NodeEvents : e # "shutdown" /\ N!Fire(e, None)
    <3>1. PICK e \in NodeEvents : e # "shutdown" /\ N!Fire(e, None)
      BY <2>2
    <3>2. /\ told' \in Seq(Told) /\ Len(told) \in Nat /\ Len(told') = Len(told) + 1
          /\ \A i \in 1 .. Len(told) : told'[i] = told[i]
          /\ told'[Len(told) + 1] = [event |-> e, d |-> None]
          /\ \A o \in Out : WasTold(o)' <=> WasTold(o) \/ o = None
          /\ \A i, j \in 1 .. Len(told') : told'[i].d # None /\ told'[i].d = told'[j].d => i = j
      BY <1>1, <3>1, TellMore DEF NodeApart
    <3>3. \A i \in 1 .. Len(told') : i \in 1 .. Len(told) \/ i = Len(told) + 1
      BY <3>2
    <3>4. Quiet'
      BY <1>4, <3>1, <3>2, <3>3 DEF Quiet
    <3> QED BY <3>2, <3>4, OutAssumption
  <2> QED BY <2>1, <2>2
<1>6. NodeTypes'
  BY <1>1, <1>5 DEF NodeTypes
<1>7. NodeStages'
  BY <1>1, <1>4, <1>5, StagesGoOn
<1>8. NodeApart'
  BY <1>1, <1>2, <1>5 DEF NodeApart
<1>9. \A o \in Out : InBuff(o)' <=> InBuff(o)
  BY DEF InBuff
<1>10. NodePlaced'
  BY <1>1, <1>3, <1>5, <1>9 DEF NodePlaced
<1>11. Owed' = Owed
  BY <1>3, <1>9, OutAssumption DEF Owed
<1>12. NodeCounted'
  BY <1>1, <1>11 DEF NodeCounted
<1> QED BY <1>6, <1>7, <1>8, <1>10, <1>12 DEF NodeInv

(* A worker goes on, with nothing in its hands.                            *)
LEMMA NodeGoes ==
  ASSUME NodeTypes, NodeApart, NEW w \in Workers, nwk[w].pc \notin {"sendto", "blocked"},
         NEW p \in NodePc, N!Goto(w, p)
  PROVE  /\ nwk' \in [Workers -> NodeWk] /\ nwk'[w].pc = p /\ nwk'[w].d = None
         /\ \A v \in Workers : v # w => nwk'[v] = nwk[v]
<1>1. nwk[w] \in NodeWk /\ nwk[w].d = None
  BY DEF NodeTypes, NodeApart
<1>2. nwk' = [nwk EXCEPT ![w].pc = p]
  BY DEF N!Goto
<1>3. [nwk[w] EXCEPT !.pc = p] \in NodeWk /\ [nwk[w] EXCEPT !.pc = p].d = None
  BY <1>1 DEF NodeWk
<1>4. nwk'[w] = [nwk[w] EXCEPT !.pc = p]
  BY <1>2 DEF NodeTypes
<1> QED BY <1>1, <1>2, <1>3, <1>4 DEF NodeTypes, NodeWk

LEMMA NodeTurns ==
  ASSUME NodeTypes, NEW w \in Workers, NEW p \in NodePc, NEW n \in 0 .. MaxReads,
         nwk' = [nwk EXCEPT ![w] = [pc |-> p, d |-> None, n |-> n]]
  PROVE  /\ nwk' \in [Workers -> NodeWk] /\ nwk'[w].pc = p /\ nwk'[w].d = None
         /\ \A v \in Workers : v # w => nwk'[v] = nwk[v]
<1>1. [pc |-> p, d |-> None, n |-> n] \in NodeWk
  BY DEF NodeWk
<1> QED BY <1>1 DEF NodeTypes

(* A worker has a command, or ends one.                                    *)
LEMMA CommandInv ==
  ASSUME NodeInv, NEW w \in Workers, nwk[w].pc \notin {"left", "sendto", "blocked"},
         NEW p \in {"idle", "next", "pending", "pop"}, NEW n \in {0, MaxReads},
         nwk' = [nwk EXCEPT ![w] = [pc |-> p, d |-> None, n |-> n]],
         UNCHANGED <<nstate, recvQueue, sndBuff, extra, sending, nend, nbudget, told>>
  PROVE  NodeInv'
<1>1. NodeTypes
  BY DEF NodeInv
<1>2. /\ nwk' \in [Workers -> NodeWk] /\ nwk'[w].pc = p /\ nwk'[w].d = None
      /\ \A v \in Workers : v # w => nwk'[v] = nwk[v]
  <2>1. n \in 0 .. MaxReads /\ p \in NodePc
    BY OutAssumption DEF NodePc
  <2> QED BY <1>1, <2>1, NodeTurns
<1> QED BY <1>1, <1>2, NodeQuiet DEF NodeTypes

(* Receiving, and the parts of sending that leave the datagrams alone.     *)
LEMMA ReadyReadInv ==
  ASSUME NodeInv, NEW w \in Workers, N!OnReadyRead(w)
  PROVE  NodeInv'
<1>1. NodeTypes /\ NodeApart
  BY DEF NodeInv
<1>2. /\ nwk[w].pc = "idle" /\ N!Goto(w, "recv")
      /\ UNCHANGED <<nstate, recvQueue, sndBuff, extra, sending, nend, nbudget, told>>
  BY DEF N!OnReadyRead, N!At
<1>3. /\ nwk' \in [Workers -> NodeWk] /\ nwk'[w].pc = "recv" /\ nwk'[w].d = None
      /\ \A v \in Workers : v # w => nwk'[v] = nwk[v]
  BY <1>1, <1>2, NodeGoes DEF NodePc
<1> QED BY <1>1, <1>2, <1>3, NodeQuiet DEF NodeTypes

LEMMA RecvFromInv ==
  ASSUME NodeInv, NEW w \in Workers, N!RecvFrom(w)
  PROVE  NodeInv'
<1>1. NodeTypes /\ NodeApart
  BY DEF NodeInv
<1>2. /\ nwk[w].pc = "recv" /\ recvQueue \in Nat
      /\ UNCHANGED <<nstate, sndBuff, extra, sending, nend, nbudget>>
  BY <1>1 DEF N!RecvFrom, N!At, NodeTypes
<1>3. CASE nwk' = [nwk EXCEPT ![w] = N!Idle] /\ UNCHANGED <<recvQueue, told>>
  <2>1. nwk' = [nwk EXCEPT ![w] = [pc |-> "idle", d |-> None, n |-> 0]]
    BY <1>3 DEF N!Idle
  <2> QED BY <1>2, <1>3, <2>1, CommandInv
<1>4. CASE recvQueue' = recvQueue + 1 /\ N!Goto(w, "tell") /\ told' = told
  <2>1. /\ nwk' \in [Workers -> NodeWk] /\ nwk'[w].pc = "tell" /\ nwk'[w].d = None
        /\ \A v \in Workers : v # w => nwk'[v] = nwk[v]
    BY <1>1, <1>2, <1>4, NodeGoes DEF NodePc
  <2> QED BY <1>2, <1>4, <2>1, NodeQuiet
<1>5. CASE recvQueue' = recvQueue /\ nwk' = nwk /\ N!Fire("error", None)
  <2>1. nwk[w].d = None
    BY <1>1, <1>2 DEF NodeApart
  <2>2. \E e \in NodeEvents : e # "shutdown" /\ N!Fire(e, None)
    <3>1. "error" \in NodeEvents /\ "error" # "shutdown"
      BY DEF NodeEvents
    <3> QED BY <1>5, <3>1
  <2>3. nwk' \in [Workers -> NodeWk] /\ \A v \in Workers : v # w => nwk'[v] = nwk[v]
    BY <1>1, <1>5 DEF NodeTypes
  <2> QED BY <1>2, <1>5, <2>1, <2>2, <2>3, NodeQuiet
<1> QED BY <1>3, <1>4, <1>5 DEF N!RecvFrom

LEMMA TellInv ==
  ASSUME NodeInv, NEW w \in Workers, N!Tell(w)
  PROVE  NodeInv'
<1>1. NodeTypes /\ NodeApart
  BY DEF NodeInv
<1>2. /\ nwk[w].pc = "tell" /\ N!Goto(w, "recv")
      /\ UNCHANGED <<nstate, recvQueue, sndBuff, extra, sending, nend, nbudget, told>>
  BY DEF N!Tell, N!At
<1>3. /\ nwk' \in [Workers -> NodeWk] /\ nwk'[w].pc = "recv" /\ nwk'[w].d = None
      /\ \A v \in Workers : v # w => nwk'[v] = nwk[v]
  BY <1>1, <1>2, NodeGoes DEF NodePc
<1> QED BY <1>1, <1>2, <1>3, NodeQuiet DEF NodeTypes

LEMMA TakeCommandInv ==
  ASSUME NodeInv, NEW w \in Workers,
         N!TakeCommand(w) \/ N!MoreCommands(w) \/ N!NoCommand(w) \/ N!More(w) \/ N!Arm(w) \/ N!Rest(w)
  PROVE  NodeInv'
<1>1. /\ nwk[w].pc \in {"idle", "next", "more", "arm", "rest"}
      /\ UNCHANGED <<nstate, recvQueue, sndBuff, extra, sending, nend, nbudget, told>>
  BY DEF N!TakeCommand, N!MoreCommands, N!NoCommand, N!More, N!Arm, N!Rest, N!OnCommand, N!At
<1>2. /\ N!Idle = [pc |-> "idle", d |-> None, n |-> 0]
      /\ N!NextCommand = [pc |-> "next", d |-> None, n |-> 0]
      /\ [N!Idle EXCEPT !.pc = "pending"] = [pc |-> "pending", d |-> None, n |-> 0]
  <2>1. N!Idle = [pc |-> "idle", d |-> None, n |-> 0]
    BY DEF N!Idle
  <2>2. N!NextCommand = [pc |-> "next", d |-> None, n |-> 0]
    BY <2>1 DEF N!NextCommand
  <2>3. [N!Idle EXCEPT !.pc = "pending"] = [pc |-> "pending", d |-> None, n |-> 0]
    BY <2>1
  <2> QED BY <2>1, <2>2, <2>3
<1>3. \E p \in {"idle", "next", "pending", "pop"} : \E n \in {0, MaxReads} :
        nwk' = [nwk EXCEPT ![w] = [pc |-> p, d |-> None, n |-> n]]
  <2>1. CASE N!OnCommand(w)
    <3> DEFINE r == IF Head(ncmds) = "send" THEN [N!Idle EXCEPT !.pc = "pending"]
                    ELSE IF recvQueue > 0 THEN [pc |-> "pop", d |-> None, n |-> MaxReads]
                    ELSE N!NextCommand
    <3>1. nwk' = [nwk EXCEPT ![w] = r]
      BY <2>1 DEF N!OnCommand
    <3>2. r \in {[N!Idle EXCEPT !.pc = "pending"], [pc |-> "pop", d |-> None, n |-> MaxReads],
                N!NextCommand}
      OBVIOUS
    <3> HIDE DEF r
    <3> QED BY <1>2, <3>1, <3>2
  <2>2. CASE N!NoCommand(w) \/ N!More(w) \/ N!Arm(w) \/ N!Rest(w)
    BY <1>2, <2>2 DEF N!NoCommand, N!More, N!Arm, N!Rest
  <2> QED BY <2>1, <2>2 DEF N!TakeCommand, N!MoreCommands
<1> QED BY <1>1, <1>3, CommandInv

LEMMA PopRecvInv ==
  ASSUME NodeInv, NEW w \in Workers, N!Pop(w)
  PROVE  NodeInv'
<1>1. NodeTypes /\ NodeApart
  BY DEF NodeInv
<1>2. /\ nwk[w].pc = "pop" /\ UNCHANGED <<nstate, sndBuff, extra, sending, nend, nbudget>>
  BY DEF N!Pop, N!At
<1>3. CASE nwk[w].n > 0 /\ recvQueue > 0
  <2>1. /\ recvQueue' = recvQueue - 1 /\ nwk' = [nwk EXCEPT ![w].n = @ - 1]
        /\ N!Fire("receive", None)
    BY <1>3 DEF N!Pop
  <2>2. nwk[w] \in NodeWk /\ nwk[w].d = None
    BY <1>1, <1>2 DEF NodeTypes, NodeApart
  <2>3. nwk[w].n - 1 \in 0 .. MaxReads
    BY <1>3, <2>2, OutAssumption DEF NodeWk
  <2>4. nwk'[w] = [nwk[w] EXCEPT !.n = @ - 1] /\ \A v \in Workers : v # w => nwk'[v] = nwk[v]
    BY <1>1, <2>1 DEF NodeTypes
  <2>5. nwk'[w] \in NodeWk /\ nwk'[w].d = None /\ nwk'[w].pc = "pop"
    BY <1>2, <2>2, <2>3, <2>4 DEF NodeWk
  <2>6. nwk' \in [Workers -> NodeWk]
    BY <1>1, <2>1, <2>4, <2>5 DEF NodeTypes
  <2>7. recvQueue' \in Nat
    BY <1>1, <1>3, <2>1 DEF NodeTypes
  <2>8. \E e \in NodeEvents : e # "shutdown" /\ N!Fire(e, None)
    <3>1. "receive" \in NodeEvents /\ "receive" # "shutdown"
      BY DEF NodeEvents
    <3> QED BY <2>1, <3>1
  <2> QED BY <1>2, <2>4, <2>5, <2>6, <2>7, <2>8, NodeQuiet
<1>4. CASE ~(nwk[w].n > 0 /\ recvQueue > 0)
  <2>1. N!Goto(w, "more") /\ UNCHANGED <<recvQueue, told>>
    BY <1>4 DEF N!Pop
  <2>2. /\ nwk' \in [Workers -> NodeWk] /\ nwk'[w].pc = "more" /\ nwk'[w].d = None
        /\ \A v \in Workers : v # w => nwk'[v] = nwk[v]
    BY <1>1, <1>2, <2>1, NodeGoes DEF NodePc
  <2> QED BY <1>1, <1>2, <2>1, <2>2, NodeQuiet DEF NodeTypes
<1> QED BY <1>3, <1>4

LEMMA PendingInv ==
  ASSUME NodeInv, NEW w \in Workers, N!Pending(w) \/ N!Leave(w)
  PROVE  NodeInv'
<1>1. NodeTypes /\ NodeApart
  BY DEF NodeInv
<1>2. PICK p \in {"take", "rest", "left"} : N!Goto(w, p)
  BY DEF N!Pending, N!Leave
<1>3. /\ nwk[w].pc \in {"pending", "idle"}
      /\ UNCHANGED <<nstate, recvQueue, sndBuff, extra, sending, nend, nbudget, told>>
  BY DEF N!Pending, N!Leave, N!At
<1>4. /\ nwk' \in [Workers -> NodeWk] /\ nwk'[w].pc = p /\ nwk'[w].d = None
      /\ \A v \in Workers : v # w => nwk'[v] = nwk[v]
  BY <1>1, <1>2, <1>3, NodeGoes DEF NodePc
<1> QED BY <1>1, <1>3, <1>4, NodeQuiet DEF NodeTypes

-----------------------------------------------------------------------------
(* The steps of the application and of Stop().                             *)
LEMMA SpendOne ==
  ASSUME NodeTypes, NEW e \in N!Events, N!Spend(e)
  PROVE  nbudget' \in [N!Events -> Nat]
BY DEF NodeTypes, N!Spend

LEMMA PlacesStay ==
  ASSUME NodeInv, UNCHANGED <<sndBuff, extra, nwk, told>>
  PROVE  /\ NodeApart' /\ NodeCounted'
         /\ \A o \in Out : /\ InBuff(o)' <=> InBuff(o)
                           /\ AtHand(o)' <=> AtHand(o)
                           /\ WasTold(o)' <=> WasTold(o)
<1>1. \A o : /\ InBuff(o)' <=> InBuff(o)
             /\ AtHand(o)' <=> AtHand(o)
             /\ WasTold(o)' <=> WasTold(o)
  BY DEF InBuff, AtHand, WasTold
<1>2. Owed' = Owed
  BY <1>1 DEF Owed
<1> QED BY <1>1, <1>2 DEF NodeInv, NodeApart, NodeCounted

(* Start(): the datagrams of before are past.                              *)
LEMMA NodeStartInv ==
  ASSUME NodeInv, N!Start
  PROVE  NodeInv'
<1>1. NodeTypes /\ NodeStages /\ NodeApart /\ NodePlaced /\ NodeCounted
  BY DEF NodeInv
<1>2. /\ nstate = "stopped" /\ nend = "none" /\ told' = <<>>
      /\ nwk' = [w \in Workers |-> N!Idle]
      /\ \/ nstate' = "starting" /\ nend' = "none"
         \/ nstate' = "stopping" /\ nend' = "close"
      /\ sending' = [o \in Out |-> IF sending[o] = "taken" THEN "past" ELSE sending[o]]
      /\ UNCHANGED <<recvQueue, sndBuff, extra>>
      /\ N!Spend("start")
  BY DEF N!Start
<1>3. /\ recvQueue = 0 /\ sndBuff = <<>> /\ extra = 0 /\ \A o \in Out : sending[o] # "asks"
  BY <1>1, <1>2 DEF NodeStages, AllLeft
<1>4. Len(sndBuff') = 0 /\ Len(told') = 0 /\ Len(sndBuff) = 0
  BY <1>2, <1>3
<1>5. N!Idle = [pc |-> "idle", d |-> None, n |-> 0] /\ N!Idle \in NodeWk
  BY OutAssumption DEF N!Idle, NodeWk, NodePc
<1>6. \A w \in Workers : nwk'[w].pc = "idle" /\ nwk'[w].d = None
  BY <1>2, <1>5
<1>7. NodeTypes'
  <2>1. nwk' \in [Workers -> NodeWk]
    BY <1>2, <1>5
  <2>2. sending' \in [Out -> {"new", "asks", "taken", "refused", "past"}]
    BY <1>1, <1>2 DEF NodeTypes
  <2>3. nbudget' \in [N!Events -> Nat]
    BY <1>1, <1>2, SpendOne DEF N!Events
  <2>4. told' \in Seq(Told)
    BY <1>2
  <2> QED BY <1>1, <1>2, <2>1, <2>2, <2>3, <2>4 DEF NodeTypes
<1>8. NodeStages'
  BY <1>2, <1>4 DEF NodeStages, AllLeft
<1>9. NodeApart'
  BY <1>4, <1>6 DEF NodeApart
<1>10. \A o \in Out : ~InBuff(o)' /\ ~AtHand(o)' /\ ~WasTold(o)' /\ sending'[o] \notin {"asks", "taken"}
  <2>1. \A o \in Out : sending'[o] \notin {"asks", "taken"}
    BY <1>2, <1>3
  <2> QED BY <1>4, <1>6, <2>1, OutAssumption DEF InBuff, AtHand, WasTold
<1>11. NodePlaced'
  BY <1>10 DEF NodePlaced
<1>12. NodeCounted'
  <2>1. Owed' = {}
    BY <1>10, OutAssumption DEF Owed
  <2>2. Cardinality(Owed') = 0
    BY <2>1, FS_EmptySet
  <2> QED BY <1>2, <1>3, <2>2 DEF NodeCounted
<1> QED BY <1>7, <1>8, <1>9, <1>11, <1>12 DEF NodeInv

(* The end of Start(), what arrives, and Stop() until the workers are gone. *)
LEMMA NodeCallInv ==
  ASSUME NodeInv,
         \/ N!SetStarted \/ N!CheckStoping \/ N!CloseListenSocket \/ N!WaitForWorkerThreadEnd
         \/ \E k \in N!Kinds : N!Arrive(k)
  PROVE  NodeInv'
<1>1. NodeTypes /\ NodeStages /\ NodePlaced
  BY DEF NodeInv
<1>2. UNCHANGED <<recvQueue, sndBuff, extra, nwk, sending, told>>
  BY DEF N!SetStarted, N!CheckStoping, N!CloseListenSocket, N!WaitForWorkerThreadEnd, N!Arrive
<1>3. /\ NodeApart' /\ NodeCounted'
      /\ \A o \in Out : /\ InBuff(o)' <=> InBuff(o)
                        /\ AtHand(o)' <=> AtHand(o)
                        /\ WasTold(o)' <=> WasTold(o)
  BY <1>2, PlacesStay
<1>4. \/ nstate' = nstate
      \/ nstate = "starting" /\ nstate' = "started"
      \/ nstate = "started" /\ nstate' = "stopping"
  BY DEF N!SetStarted, N!CheckStoping, N!CloseListenSocket, N!WaitForWorkerThreadEnd, N!Arrive
<1>5. NodePlaced'
  BY <1>1, <1>2, <1>3, <1>4 DEF NodePlaced
<1>6. nbudget' \in [N!Events -> Nat]
  <2>1. CASE UNCHANGED nbudget
    BY <1>1, <2>1 DEF NodeTypes
  <2>2. CASE N!CheckStoping
    BY <1>1, <2>2, SpendOne DEF N!CheckStoping, N!Events
  <2>3. CASE \E k \in N!Kinds : N!Arrive(k)
    BY <1>1, <2>3, SpendOne DEF N!Arrive, N!Events
  <2> QED BY <2>1, <2>2, <2>3 DEF N!SetStarted, N!CloseListenSocket, N!WaitForWorkerThreadEnd
<1>7. nend' \in {"none", "close", "wait", "shutdown", "release", "reset"}
  BY <1>1 DEF NodeTypes, N!SetStarted, N!CheckStoping, N!CloseListenSocket,
              N!WaitForWorkerThreadEnd, N!Arrive
<1>8. NodeTypes'
  BY <1>1, <1>2, <1>4, <1>6, <1>7 DEF NodeTypes
<1>9. NodeStages'
  <2>1. CASE N!SetStarted
    BY <1>1, <1>2, <2>1 DEF N!SetStarted, NodeStages, AllLeft
  <2>2. CASE N!CheckStoping
    BY <1>1, <1>2, <2>2 DEF N!CheckStoping, NodeStages, AllLeft
  <2>3. CASE N!CloseListenSocket
    BY <1>1, <1>2, <2>3 DEF N!CloseListenSocket, NodeStages, AllLeft
  <2>4. CASE N!WaitForWorkerThreadEnd
    BY <1>1, <1>2, <2>4 DEF N!WaitForWorkerThreadEnd, N!At, NodeStages, AllLeft
  <2>5. CASE \E k \in N!Kinds : N!Arrive(k)
    BY <1>1, <1>2, <2>5 DEF N!Arrive, NodeStages, AllLeft
  <2> QED BY <2>1, <2>2, <2>3, <2>4, <2>5
<1> QED BY <1>3, <1>5, <1>8, <1>9 DEF NodeInv

(* OnShutdown is told when everybody has left.                             *)
LEMMA FireShutdownInv ==
  ASSUME NodeInv, N!FireShutdown
  PROVE  NodeInv'
<1>1. NodeTypes /\ NodeStages /\ NodeApart /\ NodePlaced /\ NodeCounted
  BY DEF NodeInv
<1>2. /\ nend = "shutdown" /\ nend' = "release" /\ N!Fire("shutdown", None)
      /\ UNCHANGED <<nstate, recvQueue, sndBuff, extra, ncmds, nwk, sending, nbudget>>
  BY DEF N!FireShutdown
<1>3. /\ told' \in Seq(Told) /\ Len(told) \in Nat /\ Len(told') = Len(told) + 1
      /\ \A i \in 1 .. Len(told) : told'[i] = told[i]
      /\ told'[Len(told) + 1] = [event |-> "shutdown", d |-> None]
      /\ \A o \in Out : WasTold(o)' <=> WasTold(o) \/ o = None
      /\ \A i, j \in 1 .. Len(told') : told'[i].d # None /\ told'[i].d = told'[j].d => i = j
  <2>1. "shutdown" \in NodeEvents
    BY DEF NodeEvents
  <2> QED BY <1>1, <1>2, <2>1, TellMore DEF NodeApart
<1>4. \A o \in Out : /\ InBuff(o)' <=> InBuff(o)
                     /\ AtHand(o)' <=> AtHand(o)
                     /\ WasTold(o)' <=> WasTold(o)
  BY <1>2, <1>3, OutAssumption DEF InBuff, AtHand
<1>5. NodeTypes'
  BY <1>1, <1>2, <1>3 DEF NodeTypes
<1>6. nstate = "stopping" /\ \A i \in 1 .. Len(told) : told[i].event # "shutdown"
  BY <1>1, <1>2 DEF NodeStages
<1>7. \A i \in 1 .. Len(told') : told'[i].event = "shutdown" => i = Len(told')
  <2>1. \A i \in 1 .. Len(told') : i \in 1 .. Len(told) \/ i = Len(told')
    BY <1>3
  <2> QED BY <1>3, <1>6, <2>1
<1>8. NodeStages'
  <2>1. AllLeft
    BY <1>2 DEF AllLeft
  <2> QED BY <1>1, <1>2, <1>6, <1>7, <2>1 DEF NodeStages, AllLeft
<1>9. NodeApart'
  BY <1>1, <1>2, <1>3 DEF NodeApart
<1>10. NodePlaced'
  BY <1>1, <1>2, <1>4 DEF NodePlaced
<1>11. Owed' = Owed
  BY <1>4, OutAssumption DEF Owed
<1>12. NodeCounted'
  BY <1>1, <1>2, <1>11 DEF NodeCounted
<1> QED BY <1>5, <1>8, <1>9, <1>10, <1>12 DEF NodeInv

(* What is not sent is thrown away.                                        *)
LEMMA ReleaseInv ==
  ASSUME NodeInv, N!ReleaseFreeBuffer
  PROVE  NodeInv'
<1>1. NodeTypes /\ NodeStages /\ NodeApart /\ NodePlaced /\ NodeCounted
  BY DEF NodeInv
<1>2. /\ nend = "release" /\ nend' = "reset" /\ recvQueue' = 0 /\ sndBuff' = <<>> /\ extra' = 0
      /\ UNCHANGED <<nstate, ncmds, nwk, sending, nbudget, told>>
  BY DEF N!ReleaseFreeBuffer
<1>3. AllLeft
  BY <1>2 DEF AllLeft
<1>4. \A w \in Workers : nwk[w].d = None
  BY <1>1, <1>3 DEF NodeStages, NodeApart
<1>5. Len(sndBuff') = 0
  BY <1>2
<1>6. \A o \in Out : ~InBuff(o)' /\ ~AtHand(o)' /\ ~AtHand(o) /\ (WasTold(o)' <=> WasTold(o))
  BY <1>2, <1>4, <1>5, OutAssumption DEF InBuff, AtHand, WasTold
<1>7. NodeTypes'
  <2>1. sndBuff' \in Seq(Out)
    BY <1>2
  <2> QED BY <1>1, <1>2, <2>1 DEF NodeTypes
<1>8. nstate = "stopping"
  BY <1>1, <1>2 DEF NodeStages
<1>9. NodeStages'
  BY <1>1, <1>2, <1>3, <1>8 DEF NodeStages, AllLeft
<1>10. NodeApart'
  BY <1>1, <1>2, <1>5 DEF NodeApart
<1>11. NodePlaced'
  BY <1>1, <1>2, <1>6, <1>8 DEF NodePlaced
<1>12. NodeCounted'
  <2>1. Owed' = {}
    BY <1>6, OutAssumption DEF Owed
  <2>2. Cardinality(Owed') = 0
    BY <2>1, FS_EmptySet
  <2> QED BY <1>2, <2>2 DEF NodeCounted
<1> QED BY <1>7, <1>9, <1>10, <1>11, <1>12 DEF NodeInv

LEMMA NodeResetInv ==
  ASSUME NodeInv, N!Reset
  PROVE  NodeInv'
<1>1. NodeTypes /\ NodeStages /\ NodePlaced
  BY DEF NodeInv
<1>2. /\ nend = "reset" /\ nend' = "none" /\ nstate' = "stopped"
      /\ UNCHANGED <<recvQueue, sndBuff, extra, ncmds, nwk, sending, nbudget, told>>
  BY DEF N!Reset
<1>3. /\ NodeApart' /\ NodeCounted'
      /\ \A o \in Out : /\ InBuff(o)' <=> InBuff(o)
                        /\ AtHand(o)' <=> AtHand(o)
                        /\ WasTold(o)' <=> WasTold(o)
  BY <1>2, PlacesStay
<1>4. NodeTypes' /\ NodeStages' /\ NodePlaced'
  BY <1>1, <1>2, <1>3 DEF NodeTypes, NodeStages, AllLeft, NodePlaced
<1> QED BY <1>3, <1>4 DEF NodeInv

-----------------------------------------------------------------------------
(* The steps of a datagram.                                                *)
LEMMA OwedFinite ==
  IsFiniteSet(Owed) /\ Cardinality(Owed) \in Nat /\ IsFiniteSet(Owed') /\ Cardinality(Owed') \in Nat
<1>1. IsFiniteSet(Owed) /\ IsFiniteSet(Owed')
  BY OutAssumption, FS_Subset DEF Owed
<1> QED BY <1>1, FS_CardinalityType

(* As many are owed as before, or fewer.                                   *)
LEMMA OwedNoMore ==
  ASSUME NodeCounted, extra \in Nat, extra' = extra, Owed' \subseteq Owed
  PROVE  NodeCounted'
<1>1. Cardinality(Owed') <= Cardinality(Owed)
  BY OwedFinite, FS_Subset
<1> QED BY <1>1, OwedFinite DEF NodeCounted

(* SendInternal() takes a datagram, or refuses it.                         *)
LEMMA NodeSendInv ==
  ASSUME NodeInv, NEW o \in Out, N!Send(o)
  PROVE  NodeInv'
<1>1. NodeTypes /\ NodeStages /\ NodeApart /\ NodePlaced /\ NodeCounted
  BY DEF NodeInv
<1>2. /\ sending[o] = "new" /\ UNCHANGED <<nstate, recvQueue, ncmds, nwk, nend, told>>
      /\ N!Spend("send")
  BY DEF N!Send
<1>3. nbudget' \in [N!Events -> Nat]
  BY <1>1, <1>2, SpendOne DEF N!Events
<1>4. ~InBuff(o) /\ ~AtHand(o) /\ ~WasTold(o)
  BY <1>1, <1>2 DEF NodePlaced
<1>5. \A p \in Out : (AtHand(p)' <=> AtHand(p)) /\ (WasTold(p)' <=> WasTold(p))
  BY <1>2 DEF AtHand, WasTold
<1>6. CASE nstate = "started"
  <2>1. PICK s \in {"taken", "asks"} : sending' = [sending EXCEPT ![o] = s]
    BY <1>6 DEF N!Send
  <2>2. /\ sndBuff' = Append(sndBuff, o)
        /\ extra' = IF o \in Empty THEN extra + 1 ELSE extra
    BY <1>6 DEF N!Send
  <2>3. /\ sndBuff' \in Seq(Out) /\ Len(sndBuff) \in Nat /\ Len(sndBuff') = Len(sndBuff) + 1
        /\ \A i \in 1 .. Len(sndBuff) : sndBuff'[i] = sndBuff[i]
        /\ sndBuff'[Len(sndBuff) + 1] = o
    BY <1>1, <2>2, NodeSeqs, AppendProperties
  <2>4. \A i \in 1 .. Len(sndBuff') : i \in 1 .. Len(sndBuff) \/ i = Len(sndBuff) + 1
    BY <2>3
  <2>5. 1 .. Len(sndBuff) \subseteq 1 .. Len(sndBuff') /\ Len(sndBuff) + 1 \in 1 .. Len(sndBuff')
    BY <2>3
  <2>6. \A p \in Out : InBuff(p)' <=> InBuff(p) \/ p = o
    BY <2>3, <2>4, <2>5 DEF InBuff
  <2>7. /\ sending' \in [Out -> {"new", "asks", "taken", "refused", "past"}]
        /\ sending'[o] = s /\ \A p \in Out : p # o => sending'[p] = sending[p]
    BY <1>1, <2>1 DEF NodeTypes
  <2>8. NodeTypes'
    BY <1>1, <1>2, <1>3, <2>2, <2>3, <2>7 DEF NodeTypes
  <2>9. ~AllLeft
    BY <1>1, <1>6 DEF AllLeft, NodeStages
  <2>10. NodeStages'
    BY <1>1, <1>2, <2>9, StillWorks, StagesGoOn DEF Quiet
  <2>11. NodeApart'
    <3>1. \A i, j \in 1 .. Len(sndBuff') : sndBuff'[i] = sndBuff'[j] => i = j
      BY <1>1, <1>4, <2>3, <2>4 DEF NodeApart, InBuff
    <3> QED BY <1>1, <1>2, <3>1 DEF NodeApart
  <2>12. NodePlaced'
    BY <1>1, <1>2, <1>4, <1>5, <2>1, <2>6, <2>7 DEF NodePlaced
  <2>13. NodeCounted'
    <3>1. CASE o \in Empty
      <4>1. Owed' = Owed \cup {o}
        BY <1>5, <2>6, <3>1, OutAssumption DEF Owed
      <4>2. Cardinality(Owed') \in {Cardinality(Owed), Cardinality(Owed) + 1}
        BY <4>1, OwedFinite, FS_AddElement
      <4> QED BY <1>1, <2>2, <3>1, <4>2, OwedFinite DEF NodeTypes, NodeCounted
    <3>2. CASE o \notin Empty
      <4>1. Owed' \subseteq Owed
        BY <1>5, <2>6, <3>2, OutAssumption DEF Owed
      <4> QED BY <1>1, <2>2, <3>2, <4>1, OwedNoMore DEF NodeTypes
    <3> QED BY <3>1, <3>2
  <2> QED BY <2>8, <2>10, <2>11, <2>12, <2>13 DEF NodeInv
<1>7. CASE nstate # "started"
  <2>1. sending' = [sending EXCEPT ![o] = "refused"] /\ UNCHANGED <<sndBuff, extra>>
    BY <1>7 DEF N!Send
  <2>2. /\ NodeApart' /\ NodeCounted'
        /\ \A p \in Out : /\ InBuff(p)' <=> InBuff(p)
                          /\ AtHand(p)' <=> AtHand(p)
                          /\ WasTold(p)' <=> WasTold(p)
    BY <1>2, <2>1, PlacesStay
  <2>3. /\ sending' \in [Out -> {"new", "asks", "taken", "refused", "past"}]
        /\ sending'[o] = "refused" /\ \A p \in Out : p # o => sending'[p] = sending[p]
    BY <1>1, <2>1 DEF NodeTypes
  <2>4. NodeTypes'
    BY <1>1, <1>2, <1>3, <2>1, <2>3 DEF NodeTypes
  <2>5. NodeStages'
    BY <1>1, <1>2, <2>1, <2>3 DEF NodeStages, AllLeft
  <2>6. NodePlaced'
    BY <1>1, <1>2, <1>4, <2>2, <2>3 DEF NodePlaced
  <2> QED BY <2>2, <2>4, <2>5, <2>6 DEF NodeInv
<1> QED BY <1>6, <1>7

(* Send() asks for a worker, or sees that nothing is pending.              *)
LEMMA AskToSendInv ==
  ASSUME NodeInv, NEW o \in Out, N!AskToSend(o)
  PROVE  NodeInv'
<1>1. NodeTypes /\ NodeStages /\ NodePlaced
  BY DEF NodeInv
<1>2. /\ sending[o] = "asks" /\ sending' = [sending EXCEPT ![o] = "taken"]
      /\ UNCHANGED <<nstate, recvQueue, sndBuff, extra, nwk, nend, nbudget, told>>
  BY DEF N!AskToSend
<1>3. /\ NodeApart' /\ NodeCounted'
      /\ \A p \in Out : /\ InBuff(p)' <=> InBuff(p)
                        /\ AtHand(p)' <=> AtHand(p)
                        /\ WasTold(p)' <=> WasTold(p)
  BY <1>2, PlacesStay
<1>4. /\ sending' \in [Out -> {"new", "asks", "taken", "refused", "past"}]
      /\ sending'[o] = "taken" /\ \A p \in Out : p # o => sending'[p] = sending[p]
  BY <1>1, <1>2 DEF NodeTypes
<1>5. NodeTypes'
  BY <1>1, <1>2, <1>4 DEF NodeTypes
<1>6. ~AllLeft
  BY <1>1, <1>2 DEF NodeStages
<1>7. NodeStages'
  BY <1>1, <1>2, <1>6, StillWorks, StagesGoOn DEF Quiet
<1>8. NodePlaced'
  BY <1>1, <1>2, <1>3, <1>4 DEF NodePlaced
<1> QED BY <1>3, <1>5, <1>7, <1>8 DEF NodeInv

(* A worker takes the oldest datagram, if there is one.                    *)
LEMMA PopSendInv ==
  ASSUME NodeInv, NEW w \in Workers, N!PopSend(w)
  PROVE  NodeInv'
<1>1. NodeTypes /\ NodeStages /\ NodeApart /\ NodePlaced /\ NodeCounted
  BY DEF NodeInv
<1>2. /\ nwk[w].pc = "take"
      /\ UNCHANGED <<nstate, recvQueue, extra, ncmds, sending, nend, nbudget, told>>
  BY DEF N!PopSend, N!At
<1>3. nwk[w] \in NodeWk /\ nwk[w].d = None
  BY <1>1, <1>2 DEF NodeTypes, NodeApart
<1>4. CASE sndBuff = <<>>
  <2>1. N!Goto(w, "rest") /\ UNCHANGED sndBuff
    BY <1>4 DEF N!PopSend
  <2>2. /\ nwk' \in [Workers -> NodeWk] /\ nwk'[w].pc = "rest" /\ nwk'[w].d = None
        /\ \A v \in Workers : v # w => nwk'[v] = nwk[v]
    BY <1>1, <1>2, <2>1, NodeGoes DEF NodePc
  <2> QED BY <1>1, <1>2, <2>1, <2>2, NodeQuiet DEF NodeTypes
<1>5. CASE sndBuff # <<>>
  <2> DEFINE o == Head(sndBuff)
  <2>1. /\ sndBuff' = Tail(sndBuff)
        /\ nwk' = [nwk EXCEPT ![w].pc = "sendto", ![w].d = o]
    BY <1>5 DEF N!PopSend
  <2> HIDE DEF o
  <2>2. /\ sndBuff' \in Seq(Out) /\ Len(sndBuff) \in Nat \ {0} /\ Len(sndBuff') = Len(sndBuff) - 1
        /\ \A i \in 1 .. Len(sndBuff') : sndBuff'[i] = sndBuff[i + 1]
    BY <1>1, <1>5, <2>1, NodeSeqs, HeadTailProperties, EmptySeq
  <2>3. o = sndBuff[1] /\ 1 \in 1 .. Len(sndBuff)
    BY <2>2 DEF o
  <2>4. o \in Out /\ o # None /\ InBuff(o)
    BY <1>1, <2>3, NodeSeqs, OutAssumption DEF InBuff
  <2>5. \A i \in 1 .. Len(sndBuff') : i + 1 \in 1 .. Len(sndBuff) /\ i + 1 # 1 /\ sndBuff'[i] = sndBuff[i + 1]
    BY <2>2
  <2>6. \A i \in 1 .. Len(sndBuff) : i # 1 => i - 1 \in 1 .. Len(sndBuff') /\ sndBuff'[i - 1] = sndBuff[i]
    BY <2>2
  <2>7. ASSUME NEW p \in Out PROVE InBuff(p)' <=> InBuff(p) /\ p # o
    <3>1. InBuff(p)' => InBuff(p) /\ p # o
      BY <1>1, <2>3, <2>5 DEF InBuff, NodeApart
    <3>2. InBuff(p) /\ p # o => InBuff(p)'
      BY <2>3, <2>6 DEF InBuff
    <3> QED BY <3>1, <3>2
  <2>8. /\ nwk' \in [Workers -> NodeWk] /\ nwk'[w].pc = "sendto" /\ nwk'[w].d = o
        /\ \A v \in Workers : v # w => nwk'[v] = nwk[v]
    <3>1. nwk'[w] = [nwk[w] EXCEPT !.pc = "sendto", !.d = o]
      BY <1>1, <2>1 DEF NodeTypes
    <3>2. nwk'[w] \in NodeWk /\ nwk'[w].pc = "sendto" /\ nwk'[w].d = o
      BY <1>3, <2>4, <3>1 DEF NodeWk, NodePc
    <3> QED BY <1>1, <2>1, <3>2 DEF NodeTypes
  <2>9. ~AtHand(o) /\ ~WasTold(o)
    BY <1>1, <2>4 DEF NodePlaced
  <2>10. \A p \in Out : AtHand(p)' <=> AtHand(p) \/ p = o
    BY <1>3, <2>8, OutAssumption DEF AtHand
  <2>11. \A p \in Out : WasTold(p)' <=> WasTold(p)
    BY <1>2 DEF WasTold
  <2>12. NodeTypes'
    BY <1>1, <1>2, <2>2, <2>8 DEF NodeTypes
  <2>13. ~AllLeft
    BY <1>1, <1>2 DEF NodeStages
  <2>14. NodeStages'
    BY <1>1, <1>2, <2>13, StillWorks, StagesGoOn DEF Quiet
  <2>15. NodeApart'
    <3>1. ASSUME NEW i \in 1 .. Len(sndBuff'), NEW j \in 1 .. Len(sndBuff'), sndBuff'[i] = sndBuff'[j]
          PROVE  i = j
      <4>1. i + 1 = j + 1
        BY <1>1, <2>5, <3>1 DEF NodeApart
      <4> QED BY <4>1
    <3>2. \A u, v \in Workers : nwk'[u].d # None /\ nwk'[u].d = nwk'[v].d => u = v
      BY <1>1, <2>8, <2>9 DEF NodeApart, AtHand
    <3>3. \A v \in Workers : nwk'[v].d # None <=> nwk'[v].pc \in {"sendto", "blocked"}
      BY <1>1, <2>4, <2>8 DEF NodeApart
    <3> QED BY <1>1, <1>2, <3>1, <3>2, <3>3 DEF NodeApart
  <2>16. NodePlaced'
    BY <1>1, <1>2, <2>4, <2>7, <2>9, <2>10, <2>11 DEF NodePlaced
  <2>17. NodeCounted'
    <3>1. Owed' \subseteq Owed
      BY <2>4, <2>7, <2>10, OutAssumption DEF Owed
    <3> QED BY <1>1, <1>2, <3>1, OwedNoMore DEF NodeTypes
  <2> QED BY <2>12, <2>14, <2>15, <2>16, <2>17 DEF NodeInv
<1> QED BY <1>4, <1>5

(* A datagram leaves a worker's hands: it is told of, or forgotten.        *)
LEMMA NodeHandsOver ==
  ASSUME NodeInv, NEW w \in Workers, nwk[w].pc = "sendto",
         NEW p \in {"pending", "next"},
         nwk' = [nwk EXCEPT ![w] = [pc |-> p, d |-> None, n |-> 0]],
         \/ \E e \in NodeEvents : e # "shutdown" /\ N!Fire(e, nwk[w].d)
         \/ told' = told /\ nstate \notin {"starting", "started"},
         \/ extra' = extra
         \/ nwk[w].d \in Empty /\ extra' = extra - 1,
         nbudget' \in [N!Events -> Nat],
         UNCHANGED <<nstate, recvQueue, sndBuff, sending, nend>>
  PROVE  NodeInv'
<1> DEFINE o == nwk[w].d
<1>1. NodeTypes /\ NodeStages /\ NodeApart /\ NodePlaced /\ NodeCounted
  BY DEF NodeInv
<1>2. o \in Out /\ o # None /\ AtHand(o)
  BY <1>1 DEF NodeTypes, NodeWk, NodeApart, AtHand
<1>3. \A v \in Workers : nwk[v].d = o => v = w
  BY <1>1, <1>2 DEF NodeApart
<1>4. \/ \E e \in NodeEvents : e # "shutdown" /\ N!Fire(e, o)
      \/ told' = told /\ nstate \notin {"starting", "started"}
  OBVIOUS
<1>5. nwk[w].d = o
  OBVIOUS
<1> HIDE DEF o
<1>6. /\ nwk' \in [Workers -> NodeWk] /\ nwk'[w].pc = p /\ nwk'[w].d = None
      /\ \A v \in Workers : v # w => nwk'[v] = nwk[v]
  <2>1. p \in NodePc /\ 0 \in 0 .. MaxReads
    BY OutAssumption DEF NodePc
  <2> QED BY <1>1, <2>1, NodeTurns
<1>7. \A r \in Out : AtHand(r)' <=> AtHand(r) /\ r # o
  BY <1>3, <1>5, <1>6, OutAssumption DEF AtHand
<1>8. \A r \in Out : InBuff(r)' <=> InBuff(r)
  BY DEF InBuff
<1>9. ~InBuff(o) /\ ~WasTold(o) /\ ~AllLeft /\ Quiet
  <2>1. ~AllLeft
    BY <1>1 DEF NodeStages
  <2> QED BY <1>1, <1>2, <2>1, StillWorks DEF NodePlaced
<1>10. /\ told' \in Seq(Told) /\ Quiet'
       /\ \A i, j \in 1 .. Len(told') : told'[i].d # None /\ told'[i].d = told'[j].d => i = j
       /\ \/ \A r \in Out : WasTold(r)' <=> WasTold(r) \/ r = o
          \/ /\ \A r \in Out : WasTold(r)' <=> WasTold(r)
             /\ nstate \notin {"starting", "started"}
  <2>1. CASE \E e \in NodeEvents : e # "shutdown" /\ N!Fire(e, o)
    <3>1. PICK e \in NodeEvents : e # "shutdown" /\ N!Fire(e, o)
      BY <2>1
    <3>2. /\ told' \in Seq(Told) /\ Len(told) \in Nat /\ Len(told') = Len(told) + 1
          /\ \A i \in 1 .. Len(told) : told'[i] = told[i]
          /\ told'[Len(told) + 1] = [event |-> e, d |-> o]
          /\ \A r \in Out : WasTold(r)' <=> WasTold(r) \/ r = o
          /\ \A i, j \in 1 .. Len(told') : told'[i].d # None /\ told'[i].d = told'[j].d => i = j
      BY <1>1, <1>2, <1>9, <3>1, TellMore DEF NodeApart
    <3>3. \A i \in 1 .. Len(told') : i \in 1 .. Len(told) \/ i = Len(told) + 1
      BY <3>2
    <3>4. Quiet'
      BY <1>9, <3>1, <3>2, <3>3 DEF Quiet
    <3> QED BY <3>2, <3>4
  <2>2. CASE told' = told /\ nstate \notin {"starting", "started"}
    BY <1>1, <1>9, <2>2 DEF NodeTypes, NodeApart, Quiet, WasTold
  <2> QED BY <1>4, <2>1, <2>2
<1>11. NodeCounted' /\ extra' \in Nat
  <2>1. CASE extra' = extra
    <3>1. Owed' \subseteq Owed
      BY <1>7, <1>8, OutAssumption DEF Owed
    <3> QED BY <1>1, <2>1, <3>1, OwedNoMore DEF NodeTypes
  <2>2. CASE o \in Empty /\ extra' = extra - 1
    <3>1. Owed' = Owed \ {o} /\ o \in Owed
      BY <1>2, <1>7, <1>8, <1>9, <2>2, OutAssumption DEF Owed
    <3>2. Cardinality(Owed') = Cardinality(Owed) - 1
      BY <3>1, OwedFinite, FS_RemoveElement
    <3> QED BY <1>1, <2>2, <3>2, OwedFinite DEF NodeTypes, NodeCounted
  <2> QED BY <1>5, <2>1, <2>2
<1>12. NodeTypes'
  BY <1>1, <1>6, <1>10, <1>11 DEF NodeTypes
<1>13. NodeStages'
  BY <1>1, <1>9, <1>10, StagesGoOn
<1>14. NodeApart'
  BY <1>1, <1>6, <1>10 DEF NodeApart
<1>15. NodePlaced'
  BY <1>1, <1>2, <1>7, <1>8, <1>9, <1>10 DEF NodePlaced
<1> QED BY <1>11, <1>12, <1>13, <1>14, <1>15 DEF NodeInv

(* SendItem(): sent, failed, or to be tried again.                         *)
LEMMA SendItemInv ==
  ASSUME NodeInv, NEW w \in Workers, N!SendItem(w)
  PROVE  NodeInv'
<1>1. NodeTypes /\ NodeStages /\ NodeApart /\ NodePlaced /\ NodeCounted
  BY DEF NodeInv
<1>2. nwk[w].pc = "sendto" /\ UNCHANGED <<nstate, recvQueue, sndBuff, ncmds, sending, nend>>
  BY DEF N!SendItem, N!At
<1>3. /\ [N!Idle EXCEPT !.pc = "pending"] = [pc |-> "pending", d |-> None, n |-> 0]
      /\ N!NextCommand = [pc |-> "next", d |-> None, n |-> 0]
  <2>1. N!Idle = [pc |-> "idle", d |-> None, n |-> 0]
    BY DEF N!Idle
  <2> QED BY <2>1 DEF N!NextCommand
<1>4. "send" \in NodeEvents /\ "error" \in NodeEvents /\ "send" # "shutdown" /\ "error" # "shutdown"
  BY DEF NodeEvents
<1>5. \/ /\ extra' = IF nwk[w].d \in Empty THEN extra - 1 ELSE extra
         /\ nwk' = [nwk EXCEPT ![w] = [N!Idle EXCEPT !.pc = "pending"]]
         /\ N!Fire("send", nwk[w].d) /\ nbudget' = nbudget
      \/ N!Spend("block") /\ N!Goto(w, "blocked") /\ UNCHANGED <<extra, told>>
      \/ /\ N!Spend("fail") \/ nbudget' = nbudget
         /\ extra' = extra
         /\ \/ /\ nwk' = [nwk EXCEPT ![w] = [N!Idle EXCEPT !.pc = "pending"]]
               /\ N!Fire("error", nwk[w].d)
            \/ ~N!HasStarted /\ nwk' = [nwk EXCEPT ![w] = N!NextCommand] /\ told' = told
  BY DEF N!SendItem
<1>6. CASE /\ extra' = IF nwk[w].d \in Empty THEN extra - 1 ELSE extra
           /\ nwk' = [nwk EXCEPT ![w] = [N!Idle EXCEPT !.pc = "pending"]]
           /\ N!Fire("send", nwk[w].d) /\ nbudget' = nbudget
  <2>1. \E e \in NodeEvents : e # "shutdown" /\ N!Fire(e, nwk[w].d)
    BY <1>4, <1>6
  <2>2. nbudget' \in [N!Events -> Nat]
    BY <1>1, <1>6 DEF NodeTypes
  <2>3. \/ extra' = extra
        \/ nwk[w].d \in Empty /\ extra' = extra - 1
    BY <1>6
  <2>4. nwk' = [nwk EXCEPT ![w] = [pc |-> "pending", d |-> None, n |-> 0]]
    BY <1>3, <1>6
  <2> QED BY <1>2, <2>1, <2>2, <2>3, <2>4, NodeHandsOver
<1>7. CASE N!Spend("block") /\ N!Goto(w, "blocked") /\ UNCHANGED <<extra, told>>
  <2>1. nbudget' \in [N!Events -> Nat]
    BY <1>1, <1>7, SpendOne DEF N!Events
  <2>2. nwk[w] \in NodeWk
    BY <1>1 DEF NodeTypes
  <2>3. nwk'[w] = [nwk[w] EXCEPT !.pc = "blocked"] /\ \A v \in Workers : v # w => nwk'[v] = nwk[v]
    BY <1>1, <1>7 DEF N!Goto, NodeTypes
  <2>4. nwk'[w] \in NodeWk /\ nwk'[w].pc = "blocked" /\ nwk'[w].d = nwk[w].d
    BY <2>2, <2>3 DEF NodeWk, NodePc
  <2>5. nwk' \in [Workers -> NodeWk]
    BY <1>1, <1>7, <2>3, <2>4 DEF NodeTypes, N!Goto
  <2>6. \A v \in Workers : nwk'[v].d = nwk[v].d
    BY <2>3, <2>4
  <2>7. \A o \in Out : /\ InBuff(o)' <=> InBuff(o)
                       /\ AtHand(o)' <=> AtHand(o)
                       /\ WasTold(o)' <=> WasTold(o)
    BY <1>2, <1>7, <2>6 DEF InBuff, AtHand, WasTold
  <2>8. NodeTypes'
    BY <1>1, <1>2, <1>7, <2>1, <2>5 DEF NodeTypes
  <2>9. ~AllLeft
    BY <1>1, <1>2 DEF NodeStages
  <2>10. NodeStages'
    BY <1>1, <1>2, <1>7, <2>9, StillWorks, StagesGoOn DEF Quiet
  <2>11. NodeApart'
    <3>1. \A v \in Workers : nwk'[v].d # None <=> nwk'[v].pc \in {"sendto", "blocked"}
      <4>1. nwk[w].d # None
        BY <1>1, <1>2 DEF NodeApart
      <4> QED BY <1>1, <2>3, <2>4, <4>1 DEF NodeApart
    <3> QED BY <1>1, <1>2, <1>7, <2>6, <3>1 DEF NodeApart
  <2>12. NodePlaced'
    BY <1>1, <1>2, <2>7 DEF NodePlaced
  <2>13. Owed' \subseteq Owed
    BY <2>7, OutAssumption DEF Owed
  <2>14. NodeCounted'
    BY <1>1, <1>7, <2>13, OwedNoMore DEF NodeTypes
  <2> QED BY <2>8, <2>10, <2>11, <2>12, <2>14 DEF NodeInv
<1>8. CASE /\ N!Spend("fail") \/ nbudget' = nbudget
           /\ extra' = extra
           /\ \/ /\ nwk' = [nwk EXCEPT ![w] = [N!Idle EXCEPT !.pc = "pending"]]
                 /\ N!Fire("error", nwk[w].d)
              \/ ~N!HasStarted /\ nwk' = [nwk EXCEPT ![w] = N!NextCommand] /\ told' = told
  <2>1. nbudget' \in [N!Events -> Nat]
    <3>1. CASE N!Spend("fail")
      BY <1>1, <3>1, SpendOne DEF N!Events
    <3>2. CASE nbudget' = nbudget
      BY <1>1, <3>2 DEF NodeTypes
    <3> QED BY <1>8, <3>1, <3>2
  <2>2. CASE /\ nwk' = [nwk EXCEPT ![w] = [N!Idle EXCEPT !.pc = "pending"]]
             /\ N!Fire("error", nwk[w].d)
    <3>1. \E e \in NodeEvents : e # "shutdown" /\ N!Fire(e, nwk[w].d)
      BY <1>4, <2>2
    <3>2. nwk' = [nwk EXCEPT ![w] = [pc |-> "pending", d |-> None, n |-> 0]]
      BY <1>3, <2>2
    <3> QED BY <1>2, <1>8, <2>1, <3>1, <3>2, NodeHandsOver
  <2>3. CASE ~N!HasStarted /\ nwk' = [nwk EXCEPT ![w] = N!NextCommand] /\ told' = told
    <3>1. nwk' = [nwk EXCEPT ![w] = [pc |-> "next", d |-> None, n |-> 0]]
      BY <1>3, <2>3
    <3>2. told' = told /\ nstate \notin {"starting", "started"}
      BY <2>3 DEF N!HasStarted
    <3> QED BY <1>2, <1>8, <2>1, <3>1, <3>2, NodeHandsOver
  <2> QED BY <1>8, <2>2, <2>3
<1> QED BY <1>5, <1>6, <1>7, <1>8

(* A datagram that the socket did not take goes back, to be the oldest.    *)
LEMMA PutBackInv ==
  ASSUME NodeInv, NEW w \in Workers, N!PutBack(w)
  PROVE  NodeInv'
<1> DEFINE o == nwk[w].d
<1>1. NodeTypes /\ NodeStages /\ NodeApart /\ NodePlaced /\ NodeCounted
  BY DEF NodeInv
<1>2. /\ nwk[w].pc = "blocked" /\ sndBuff' = <<o>> \o sndBuff
      /\ nwk' = [nwk EXCEPT ![w] = [N!Idle EXCEPT !.pc = "arm"]]
      /\ UNCHANGED <<nstate, recvQueue, extra, ncmds, sending, nend, nbudget, told>>
  BY DEF N!PutBack, N!At
<1>3. o \in Out /\ o # None /\ AtHand(o)
  BY <1>1, <1>2 DEF NodeTypes, NodeWk, NodeApart, AtHand
<1>4. \A v \in Workers : nwk[v].d = o => v = w
  BY <1>1, <1>3 DEF NodeApart
<1>5. nwk[w].d = o
  OBVIOUS
<1> HIDE DEF o
<1>6. /\ nwk' \in [Workers -> NodeWk] /\ nwk'[w].pc = "arm" /\ nwk'[w].d = None
      /\ \A v \in Workers : v # w => nwk'[v] = nwk[v]
  <2>1. N!Idle = [pc |-> "idle", d |-> None, n |-> 0]
    BY DEF N!Idle
  <2>2. [N!Idle EXCEPT !.pc = "arm"] = [pc |-> "arm", d |-> None, n |-> 0]
    BY <2>1
  <2>3. "arm" \in NodePc /\ 0 \in 0 .. MaxReads
    BY OutAssumption DEF NodePc
  <2> QED BY <1>1, <1>2, <2>2, <2>3, NodeTurns
<1>7. /\ sndBuff' \in Seq(Out) /\ Len(sndBuff) \in Nat /\ Len(sndBuff') = Len(sndBuff) + 1
      /\ sndBuff'[1] = o
      /\ \A i \in 1 .. Len(sndBuff') : i # 1 => i - 1 \in 1 .. Len(sndBuff) /\ sndBuff'[i] = sndBuff[i - 1]
  <2>1. sndBuff \in Seq(Out) /\ Len(sndBuff) \in Nat /\ <<o>> \in Seq(Out) /\ Len(<<o>>) = 1
    BY <1>1, <1>3, NodeSeqs
  <2>2. /\ sndBuff' \in Seq(Out) /\ Len(sndBuff') = 1 + Len(sndBuff)
        /\ \A i \in 1 .. Len(<<o>>) + Len(sndBuff) :
             sndBuff'[i] = IF i <= Len(<<o>>) THEN <<o>>[i] ELSE sndBuff[i - Len(<<o>>)]
    BY <1>2, <2>1, ConcatProperties
  <2> QED BY <2>1, <2>2
<1>8. \A i \in 1 .. Len(sndBuff) : i + 1 \in 1 .. Len(sndBuff') /\ sndBuff'[i + 1] = sndBuff[i]
  BY <1>7
<1>9. 1 \in 1 .. Len(sndBuff')
  BY <1>7
<1>10. \A r \in Out : InBuff(r)' <=> InBuff(r) \/ r = o
  <2>1. ASSUME NEW r \in Out, InBuff(r) \/ r = o PROVE InBuff(r)'
    BY <1>7, <1>8, <1>9, <2>1 DEF InBuff
  <2>2. ASSUME NEW r \in Out, InBuff(r)' PROVE InBuff(r) \/ r = o
    BY <1>7, <2>2 DEF InBuff
  <2> QED BY <2>1, <2>2
<1>11. \A r \in Out : AtHand(r)' <=> AtHand(r) /\ r # o
  BY <1>4, <1>5, <1>6, OutAssumption DEF AtHand
<1>12. \A r \in Out : WasTold(r)' <=> WasTold(r)
  BY <1>2 DEF WasTold
<1>13. ~InBuff(o) /\ ~WasTold(o) /\ ~AllLeft
  <2>1. ~AllLeft
    BY <1>1, <1>2 DEF NodeStages
  <2> QED BY <1>1, <1>3, <2>1 DEF NodePlaced
<1>14. NodeTypes'
  BY <1>1, <1>2, <1>6, <1>7 DEF NodeTypes
<1>15. NodeStages'
  BY <1>1, <1>2, <1>13, StillWorks, StagesGoOn DEF Quiet
<1>16. NodeApart'
  <2>1. ASSUME NEW i \in 1 .. Len(sndBuff'), NEW j \in 1 .. Len(sndBuff'), sndBuff'[i] = sndBuff'[j]
        PROVE  i = j
    <3>1. CASE i = 1 \/ j = 1
      BY <1>7, <1>13, <2>1, <3>1 DEF InBuff
    <3>2. CASE i # 1 /\ j # 1
      <4>1. i - 1 = j - 1
        BY <1>1, <1>7, <2>1, <3>2, SMTT(60) DEF NodeApart
      <4> QED BY <4>1
    <3> QED BY <3>1, <3>2
  <2> QED BY <1>1, <1>2, <1>6, <2>1 DEF NodeApart
<1>17. NodePlaced'
  BY <1>1, <1>2, <1>3, <1>10, <1>11, <1>12, <1>13 DEF NodePlaced
<1>18. NodeCounted'
  <2>1. Owed' \subseteq Owed
    BY <1>3, <1>10, <1>11, OutAssumption DEF Owed
  <2> QED BY <1>1, <1>2, <2>1, OwedNoMore DEF NodeTypes
<1> QED BY <1>14, <1>15, <1>16, <1>17, <1>18 DEF NodeInv

LEMMA NodeInvInit == N!Init => NodeInv
<1> SUFFICES ASSUME N!Init PROVE NodeInv
  OBVIOUS
<1>1. /\ nstate = "stopped" /\ recvQueue = 0 /\ sndBuff = <<>> /\ extra = 0 /\ ncmds = <<>>
      /\ nwk = [w \in Workers |-> [N!Idle EXCEPT !.pc = "left"]]
      /\ sending = [o \in Out |-> "new"] /\ nend = "none" /\ told = <<>>
      /\ nbudget \in [N!Events -> Nat]
  BY BudgetAssumption DEF N!Init
<1>2. Len(sndBuff) = 0 /\ Len(told) = 0 /\ sndBuff \in Seq(Out) /\ told \in Seq(Told)
  BY <1>1
<1>3. [N!Idle EXCEPT !.pc = "left"] = [pc |-> "left", d |-> None, n |-> 0]
  BY DEF N!Idle
<1>4. [pc |-> "left", d |-> None, n |-> 0] \in NodeWk
  BY OutAssumption DEF NodeWk, NodePc
<1>5. \A w \in Workers : nwk[w].pc = "left" /\ nwk[w].d = None
  BY <1>1, <1>3
<1>6. nwk \in [Workers -> NodeWk]
  BY <1>1, <1>3, <1>4
<1>7. NodeTypes
  BY <1>1, <1>2, <1>6 DEF NodeTypes
<1>8. NodeStages
  BY <1>1, <1>2, <1>5 DEF NodeStages, AllLeft
<1>9. NodeApart
  BY <1>2, <1>5 DEF NodeApart
<1>10. \A o \in Out : ~InBuff(o) /\ ~AtHand(o) /\ ~WasTold(o) /\ sending[o] = "new"
  BY <1>1, <1>2, <1>5, OutAssumption DEF InBuff, AtHand, WasTold
<1>11. NodePlaced
  BY <1>10 DEF NodePlaced
<1>12. NodeCounted
  <2>1. Owed = {}
    BY <1>10, OutAssumption DEF Owed
  <2>2. Cardinality(Owed) = 0
    BY <2>1, FS_EmptySet
  <2> QED BY <1>1, <2>2 DEF NodeCounted
<1> QED BY <1>7, <1>8, <1>9, <1>11, <1>12 DEF NodeInv

LEMMA NodeInvNext == NodeInv /\ (N!Next \/ UNCHANGED nvars) => NodeInv'
<1> SUFFICES ASSUME NodeInv, N!Next \/ UNCHANGED nvars PROVE NodeInv'
  OBVIOUS
<1>1. CASE N!Start
  BY <1>1, NodeStartInv
<1>2. CASE N!SetStarted \/ N!CheckStoping \/ \E k \in N!Kinds : N!Arrive(k)
  BY <1>2, NodeCallInv
<1>3. CASE N!StopSteps
  BY <1>3, NodeCallInv, FireShutdownInv, ReleaseInv, NodeResetInv DEF N!StopSteps
<1>4. CASE \E o \in Out : N!Send(o) \/ N!AskToSend(o)
  BY <1>4, NodeSendInv, AskToSendInv
<1>5. ASSUME NEW w \in Workers, N!Take(w) \/ N!Work(w) \/ N!Leave(w) PROVE NodeInv'
  <2>1. CASE N!Take(w)
    BY <2>1, ReadyReadInv, TakeCommandInv DEF N!Take
  <2>2. CASE N!Work(w)
    BY <2>2, RecvFromInv, TellInv, TakeCommandInv, PopRecvInv, PendingInv, PopSendInv,
       SendItemInv, PutBackInv DEF N!Work
  <2>3. CASE N!Leave(w)
    BY <2>3, PendingInv
  <2> QED BY <1>5, <2>1, <2>2, <2>3
<1>6. CASE UNCHANGED nvars
  <2>1. UNCHANGED <<nstate, recvQueue, sndBuff, extra, ncmds, nwk, sending, nend, nbudget, told>>
    BY <1>6 DEF nvars
  <2>2. NodeTypes' /\ NodeStages'
    BY <2>1 DEF NodeInv, NodeTypes, NodeStages, AllLeft
  <2>3. /\ NodeApart' /\ NodeCounted'
        /\ \A o \in Out : /\ InBuff(o)' <=> InBuff(o)
                          /\ AtHand(o)' <=> AtHand(o)
                          /\ WasTold(o)' <=> WasTold(o)
    BY <2>1, PlacesStay
  <2>4. NodePlaced'
    BY <2>1, <2>3 DEF NodeInv, NodePlaced
  <2> QED BY <2>2, <2>3, <2>4 DEF NodeInv
<1> QED BY <1>1, <1>2, <1>3, <1>4, <1>5, <1>6 DEF N!Next

-----------------------------------------------------------------------------
(* What the invariant says of a datagram and of Stop().                    *)

(* No two members: none or one.                                            *)
LEMMA AtMostOne ==
  ASSUME NEW S, \A x, y \in S : x = y
  PROVE  /\ S = {} => Cardinality(S) = 0
         /\ S # {} => Cardinality(S) = 1
<1>1. S = {} => Cardinality(S) = 0
  BY FS_EmptySet
<1>2. ASSUME S # {} PROVE Cardinality(S) = 1
  <2>1. PICK x \in S : TRUE
    BY <1>2
  <2>2. S = {x}
    BY <2>1
  <2> QED BY <2>2, FS_Singleton
<1> QED BY <1>1, <1>2

LEMMA PlacesAre ==
  ASSUME NodeInv, NEW o \in Out
  PROVE  N!Places(o) = IF InBuff(o) \/ AtHand(o) \/ WasTold(o) THEN 1 ELSE 0
<1> DEFINE A == {n \in DOMAIN sndBuff : sndBuff[n] = o}
           B == {w \in Workers : nwk[w].d = o}
           C == {n \in DOMAIN told : told[n].d = o}
<1>1. NodeTypes /\ NodeApart /\ NodePlaced /\ o # None
  BY OutAssumption DEF NodeInv
<1>2. DOMAIN sndBuff = 1 .. Len(sndBuff) /\ DOMAIN told = 1 .. Len(told)
  BY <1>1 DEF NodeTypes
<1>3. /\ \A x, y \in A : x = y
      /\ \A x, y \in B : x = y
      /\ \A x, y \in C : x = y
  BY <1>1, <1>2 DEF NodeApart
<1>4. (A # {} <=> InBuff(o)) /\ (B # {} <=> AtHand(o)) /\ (C # {} <=> WasTold(o))
  BY <1>2 DEF InBuff, AtHand, WasTold
<1>5. N!Places(o) = Cardinality(A) + Cardinality(B) + Cardinality(C)
  BY DEF N!Places, N!Cardinality, Cardinality
<1> HIDE DEF A, B, C
<1>6. /\ Cardinality(A) = IF InBuff(o) THEN 1 ELSE 0
      /\ Cardinality(B) = IF AtHand(o) THEN 1 ELSE 0
      /\ Cardinality(C) = IF WasTold(o) THEN 1 ELSE 0
  BY <1>3, <1>4, AtMostOne
<1>7. (InBuff(o) => ~AtHand(o) /\ ~WasTold(o)) /\ (AtHand(o) => ~WasTold(o))
  BY <1>1 DEF NodePlaced
<1> QED BY <1>5, <1>6, <1>7

LEMMA NodeHolds == NodeInv => N!TypeOK /\ N!SentOnce /\ N!StopIsClean
<1> SUFFICES ASSUME NodeInv PROVE N!TypeOK /\ N!SentOnce /\ N!StopIsClean
  OBVIOUS
<1>1. NodeTypes /\ NodeStages /\ NodePlaced /\ NodeCounted
  BY DEF NodeInv
<1>2. N!TypeOK
  <2>1. NodeWk = [d : Out \cup {None}, n : 0 .. MaxReads, pc : NodePc]
    BY DEF NodeWk
  <2> QED BY <1>1, <2>1 DEF NodeTypes, NodePc, N!TypeOK
<1>3. \A o \in Out : N!Places(o) <= 1
  BY PlacesAre
<1>4. nstate = "started" => \A o \in Out : sending[o] \in {"asks", "taken"} => N!Places(o) = 1
  BY <1>1, PlacesAre DEF NodePlaced
<1>5. ASSUME sndBuff # <<>> PROVE N!IsPending
  <2> DEFINE L == {n \in DOMAIN sndBuff : sndBuff[n] \notin Empty}
  <2>1. /\ DOMAIN sndBuff = 1 .. Len(sndBuff) /\ Len(sndBuff) \in Nat /\ Len(sndBuff) # 0
        /\ extra \in Nat
    BY <1>1, <1>5, NodeSeqs, EmptySeq DEF NodeTypes
  <2>2. IsFiniteSet(L)
    <3>1. IsFiniteSet(1 .. Len(sndBuff))
      BY <2>1, FS_Interval
    <3> QED BY <2>1, <3>1, FS_Subset
  <2>3. Cardinality(L) \in Nat
    BY <2>2, FS_CardinalityType
  <2>4. N!Length = Cardinality(L) + extra
    BY DEF N!Length, N!Cardinality, Cardinality
  <2>5. 1 \in DOMAIN sndBuff /\ sndBuff[1] \in Out /\ InBuff(sndBuff[1])
    BY <1>1, <2>1, NodeSeqs DEF InBuff
  <2>6. CASE sndBuff[1] \in Empty
    <3>1. sndBuff[1] \in Owed
      BY <2>5, <2>6 DEF Owed
    <3>2. Cardinality(Owed) # 0
      BY <3>1, OwedFinite, FS_EmptySet
    <3>3. extra > 0
      BY <1>1, <2>1, <3>2, OwedFinite DEF NodeCounted
    <3> HIDE DEF L
    <3> QED BY <2>1, <2>3, <2>4, <3>3 DEF N!IsPending
  <2>7. CASE sndBuff[1] \notin Empty
    <3>1. 1 \in L
      BY <2>5, <2>7
    <3> HIDE DEF L
    <3>2. Cardinality(L) # 0
      BY <2>2, <3>1, FS_EmptySet
    <3> QED BY <2>1, <2>3, <2>4, <3>2 DEF N!IsPending
  <2> QED BY <2>6, <2>7
<1>6. N!SentOnce
  BY <1>3, <1>4, <1>5 DEF N!SentOnce
<1>7. \A n \in DOMAIN told : told[n].event = "shutdown" => n = Len(told)
  <2>1. DOMAIN told = 1 .. Len(told)
    BY <1>1 DEF NodeTypes
  <2> QED BY <1>1, <2>1 DEF NodeStages
<1>8. N!StopIsClean
  BY <1>1, <1>7 DEF N!StopIsClean, NodeStages, AllLeft
<1> QED BY <1>2, <1>6, <1>8

-----------------------------------------------------------------------------
(* The UDP server.  1. Types.                                              *)
UdpPc == {"idle", "recv", "accept", "map", "on_accept", "refused", "find", "push", "tell",
          "lock_io", "pop", "on_receive", "more", "lock_send", "sendto", "on_send",
          "send_more", "invalid", "want_io", "want_send", "on_close", "remove", "erase",
          "never"}
UdpWk == [pc : UdpPc, d : U!Datagram \cup {None}, i : Ids \cup {None}, n : 0 .. MaxReads,
          flag : {"none", "close", "error"}, back : {"idle", "recv", "refused", "never"}]
UdpObj == [addr : Addrs \cup {None}, valid : BOOLEAN, recvQueue : Nat, sndBuff : Nat,
           fails : 0 .. UdpAttempts, lcIo : U!LockState, lcSend : U!LockState]
UdpNotes == {"accept", "accepted", "refused", "receive", "send", "close"}
UdpTypes ==
  /\ inbox \in Seq(U!Datagram)
  /\ uobj \in [Ids -> UdpObj] /\ uids \subseteq Ids
  /\ addrMap \in [Addrs -> Ids \cup {None}] /\ accepting \in Workers \cup {None}
  /\ uwk \in [Workers -> UdpWk] /\ ubudget \in [U!Events -> Nat]
  /\ notes \in [Ids -> Seq(UdpNotes)]

(* 2. What a worker that is at work for a connection may count on: it      *)
(* holds a lock from here to there, a callback runs while the connection   *)
(* is valid, who closes it has made it invalid.                            *)
Accepted(i) == \E n \in 1 .. Len(notes[i]) : notes[i][n] = "accepted"
Closes == {"on_close", "remove", "erase"}
WritesIo(k) == \/ k.pc \in {"map", "on_accept", "want_send", "refused"}
               \/ k.back = "refused" /\ k.pc \in {"invalid", "want_io", "remove", "erase"}
ReadsIo(k) == k.pc \in {"pop", "on_receive"}
ReadsSend(k) == k.pc \in {"sendto", "on_send"}
UdpWorker(w) ==
  LET k == uwk[w]
      o == uobj[k.i]
  IN  /\ k.pc \notin {"idle", "recv", "accept"} => k.i # None
      /\ k.pc \in {"accept", "map", "on_accept", "find"} => k.d \in U!Datagram
      /\ k.i # None => o.addr # None
      /\ WritesIo(k) => o.lcIo.wr = w
      /\ ReadsIo(k) => w \in o.lcIo.rd /\ Accepted(k.i)
      /\ ReadsSend(k) => w \in o.lcSend.rd
      /\ k.pc \in {"map", "on_accept"} \/ ReadsIo(k) \/ ReadsSend(k) => o.valid
      /\ k.pc \in Closes \cup {"refused"} => ~o.valid
      /\ k.pc \in {"invalid", "want_io", "want_send"} => (k.flag = "none" <=> k.back = "refused")
      /\ k.pc = "on_close" => k.back # "refused"
      /\ k.pc = "want_send" /\ k.back # "refused" /\ o.valid => Accepted(k.i)
      /\ k.pc = "map" => accepting = w /\ addrMap[k.d.addr] = None /\ o.addr = k.d.addr
      /\ k.pc \in {"on_close", "remove"} => k.i \in uids
      /\ k.pc = "erase" => addrMap[o.addr] = k.i /\ k.i \notin uids

(* 3. A connection, its locks and its notifications.                       *)
UdpConn(i) ==
  LET o == uobj[i]
      h == notes[i]
  IN  /\ o.lcSend.wr = None /\ (o.lcIo.wr # None => o.lcIo.rd = {})
      /\ \A w \in Workers : o.lcIo.wr = w => WritesIo(uwk[w]) /\ uwk[w].i = i
      /\ i \in uids => o.addr # None
      /\ o.valid => i \in uids /\ \A n \in 1 .. Len(h) : h[n] # "close"
      /\ o.valid /\ o.lcIo.wr = None => Accepted(i)
      /\ o.addr = None => h = <<>>
      /\ \A n \in 1 .. Len(h) :
           /\ h[n] \in {"receive", "close"} => \E m \in 1 .. n - 1 : h[m] = "accepted"
           /\ h[n] = "close" => n = Len(h)

(* 4. Who closes a connection is alone, and the map leads to it.           *)
UdpMapped ==
  /\ \A v, w \in Workers : uwk[v].pc \in Closes /\ uwk[w].pc \in Closes /\ uwk[v].i = uwk[w].i
                             => v = w
  /\ \A i \in uids : \/ addrMap[uobj[i].addr] = i
                     \/ \E w \in Workers : uwk[w].pc = "map" /\ uwk[w].i = i
  /\ \A a \in Addrs : addrMap[a] # None => uobj[addrMap[a]].addr = a

UdpInv == /\ UdpTypes /\ UdpMapped
          /\ \A w \in Workers : UdpWorker(w)
          /\ \A i \in Ids : UdpConn(i)

(* The fields of what is in place.                                         *)
LEMMA UdpFields ==
  ASSUME UdpTypes
  PROVE  /\ \A w \in Workers : /\ uwk[w].pc \in UdpPc /\ uwk[w].d \in U!Datagram \cup {None}
                               /\ uwk[w].i \in Ids \cup {None} /\ uwk[w].n \in 0 .. MaxReads
                               /\ uwk[w].flag \in {"none", "close", "error"}
                               /\ uwk[w].back \in {"idle", "recv", "refused", "never"}
         /\ \A i \in Ids : /\ uobj[i] \in UdpObj
                           /\ uobj[i].addr \in Addrs \cup {None} /\ uobj[i].valid \in BOOLEAN
                           /\ uobj[i].recvQueue \in Nat /\ uobj[i].sndBuff \in Nat
                           /\ uobj[i].fails \in 0 .. UdpAttempts
                           /\ uobj[i].lcIo \in U!LockState /\ uobj[i].lcSend \in U!LockState
                           /\ uobj[i].lcIo.wr \in Workers \cup {None}
                           /\ uobj[i].lcIo.rd \subseteq Workers
                           /\ uobj[i].lcIo.waits \subseteq Workers
                           /\ uobj[i].lcSend.wr \in Workers \cup {None}
                           /\ uobj[i].lcSend.rd \subseteq Workers
                           /\ uobj[i].lcSend.waits \subseteq Workers
                           /\ notes[i] \in Seq(UdpNotes) /\ Len(notes[i]) \in Nat
<1>1. \A w \in Workers : uwk[w] \in UdpWk
  BY DEF UdpTypes
<1>2. \A i \in Ids : uobj[i] \in UdpObj /\ notes[i] \in Seq(UdpNotes)
  BY DEF UdpTypes
<1>3. \A i \in Ids : Len(notes[i]) \in Nat
  BY <1>2, LenProperties
<1> QED BY <1>1, <1>2, <1>3 DEF UdpWk, UdpObj, U!LockState

(* A worker goes on with the connection it is at work for.                 *)
LEMMA UdpGoes ==
  ASSUME UdpTypes, NEW w \in Workers, NEW p \in UdpPc, U!Goto(w, p)
  PROVE  /\ uwk' \in [Workers -> UdpWk]
         /\ \A v \in Workers : v # w => uwk'[v] = uwk[v]
         /\ uwk'[w].pc = p /\ uwk'[w].d = uwk[w].d /\ uwk'[w].i = uwk[w].i
         /\ uwk'[w].flag = uwk[w].flag /\ uwk'[w].back = uwk[w].back
<1>1. uwk[w] \in UdpWk
  BY DEF UdpTypes
<1>2. uwk' = [uwk EXCEPT ![w].pc = p]
  BY DEF U!Goto
<1>3. uwk'[w] = [uwk[w] EXCEPT !.pc = p]
  BY <1>2 DEF UdpTypes
<1> QED BY <1>1, <1>2, <1>3 DEF UdpTypes, UdpWk

(* It turns to something else.                                             *)
LEMMA UdpTurns ==
  ASSUME UdpTypes, NEW w \in Workers, NEW k \in UdpWk, uwk' = [uwk EXCEPT ![w] = k]
  PROVE  /\ uwk' \in [Workers -> UdpWk] /\ uwk'[w] = k
         /\ \A v \in Workers : v # w => uwk'[v] = uwk[v]
BY DEF UdpTypes

LEMMA UdpRests ==
  ASSUME UdpTypes, NEW w \in Workers, uwk' = [uwk EXCEPT ![w] = U!Idle]
  PROVE  /\ uwk' \in [Workers -> UdpWk]
         /\ \A v \in Workers : v # w => uwk'[v] = uwk[v]
         /\ uwk'[w].pc = "idle" /\ uwk'[w].i = None
<1>1. U!Idle \in UdpWk
  BY OutAssumption DEF U!Idle, UdpWk, UdpPc
<1>2. U!Idle.pc = "idle" /\ U!Idle.i = None
  BY DEF U!Idle
<1> QED BY <1>1, <1>2, UdpTurns

(* It begins to close.                                                     *)
LEMMA UdpFrees ==
  ASSUME UdpTypes, NEW w \in Workers, NEW flag \in {"none", "close", "error"},
         NEW back \in {"idle", "recv", "refused", "never"}, U!AddFree(w, flag, back)
  PROVE  /\ uwk' \in [Workers -> UdpWk]
         /\ \A v \in Workers : v # w => uwk'[v] = uwk[v]
         /\ uwk'[w].pc = "invalid" /\ uwk'[w].d = uwk[w].d /\ uwk'[w].i = uwk[w].i
         /\ uwk'[w].flag = flag /\ uwk'[w].back = back
<1>1. uwk[w] \in UdpWk
  BY DEF UdpTypes
<1>2. uwk' = [uwk EXCEPT ![w].pc = "invalid", ![w].flag = flag, ![w].back = back]
  BY DEF U!AddFree
<1>3. uwk'[w] = [[[uwk[w] EXCEPT !.pc = "invalid"] EXCEPT !.flag = flag] EXCEPT !.back = back]
  BY <1>2 DEF UdpTypes
<1> QED BY <1>1, <1>2, <1>3 DEF UdpTypes, UdpWk, UdpPc

(* A connection becomes another state of itself.                           *)
LEMMA UdpBecomes ==
  ASSUME UdpTypes, NEW i \in Ids, NEW o \in UdpObj, uobj' = [uobj EXCEPT ![i] = o]
  PROVE  /\ uobj' \in [Ids -> UdpObj] /\ uobj'[i] = o
         /\ \A j \in Ids : j # i => uobj'[j] = uobj[j]
BY DEF UdpTypes

-----------------------------------------------------------------------------
(* Steps that leave every lock, connection and address as it is.           *)
UdpAlike(o, p) ==
  /\ p.addr = o.addr /\ p.valid = o.valid
  /\ p.lcIo.wr = o.lcIo.wr /\ p.lcIo.rd = o.lcIo.rd
  /\ p.lcSend.wr = o.lcSend.wr /\ p.lcSend.rd = o.lcSend.rd

LEMMA UdpQuiet ==
  ASSUME UdpInv, UdpTypes', \A i \in Ids : UdpAlike(uobj[i], uobj'[i]),
         UNCHANGED <<uids, addrMap, accepting, notes>>,
         \A v \in Workers :
           \/ uwk'[v] = uwk[v]
           \/ /\ uwk[v].pc # "map" /\ UdpWorker(v)'
              /\ WritesIo(uwk[v]) => WritesIo(uwk'[v]) /\ uwk'[v].i = uwk[v].i
              /\ uwk'[v].pc \in Closes => uwk[v].pc \in Closes /\ uwk'[v].i = uwk[v].i
  PROVE  UdpInv'
<1>1. /\ UdpTypes /\ UdpMapped /\ (\A w \in Workers : UdpWorker(w))
      /\ \A i \in Ids : UdpConn(i)
  BY DEF UdpInv
<1>2. \A i \in Ids : Accepted(i)' <=> Accepted(i)
  BY DEF Accepted
<1>3. ASSUME NEW v \in Workers PROVE UdpWorker(v)'
  <2>1. CASE uwk'[v] = uwk[v]
    <3>1. uwk[v].i \in Ids \cup {None}
      BY <1>1, UdpFields
    <3>2. CASE uwk[v].i = None
      BY <1>1, <2>1, <3>2 DEF UdpWorker, WritesIo, ReadsIo, ReadsSend, Closes
    <3>3. CASE uwk[v].i \in Ids
      BY <1>1, <1>2, <2>1, <3>3 DEF UdpWorker, UdpAlike
    <3> QED BY <3>1, <3>2, <3>3
  <2> QED BY <2>1
<1>4. ASSUME NEW i \in Ids PROVE UdpConn(i)'
  <2>1. \A w \in Workers : WritesIo(uwk[w]) => WritesIo(uwk'[w]) /\ uwk'[w].i = uwk[w].i
    OBVIOUS
  <2> QED BY <1>1, <1>2, <2>1 DEF UdpConn, UdpAlike
<1>5. UdpMapped'
  <2>1. \A v, w \in Workers : uwk'[v].pc \in Closes /\ uwk'[w].pc \in Closes /\ uwk'[v].i = uwk'[w].i
                             => v = w
    BY <1>1 DEF UdpMapped
  <2>2. \A w \in Workers : uwk[w].pc = "map" => uwk'[w] = uwk[w]
    OBVIOUS
  <2>3. \A i \in uids : i \in Ids /\ uobj'[i].addr = uobj[i].addr
    BY <1>1 DEF UdpTypes, UdpAlike
  <2>4. \A a \in Addrs : addrMap[a] # None => uobj'[addrMap[a]].addr = a
    BY <1>1 DEF UdpTypes, UdpMapped, UdpAlike
  <2> QED BY <1>1, <2>1, <2>2, <2>3, <2>4 DEF UdpMapped
<1> QED BY <1>3, <1>4, <1>5 DEF UdpInv

(* Nothing but datagrams, commands and timers.                             *)
LEMMA UdpAsIs ==
  ASSUME UdpInv, UNCHANGED <<uobj, uids, addrMap, accepting, notes, uwk>>,
         inbox' \in Seq(U!Datagram), ubudget' \in [U!Events -> Nat]
  PROVE  UdpInv'
<1>1. UdpTypes'
  BY DEF UdpInv, UdpTypes
<1> QED BY <1>1, UdpQuiet DEF UdpAlike

LEMMA UdpSpends ==
  ASSUME UdpTypes, NEW e \in U!Events, U!Spend(e)
  PROVE  ubudget' \in [U!Events -> Nat]
BY DEF UdpTypes, U!Spend

LEMMA ArriveInv ==
  ASSUME UdpInv, NEW d \in U!Datagram, U!Arrive(d)
  PROVE  UdpInv'
<1>1. UdpTypes /\ inbox \in Seq(U!Datagram)
  BY DEF UdpInv, UdpTypes
<1>2. inbox' \in Seq(U!Datagram)
  BY <1>1, AppendProperties DEF U!Arrive
<1>3. d.kind \in U!Events
  BY DEF U!Datagram, U!Events
<1>4. ubudget' \in [U!Events -> Nat]
  BY <1>1, <1>3, UdpSpends DEF U!Arrive
<1> QED BY <1>2, <1>4, UdpAsIs DEF U!Arrive

(* Only the number of failures, or a queue, of a connection changes.       *)
LEMMA UdpCounts ==
  ASSUME UdpInv, NEW i \in Ids, NEW o \in UdpObj, uobj' = [uobj EXCEPT ![i] = o],
         UdpAlike(uobj[i], o), UNCHANGED <<inbox, uids, addrMap, accepting, notes, uwk>>,
         ubudget' \in [U!Events -> Nat]
  PROVE  UdpInv'
<1>1. UdpTypes
  BY DEF UdpInv
<1>2. /\ uobj' \in [Ids -> UdpObj] /\ uobj'[i] = o
      /\ \A j \in Ids : j # i => uobj'[j] = uobj[j]
  BY <1>1, UdpBecomes
<1>3. UdpTypes'
  BY <1>1, <1>2 DEF UdpTypes
<1>4. \A j \in Ids : UdpAlike(uobj[j], uobj'[j])
  BY <1>2 DEF UdpAlike
<1> QED BY <1>3, <1>4, UdpQuiet

LEMMA DetectInv ==
  ASSUME UdpInv, NEW i \in Ids, U!DetectConnection(i)
  PROVE  UdpInv'
<1>1. UdpTypes /\ inbox \in Seq(U!Datagram)
  BY DEF UdpInv, UdpTypes
<1>2. "tick" \in U!Events
  BY DEF U!Events
<1>3. ubudget' \in [U!Events -> Nat]
  BY <1>1, <1>2, UdpSpends DEF U!DetectConnection
<1>4. CASE uobj' = uobj
  BY <1>1, <1>3, <1>4, UdpAsIs DEF U!DetectConnection
<1>5. CASE ~(uobj[i].fails >= UdpAttempts) /\ uobj' = [uobj EXCEPT ![i].fails = @ + 1]
  <2> DEFINE o == [uobj[i] EXCEPT !.fails = @ + 1]
  <2>1. uobj[i] \in UdpObj /\ uobj[i].fails \in 0 .. UdpAttempts
    BY <1>1, UdpFields
  <2>2. uobj[i].fails + 1 \in 0 .. UdpAttempts
    BY <1>5, <2>1, UdpAssumption
  <2>3. o \in UdpObj /\ UdpAlike(uobj[i], o)
    BY <2>1, <2>2 DEF UdpObj, UdpAlike
  <2>4. uobj' = [uobj EXCEPT ![i] = o]
    BY <1>5
  <2> HIDE DEF o
  <2> QED BY <1>3, <2>3, <2>4, UdpCounts DEF U!DetectConnection
<1> QED BY <1>4, <1>5 DEF U!DetectConnection

LEMMA UdpCallsInv ==
  ASSUME UdpInv, NEW i \in Ids, U!Send(i) \/ U!Disconnect(i)
  PROVE  UdpInv'
<1>1. UdpTypes /\ inbox \in Seq(U!Datagram)
  BY DEF UdpInv, UdpTypes
<1>2. "send" \in U!Events /\ "disconnect" \in U!Events
  BY DEF U!Events
<1>3. ubudget' \in [U!Events -> Nat]
  BY <1>1, <1>2, UdpSpends DEF U!Send, U!Disconnect
<1>4. CASE U!Disconnect(i)
  BY <1>1, <1>3, <1>4, UdpAsIs DEF U!Disconnect
<1>5. CASE U!Send(i)
  <2> DEFINE o == [uobj[i] EXCEPT !.sndBuff = @ + 1]
  <2>1. uobj[i] \in UdpObj /\ uobj[i].sndBuff \in Nat
    BY <1>1, UdpFields
  <2>2. o \in UdpObj /\ UdpAlike(uobj[i], o)
    BY <2>1 DEF UdpObj, UdpAlike
  <2>3. uobj' = [uobj EXCEPT ![i] = o]
    BY <1>5 DEF U!Send
  <2> HIDE DEF o
  <2> QED BY <1>3, <1>5, <2>2, <2>3, UdpCounts DEF U!Send
<1> QED BY <1>4, <1>5

LEMMA UdpStopInv ==
  ASSUME UdpInv, U!StopListen \/ U!StopDisconnect \/ U!StopEnd
  PROVE  UdpInv'
<1>1. UdpTypes /\ inbox \in Seq(U!Datagram) /\ ubudget \in [U!Events -> Nat]
  BY DEF UdpInv, UdpTypes
<1>2. "stop" \in U!Events
  BY DEF U!Events
<1>3. ubudget' \in [U!Events -> Nat]
  BY <1>1, <1>2, UdpSpends DEF U!StopListen, U!StopDisconnect, U!StopEnd
<1> QED BY <1>1, <1>3, UdpAsIs DEF U!StopListen, U!StopDisconnect, U!StopEnd

(* A worker goes on, or turns to something else.                           *)
LEMMA UdpMoves ==
  ASSUME UdpInv, NEW w \in Workers, uwk' \in [Workers -> UdpWk],
         \A v \in Workers : v # w => uwk'[v] = uwk[v],
         uwk[w].pc # "map", UdpWorker(w)',
         WritesIo(uwk[w]) => WritesIo(uwk'[w]) /\ uwk'[w].i = uwk[w].i,
         uwk'[w].pc \in Closes => uwk[w].pc \in Closes /\ uwk'[w].i = uwk[w].i,
         uobj' = uobj \/ (uobj' \in [Ids -> UdpObj] /\ \A i \in Ids : UdpAlike(uobj[i], uobj'[i])),
         inbox' \in Seq(U!Datagram), ubudget' \in [U!Events -> Nat],
         UNCHANGED <<uids, addrMap, accepting, notes>>
  PROVE  UdpInv'
<1>1. UdpTypes'
  BY DEF UdpInv, UdpTypes
<1>2. \A i \in Ids : UdpAlike(uobj[i], uobj'[i])
  BY DEF UdpAlike
<1> QED BY <1>1, <1>2, UdpQuiet

(* Where a worker is that has no lock and closes nothing.                  *)
UdpEasy == {"idle", "recv", "push", "tell", "lock_io", "more", "lock_send", "send_more",
            "never"}

LEMMA UdpEasyMove ==
  ASSUME UdpInv, NEW w \in Workers, uwk' \in [Workers -> UdpWk],
         \A v \in Workers : v # w => uwk'[v] = uwk[v],
         uwk[w].pc # "map", ~WritesIo(uwk[w]),
         \/ uwk'[w].pc \in UdpEasy
         \/ uwk'[w].pc = "invalid" /\ uwk'[w].flag # "none" /\ uwk'[w].back # "refused",
         \/ uwk'[w].i = uwk[w].i /\ uwk[w].pc \notin {"idle", "recv", "accept"}
         \/ uwk'[w].i = uwk[w].i /\ uwk'[w].pc \in {"idle", "recv"}
         \/ uwk'[w].i = None /\ uwk'[w].pc \in {"idle", "recv"}
         \/ uwk'[w].i \in uids,
         uobj' = uobj \/ (uobj' \in [Ids -> UdpObj] /\ \A i \in Ids : UdpAlike(uobj[i], uobj'[i])),
         inbox' \in Seq(U!Datagram), ubudget' \in [U!Events -> Nat],
         UNCHANGED <<uids, addrMap, accepting, notes>>
  PROVE  UdpInv'
<1>1. /\ UdpTypes /\ UdpWorker(w) /\ \A i \in Ids : UdpConn(i)
      /\ None \notin Ids /\ uwk'[w].i \in Ids \cup {None}
  BY UdpAssumption DEF UdpInv, UdpWk
<1>2. uwk'[w].i # None => uobj[uwk'[w].i].addr # None
  BY <1>1 DEF UdpTypes, UdpWorker, UdpConn
<1>3. uwk'[w].i # None => uobj'[uwk'[w].i].addr # None
  BY <1>1, <1>2 DEF UdpAlike
<1>4. uwk'[w].pc \notin {"idle", "recv", "accept"} => uwk'[w].i # None
  BY <1>1 DEF UdpTypes, UdpWorker
<1>5. UdpWorker(w)'
  BY <1>3, <1>4 DEF UdpWorker, WritesIo, ReadsIo, ReadsSend, Closes, UdpEasy
<1>6. uwk'[w].pc \notin Closes
  BY DEF Closes, UdpEasy
<1> QED BY <1>5, <1>6, UdpMoves

LEMMA UdpReadyReadInv ==
  ASSUME UdpInv, NEW w \in Workers, U!OnReadyRead(w)
  PROVE  UdpInv'
<1>1. UdpTypes /\ ubudget \in [U!Events -> Nat] /\ inbox \in Seq(U!Datagram)
  BY DEF UdpInv, UdpTypes
<1>2. uwk[w].pc = "idle" /\ U!Goto(w, "recv")
  BY DEF U!OnReadyRead, U!At
<1>3. /\ uwk' \in [Workers -> UdpWk] /\ uwk'[w].pc = "recv" /\ uwk'[w].i = uwk[w].i
      /\ \A v \in Workers : v # w => uwk'[v] = uwk[v]
  BY <1>1, <1>2, UdpGoes DEF UdpPc
<1> QED BY <1>1, <1>2, <1>3, UdpEasyMove DEF U!OnReadyRead, WritesIo, UdpEasy

LEMMA UdpRecvFromInv ==
  ASSUME UdpInv, NEW w \in Workers, U!RecvFrom(w)
  PROVE  UdpInv'
<1>1. /\ UdpTypes /\ ubudget \in [U!Events -> Nat] /\ inbox \in Seq(U!Datagram) /\ UdpMapped
      /\ addrMap \in [Addrs -> Ids \cup {None}] /\ None \notin Ids
  BY UdpAssumption DEF UdpInv, UdpTypes
<1>2. /\ uwk[w].pc = "recv" /\ ~WritesIo(uwk[w])
      /\ UNCHANGED <<uobj, uids, addrMap, accepting, notes, ubudget>>
  BY DEF U!RecvFrom, U!At, WritesIo
<1>3. CASE inbox' = inbox /\ uwk' = [uwk EXCEPT ![w] = U!Idle]
  BY <1>1, <1>2, <1>3, UdpRests, UdpEasyMove DEF UdpEasy
<1>4. CASE inbox # <<>> /\ ~(inbox' = inbox /\ uwk' = [uwk EXCEPT ![w] = U!Idle])
  <2> DEFINE d == Head(inbox)
             p == CASE addrMap[d.addr] # None -> "find"
                    [] addrMap[d.addr] = None /\ d.kind = "long" -> "recv"
                    [] OTHER -> "accept"
             k == [U!Idle EXCEPT !.d = d, !.i = addrMap[d.addr], !.pc = p]
  <2>1. inbox' = Tail(inbox) /\ uwk' = [uwk EXCEPT ![w] = k]
    BY <1>4 DEF U!RecvFrom
  <2>2. d \in U!Datagram /\ inbox' \in Seq(U!Datagram)
    BY <1>1, <1>4, <2>1, HeadTailProperties
  <2>3. d.addr \in Addrs
    BY <2>2 DEF U!Datagram
  <2> HIDE DEF d
  <2>4. /\ p \in {"find", "recv", "accept"}
        /\ addrMap[d.addr] = None <=> p # "find"
    <3>1. CASE addrMap[d.addr] # None
      BY <3>1
    <3>2. CASE addrMap[d.addr] = None /\ d.kind = "long"
      BY <3>2
    <3>3. CASE addrMap[d.addr] = None /\ d.kind # "long"
      BY <3>3
    <3> QED BY <3>1, <3>2, <3>3
  <2> HIDE DEF p
  <2>5. U!Idle \in UdpWk
    BY OutAssumption DEF U!Idle, UdpWk, UdpPc
  <2>6. /\ k \in UdpWk /\ k.pc = p /\ k.d = d /\ k.i = addrMap[d.addr]
    BY <1>1, <2>2, <2>3, <2>4, <2>5 DEF UdpWk, UdpPc
  <2> HIDE DEF k
  <2>7. /\ uwk' \in [Workers -> UdpWk] /\ uwk'[w] = k
        /\ \A v \in Workers : v # w => uwk'[v] = uwk[v]
    BY <1>1, <2>1, <2>6, UdpTurns
  <2>8. k.i # None => uobj[k.i].addr # None
    BY <1>1, <2>3, <2>6, UdpAssumption DEF UdpMapped
  <2>9. UdpWorker(w)'
    BY <1>2, <2>2, <2>4, <2>6, <2>7, <2>8 DEF UdpWorker, WritesIo, ReadsIo, ReadsSend, Closes
  <2>10. uwk'[w].pc \notin Closes
    BY <2>4, <2>6, <2>7 DEF Closes
  <2> QED BY <1>1, <1>2, <2>2, <2>7, <2>9, <2>10, UdpMoves
<1> QED BY <1>3, <1>4 DEF U!RecvFrom

(* What a datagram is, and a command.                                      *)
LEMMA UdpAt ==
  ASSUME UdpInv, NEW w \in Workers, uwk[w].pc \notin {"idle", "recv", "accept"}
  PROVE  /\ UdpTypes /\ UdpWorker(w) /\ UdpConn(uwk[w].i)
         /\ uwk[w].i \in Ids /\ uobj[uwk[w].i] \in UdpObj
         /\ inbox \in Seq(U!Datagram) /\ ubudget \in [U!Events -> Nat]
<1>1. UdpTypes /\ UdpWorker(w)
  BY DEF UdpInv
<1>2. uwk[w].i \in Ids
  BY <1>1, UdpFields DEF UdpWorker
<1> QED BY <1>1, <1>2 DEF UdpInv, UdpTypes

LEMMA ExamineInv ==
  ASSUME UdpInv, NEW w \in Workers, U!Examine(w)
  PROVE  UdpInv'
<1> DEFINE i == uwk[w].i
           k == uwk[w].d.kind
<1>1. /\ uwk[w].pc = "find" /\ ~WritesIo(uwk[w])
      /\ UNCHANGED <<inbox, uids, addrMap, accepting, notes, ubudget>>
  BY DEF U!Examine, U!At, WritesIo
<1>2. /\ UdpTypes /\ UdpWorker(w) /\ i \in Ids /\ uobj[i] \in UdpObj
      /\ inbox \in Seq(U!Datagram) /\ ubudget \in [U!Events -> Nat]
  BY <1>1, UdpAt
<1>3. uwk[w].d \in U!Datagram /\ k \in {"data", "zero", "close", "long"}
  BY <1>1, <1>2 DEF UdpWorker, U!Datagram, U!Kinds
<1>4. uobj' = uobj \/ (uobj' \in [Ids -> UdpObj] /\ \A j \in Ids : UdpAlike(uobj[j], uobj'[j]))
  <2>1. CASE uobj' = [uobj EXCEPT ![i].fails = 0]
    <3> DEFINE o == [uobj[i] EXCEPT !.fails = 0]
    <3>9. 0 \in 0 .. UdpAttempts
      BY UdpAssumption
    <3>1. o \in UdpObj /\ UdpAlike(uobj[i], o)
      BY <1>2, <3>9 DEF UdpObj, UdpAlike
    <3>2. uobj' = [uobj EXCEPT ![i] = o]
      BY <2>1
    <3> HIDE DEF o
    <3>3. /\ uobj' \in [Ids -> UdpObj] /\ uobj'[i] = o
          /\ \A j \in Ids : j # i => uobj'[j] = uobj[j]
      BY <1>2, <3>1, <3>2, UdpBecomes
    <3> QED BY <3>1, <3>3 DEF UdpAlike
  <2> QED BY <2>1 DEF U!Examine
<1>5. CASE U!Goto(w, "recv")
  BY <1>1, <1>2, <1>4, <1>5, UdpGoes, UdpEasyMove DEF UdpPc, UdpEasy
<1>6. CASE U!Goto(w, "push")
  BY <1>1, <1>2, <1>4, <1>6, UdpGoes, UdpEasyMove DEF UdpPc, UdpEasy
<1>7. CASE U!AddFree(w, "close", "recv")
  BY <1>1, <1>2, <1>4, <1>7, UdpFrees, UdpEasyMove
<1>8. CASE U!AddFree(w, "error", "recv")
  BY <1>1, <1>2, <1>4, <1>8, UdpFrees, UdpEasyMove
<1>9. \/ U!Goto(w, "recv") \/ U!Goto(w, "push")
      \/ U!AddFree(w, "close", "recv") \/ U!AddFree(w, "error", "recv")
  BY <1>3 DEF U!Examine
<1> QED BY <1>5, <1>6, <1>7, <1>8, <1>9

LEMMA UdpPushInv ==
  ASSUME UdpInv, NEW w \in Workers, U!Push(w)
  PROVE  UdpInv'
<1> DEFINE i == uwk[w].i
<1>1. /\ uwk[w].pc = "push" /\ ~WritesIo(uwk[w])
      /\ UNCHANGED <<inbox, uids, addrMap, accepting, notes, ubudget>>
  BY DEF U!Push, U!At, WritesIo
<1>2. /\ UdpTypes /\ i \in Ids /\ uobj[i] \in UdpObj
      /\ inbox \in Seq(U!Datagram) /\ ubudget \in [U!Events -> Nat]
  BY <1>1, UdpAt
<1>3. CASE uobj' = uobj /\ U!Goto(w, "recv")
  BY <1>1, <1>2, <1>3, UdpGoes, UdpEasyMove DEF UdpPc, UdpEasy
<1>4. CASE uobj' = [uobj EXCEPT ![i].recvQueue = @ + 1] /\ U!Goto(w, "tell")
  <2> DEFINE o == [uobj[i] EXCEPT !.recvQueue = @ + 1]
  <2>1. o \in UdpObj /\ UdpAlike(uobj[i], o)
    BY <1>2 DEF UdpObj, UdpAlike
  <2>2. uobj' = [uobj EXCEPT ![i] = o]
    BY <1>4
  <2> HIDE DEF o
  <2>3. /\ uobj' \in [Ids -> UdpObj] /\ uobj'[i] = o
        /\ \A j \in Ids : j # i => uobj'[j] = uobj[j]
    BY <1>2, <2>1, <2>2, UdpBecomes
  <2>4. \A j \in Ids : UdpAlike(uobj[j], uobj'[j])
    BY <2>1, <2>3 DEF UdpAlike
  <2> QED BY <1>1, <1>2, <1>4, <2>3, <2>4, UdpGoes, UdpEasyMove DEF UdpPc, UdpEasy
<1> QED BY <1>3, <1>4 DEF U!Push

LEMMA UdpTellsInv ==
  ASSUME UdpInv, NEW w \in Workers, U!Tell(w) \/ U!More(w) \/ U!SendMore(w)
  PROVE  UdpInv'
<1>1. /\ uwk[w].pc \in {"tell", "more", "send_more"} /\ ~WritesIo(uwk[w])
      /\ UNCHANGED <<inbox, uobj, uids, addrMap, accepting, notes, ubudget>>
      /\ U!Goto(w, "recv") \/ uwk' = [uwk EXCEPT ![w] = U!Idle]
  BY DEF U!Tell, U!More, U!SendMore, U!At, WritesIo
<1>2. UdpTypes /\ inbox \in Seq(U!Datagram) /\ ubudget \in [U!Events -> Nat]
  BY <1>1, UdpAt
<1>3. CASE U!Goto(w, "recv")
  BY <1>1, <1>2, <1>3, UdpGoes, UdpEasyMove DEF UdpPc, UdpEasy
<1>4. CASE uwk' = [uwk EXCEPT ![w] = U!Idle]
  BY <1>1, <1>2, <1>4, UdpRests, UdpEasyMove DEF UdpEasy
<1> QED BY <1>1, <1>3, <1>4

LEMMA UdpTakeInv ==
  ASSUME UdpInv, NEW w \in Workers, U!TakeCommand(w)
  PROVE  UdpInv'
<1> DEFINE c == Head(ucmds)
           go(p) == [U!Idle EXCEPT !.pc = p, !.i = c.i]
<1>1. /\ uwk[w].pc = "idle" /\ ~WritesIo(uwk[w])
      /\ UNCHANGED <<inbox, uobj, uids, addrMap, accepting, notes, ubudget>>
  BY DEF U!TakeCommand, U!At, WritesIo
<1>2. UdpTypes /\ inbox \in Seq(U!Datagram) /\ ubudget \in [U!Events -> Nat] /\ uids \subseteq Ids
  BY DEF UdpInv, UdpTypes
<1>3. U!Idle \in UdpWk
  BY OutAssumption DEF U!Idle, UdpWk, UdpPc
<1>4. CASE uwk' = [uwk EXCEPT ![w] = U!Idle]
  BY <1>1, <1>2, <1>4, UdpRests, UdpEasyMove DEF UdpEasy
<1>5. ASSUME c.i \in uids, NEW p \in {"lock_io", "lock_send"}, uwk' = [uwk EXCEPT ![w] = go(p)]
      PROVE  UdpInv'
  <2> HIDE DEF c
  <2>1. go(p) \in UdpWk /\ go(p).pc = p /\ go(p).i = c.i
    BY <1>2, <1>3, <1>5 DEF UdpWk, UdpPc
  <2> HIDE DEF go
  <2> QED BY <1>1, <1>2, <1>5, <2>1, UdpTurns, UdpEasyMove DEF UdpEasy
<1>6. CASE c.i \in uids /\ uwk' = [uwk EXCEPT ![w] = [go("invalid") EXCEPT !.flag = "close"]]
  <2> HIDE DEF c
  <2> DEFINE k == [go("invalid") EXCEPT !.flag = "close"]
  <2>1. go("invalid") \in UdpWk /\ go("invalid").pc = "invalid" /\ go("invalid").i = c.i
    BY <1>2, <1>3, <1>6 DEF UdpWk, UdpPc
  <2>2. go("invalid").back = U!Idle.back /\ U!Idle.back = "idle"
    BY DEF U!Idle
  <2> HIDE DEF go
  <2>3. k \in UdpWk /\ k.pc = "invalid" /\ k.i = c.i /\ k.flag = "close" /\ k.back = "idle"
    BY <2>1, <2>2 DEF UdpWk
  <2>4. uwk' = [uwk EXCEPT ![w] = k]
    BY <1>6
  <2> HIDE DEF k
  <2> QED BY <1>1, <1>2, <1>6, <2>3, <2>4, UdpTurns, UdpEasyMove
<1>7. \/ uwk' = [uwk EXCEPT ![w] = U!Idle]
      \/ /\ c.i \in uids
         /\ \/ \E p \in {"lock_io", "lock_send"} : uwk' = [uwk EXCEPT ![w] = go(p)]
            \/ uwk' = [uwk EXCEPT ![w] = [go("invalid") EXCEPT !.flag = "close"]]
  <2>1. CASE ~U!Valid(c.i)
    BY <2>1 DEF U!TakeCommand
  <2>2. CASE U!Valid(c.i)
    <3> DEFINE r == CASE c.type = "receive" /\ uobj[c.i].recvQueue > 0 -> go("lock_io")
                      [] c.type = "send" /\ uobj[c.i].sndBuff > 0 -> go("lock_send")
                      [] c.type \in {"disconnect", "timeout"} ->
                           [go("invalid") EXCEPT !.flag = "close"]
                      [] OTHER -> U!Idle
    <3>1. uwk' = [uwk EXCEPT ![w] = r]
      BY <2>2 DEF U!TakeCommand
    <3>2. r \in {go("lock_io"), go("lock_send"), [go("invalid") EXCEPT !.flag = "close"], U!Idle}
      OBVIOUS
    <3> HIDE DEF r
    <3>3. c.i \in uids
      BY <2>2 DEF U!Valid
    <3> QED BY <3>1, <3>2, <3>3
  <2> QED BY <2>1, <2>2
<1> QED BY <1>4, <1>5, <1>6, <1>7

LEMMA UdpOnSendInv ==
  ASSUME UdpInv, NEW w \in Workers, U!OnSend(w)
  PROVE  UdpInv'
<1>1. /\ uwk[w].pc = "on_send" /\ U!Goto(w, "sendto")
      /\ UNCHANGED <<inbox, uobj, uids, addrMap, accepting, notes, ubudget>>
  BY DEF U!OnSend, U!At
<1>2. /\ UdpTypes /\ UdpWorker(w) /\ uwk[w].i \in Ids
      /\ inbox \in Seq(U!Datagram) /\ ubudget \in [U!Events -> Nat]
  BY <1>1, UdpAt
<1>3. /\ uwk' \in [Workers -> UdpWk] /\ \A v \in Workers : v # w => uwk'[v] = uwk[v]
      /\ uwk'[w].pc = "sendto" /\ uwk'[w].i = uwk[w].i
  BY <1>1, <1>2, UdpGoes DEF UdpPc
<1>4. UdpWorker(w)'
  BY <1>1, <1>2, <1>3 DEF UdpWorker, WritesIo, ReadsIo, ReadsSend, Closes
<1>5. ~WritesIo(uwk[w]) /\ uwk'[w].pc \notin Closes
  BY <1>1, <1>3 DEF WritesIo, Closes
<1> QED BY <1>1, <1>2, <1>3, <1>4, <1>5, UdpMoves

LEMMA UdpInvalidInv ==
  ASSUME UdpInv, NEW w \in Workers, U!Invalid(w)
  PROVE  UdpInv'
<1> DEFINE i == uwk[w].i
<1>1. /\ uwk[w].pc = "invalid"
      /\ UNCHANGED <<inbox, uids, addrMap, accepting, notes, ubudget>>
  BY DEF U!Invalid, U!At
<1>2. /\ UdpTypes /\ UdpWorker(w) /\ i \in Ids /\ uobj[i] \in UdpObj
      /\ inbox \in Seq(U!Datagram) /\ ubudget \in [U!Events -> Nat]
  BY <1>1, UdpAt
<1>3. CASE /\ uobj[i].valid /\ U!Goto(w, "want_io")
           /\ uobj' = [uobj EXCEPT ![i].lcIo.waits = @ \cup {w}]
  <2> DEFINE l == [uobj[i].lcIo EXCEPT !.waits = @ \cup {w}]
             o == [uobj[i] EXCEPT !.lcIo = l]
  <2>1. uobj[i].lcIo \in U!LockState
    BY <1>2 DEF UdpObj
  <2>2. l \in U!LockState /\ l.wr = uobj[i].lcIo.wr /\ l.rd = uobj[i].lcIo.rd
    BY <2>1 DEF U!LockState
  <2>3. uobj' = [uobj EXCEPT ![i] = o]
    BY <1>3
  <2> HIDE DEF l
  <2>4. o \in UdpObj /\ UdpAlike(uobj[i], o)
    BY <1>2, <2>2 DEF UdpObj, UdpAlike
  <2> HIDE DEF o
  <2>5. /\ uobj' \in [Ids -> UdpObj] /\ uobj'[i] = o
        /\ \A j \in Ids : j # i => uobj'[j] = uobj[j]
    BY <1>2, <2>3, <2>4, UdpBecomes
  <2>6. \A j \in Ids : UdpAlike(uobj[j], uobj'[j])
    BY <2>4, <2>5 DEF UdpAlike
  <2>7. /\ uwk' \in [Workers -> UdpWk] /\ \A v \in Workers : v # w => uwk'[v] = uwk[v]
        /\ uwk'[w].pc = "want_io" /\ uwk'[w].i = i
        /\ uwk'[w].flag = uwk[w].flag /\ uwk'[w].back = uwk[w].back
    BY <1>2, <1>3, UdpGoes DEF UdpPc
  <2>8. UdpWorker(w)' /\ WritesIo(uwk'[w]) = WritesIo(uwk[w]) /\ uwk'[w].pc \notin Closes
    BY <1>1, <1>2, <2>6, <2>7 DEF UdpWorker, WritesIo, ReadsIo, ReadsSend, Closes, UdpAlike
  <2> QED BY <1>1, <1>2, <2>5, <2>6, <2>7, <2>8, UdpMoves
<1>4. CASE ~uobj[i].valid /\ uobj' = uobj /\ U!Goto(w, uwk[w].back)
  <2>1. uwk[w].back \in {"idle", "recv", "refused", "never"} /\ uwk[w].back \in UdpPc
    BY <1>2, UdpFields DEF UdpPc
  <2>2. /\ uwk' \in [Workers -> UdpWk] /\ \A v \in Workers : v # w => uwk'[v] = uwk[v]
        /\ uwk'[w].pc = uwk[w].back /\ uwk'[w].i = i
    BY <1>2, <1>4, <2>1, UdpGoes
  <2>3. /\ UdpWorker(w)' /\ (WritesIo(uwk[w]) => WritesIo(uwk'[w])) /\ uwk'[w].pc \notin Closes
    BY <1>1, <1>2, <1>4, <2>1, <2>2 DEF UdpWorker, WritesIo, ReadsIo, ReadsSend, Closes
  <2> QED BY <1>1, <1>2, <1>4, <2>2, <2>3, UdpMoves
<1> QED BY <1>3, <1>4 DEF U!Invalid

LEMMA UdpOnCloseInv ==
  ASSUME UdpInv, NEW w \in Workers, U!OnClose(w)
  PROVE  UdpInv'
<1>1. /\ uwk[w].pc = "on_close" /\ U!Goto(w, "remove")
      /\ UNCHANGED <<inbox, uobj, uids, addrMap, accepting, notes, ubudget>>
  BY DEF U!OnClose, U!At
<1>2. /\ UdpTypes /\ UdpWorker(w) /\ uwk[w].i \in Ids
      /\ inbox \in Seq(U!Datagram) /\ ubudget \in [U!Events -> Nat]
  BY <1>1, UdpAt
<1>3. /\ uwk' \in [Workers -> UdpWk] /\ \A v \in Workers : v # w => uwk'[v] = uwk[v]
      /\ uwk'[w].pc = "remove" /\ uwk'[w].i = uwk[w].i /\ uwk'[w].back = uwk[w].back
  BY <1>1, <1>2, UdpGoes DEF UdpPc
<1>4. UdpWorker(w)' /\ ~WritesIo(uwk[w]) /\ uwk[w].pc \in Closes
  BY <1>1, <1>2, <1>3 DEF UdpWorker, WritesIo, ReadsIo, ReadsSend, Closes
<1> QED BY <1>1, <1>2, <1>3, <1>4, UdpMoves

-----------------------------------------------------------------------------
(* A worker does something to the connection it is at work for.            *)

(* What it must leave to the others.                                       *)
UdpCourtesy(w, i) ==
  LET o == uobj[i]
      p == uobj'[i]
  IN  /\ o.addr # None /\ p.addr = o.addr /\ (p.valid => o.valid)
      /\ \A v \in Workers : v # w => /\ o.lcIo.wr = v <=> p.lcIo.wr = v
                                     /\ v \in o.lcIo.rd => v \in p.lcIo.rd
                                     /\ v \in o.lcSend.rd => v \in p.lcSend.rd
      /\ o.valid /\ ~p.valid => o.lcIo.wr = w /\ o.lcIo.rd = {} /\ o.lcSend.rd = {}
      /\ Accepted(i) => Accepted(i)'

LEMMA UdpStep ==
  ASSUME UdpInv, UdpTypes', NEW w \in Workers, NEW i \in Ids,
         \A v \in Workers : v # w => uwk'[v] = uwk[v],
         \A j \in Ids : j # i => uobj'[j] = uobj[j] /\ notes'[j] = notes[j],
         UdpCourtesy(w, i), UdpWorker(w)', UdpConn(i)',
         uids' = uids \/ (uwk[w].pc = "remove" /\ uids' = uids \ {i}),
         UNCHANGED <<addrMap, accepting>>,
         uwk[w].i = i, uwk'[w].i \in {i, None}, uwk[w].pc # "map", uwk'[w].pc # "map",
         uwk'[w].pc \in Closes => uwk[w].pc \in Closes \/ uobj[i].valid
  PROVE  UdpInv'
<1>1. /\ UdpTypes /\ UdpMapped /\ (\A v \in Workers : UdpWorker(v))
      /\ \A j \in Ids : UdpConn(j)
  BY DEF UdpInv
<1>2. ASSUME NEW j \in Ids, j # i PROVE Accepted(j)' <=> Accepted(j)
  BY <1>2 DEF Accepted
<1>3. \A v \in Workers : uwk[v].i = i => ~(uwk[v].pc = "map" /\ v # w /\ uwk[w].pc = "remove")
  BY <1>1 DEF UdpWorker, Closes
<1>4. ASSUME NEW v \in Workers PROVE UdpWorker(v)'
  <2>1. CASE v = w
    BY <2>1
  <2>2. CASE v # w
    <3>1. uwk'[v] = uwk[v] /\ UdpWorker(v) /\ uwk[v].i \in Ids \cup {None}
      BY <1>1, <2>2, UdpFields
    <3>2. CASE uwk[v].i = None
      BY <3>1, <3>2 DEF UdpWorker, WritesIo, ReadsIo, ReadsSend, Closes
    <3>3. CASE uwk[v].i \in Ids \ {i}
      <4>1. uwk[v].i \in uids' <=> uwk[v].i \in uids
        BY <3>3
      <4> QED BY <1>2, <3>1, <3>3, <4>1 DEF UdpWorker
    <3>4. CASE uwk[v].i = i
      <4> DEFINE k == uwk[v]
                 o == uobj[i]
                 p == uobj'[i]
      <4>1. /\ WritesIo(k) => o.lcIo.wr = v
            /\ ReadsIo(k) => v \in o.lcIo.rd /\ Accepted(i)
            /\ ReadsSend(k) => v \in o.lcSend.rd
        BY <3>1, <3>4 DEF UdpWorker
      <4>2. /\ WritesIo(k) => p.lcIo.wr = v
            /\ ReadsIo(k) => v \in p.lcIo.rd /\ Accepted(i)'
            /\ ReadsSend(k) => v \in p.lcSend.rd
        BY <2>2, <4>1 DEF UdpCourtesy
      <4>3. k.pc \in {"map", "on_accept"} \/ ReadsIo(k) \/ ReadsSend(k) => p.valid
        <5>1. k.pc \in {"map", "on_accept"} => WritesIo(k)
          BY DEF WritesIo
        <5>2. k.pc \in {"map", "on_accept"} \/ ReadsIo(k) \/ ReadsSend(k) => o.valid
          BY <3>1, <3>4 DEF UdpWorker
        <5>3. o.valid \in BOOLEAN /\ p.valid \in BOOLEAN
          BY UdpFields, <1>1 DEF UdpTypes, UdpObj
        <5> QED BY <2>2, <4>1, <5>1, <5>2, <5>3 DEF UdpCourtesy
      <4>4. k.pc \in {"on_close", "remove"} => i \in uids'
        <5>1. k.pc \in {"on_close", "remove"} => i \in uids
          BY <3>1, <3>4 DEF UdpWorker
        <5>2. k.pc \in {"on_close", "remove"} /\ uwk[w].pc = "remove" => v = w
          BY <1>1, <3>4 DEF UdpMapped, Closes
        <5> QED BY <2>2, <5>1, <5>2
      <4>5. k.pc \in Closes \cup {"refused"} => ~p.valid
        BY <3>1, <3>4 DEF UdpWorker, UdpCourtesy
      <4>6. k.pc = "want_send" /\ k.back # "refused" /\ p.valid => Accepted(i)'
        BY <3>1, <3>4 DEF UdpWorker, UdpCourtesy
      <4>7. p.addr = o.addr /\ o.addr # None
        BY DEF UdpCourtesy
      <4> QED BY <3>1, <3>4, <4>2, <4>3, <4>4, <4>5, <4>6, <4>7 DEF UdpWorker
    <3> QED BY <3>1, <3>2, <3>3, <3>4
  <2> QED BY <2>1, <2>2
<1>5. ASSUME NEW j \in Ids PROVE UdpConn(j)'
  <2>1. CASE j = i
    BY <2>1
  <2>2. CASE j # i
    <3>1. /\ uobj'[j] = uobj[j] /\ notes'[j] = notes[j] /\ UdpConn(j)
          /\ Accepted(j)' <=> Accepted(j)
          /\ j \in uids' <=> j \in uids
      BY <1>1, <1>2, <2>2
    <3>2. \A v \in Workers : uobj[j].lcIo.wr = v => v # w /\ WritesIo(uwk[v]) /\ uwk[v].i = j
      BY <2>2, <3>1 DEF UdpConn
    <3>3. \A v \in Workers : uobj[j].lcIo.wr = v => WritesIo(uwk'[v]) /\ uwk'[v].i = j
      BY <3>2
    <3> QED BY <3>1, <3>3 DEF UdpConn
  <2> QED BY <2>1, <2>2
<1>6. UdpMapped'
  <2>1. ASSUME NEW v \in Workers, v # w, uwk'[v].pc \in Closes, uwk'[w].pc \in Closes,
               uwk'[v].i = uwk'[w].i
        PROVE  FALSE
    <3>1. uwk[v].pc \in Closes /\ uwk[v].i = i
      BY <1>1, <2>1, UdpAssumption DEF UdpWorker, Closes
    <3>2. ~uobj[i].valid
      BY <1>1, <3>1 DEF UdpWorker
    <3>3. uwk[w].pc \in Closes
      BY <2>1, <3>2
    <3> QED BY <1>1, <2>1, <3>1, <3>3 DEF UdpMapped
  <2>2. \A v, u \in Workers : uwk'[v].pc \in Closes /\ uwk'[u].pc \in Closes /\ uwk'[v].i = uwk'[u].i
                             => v = u
    <3>1. \A v, u \in Workers : v # w /\ u # w /\ uwk'[v].pc \in Closes /\ uwk'[u].pc \in Closes
                                /\ uwk'[v].i = uwk'[u].i => v = u
      BY <1>1 DEF UdpMapped
    <3> QED BY <2>1, <3>1
  <2>3. \A j \in Ids : uobj'[j].addr = uobj[j].addr
    BY DEF UdpCourtesy
  <2>4. \A v \in Workers : uwk[v].pc = "map" => uwk'[v] = uwk[v]
    OBVIOUS
  <2>5. \A j \in uids' : \/ addrMap'[uobj'[j].addr] = j
                         \/ \E v \in Workers : uwk'[v].pc = "map" /\ uwk'[v].i = j
    <3>1. ASSUME NEW j \in uids' PROVE \/ addrMap'[uobj'[j].addr] = j
                                       \/ \E v \in Workers : uwk'[v].pc = "map" /\ uwk'[v].i = j
      <4>1. j \in uids /\ j \in Ids
        BY <1>1 DEF UdpTypes
      <4>2. \/ addrMap[uobj[j].addr] = j
            \/ \E v \in Workers : uwk[v].pc = "map" /\ uwk[v].i = j
        BY <1>1, <4>1 DEF UdpMapped
      <4> QED BY <2>3, <2>4, <4>1, <4>2
    <3> QED BY <3>1
  <2>6. \A a \in Addrs : addrMap'[a] # None => uobj'[addrMap'[a]].addr = a
    BY <1>1, <2>3 DEF UdpMapped, UdpTypes
  <2> QED BY <2>2, <2>5, <2>6 DEF UdpMapped
<1> QED BY <1>4, <1>5, <1>6 DEF UdpInv

(* The listener is told of a connection that is not closed.                *)
UdpOrder(h) ==
  \A n \in 1 .. Len(h) :
    /\ h[n] \in {"receive", "close"} => \E m \in 1 .. n - 1 : h[m] = "accepted"
    /\ h[n] = "close" => n = Len(h)
UdpNoClose(h) == \A n \in 1 .. Len(h) : h[n] # "close"

LEMMA UdpFires ==
  ASSUME UdpTypes, NEW i \in Ids, NEW e \in UdpNotes, U!Fire(i, e),
         UdpOrder(notes[i]), UdpNoClose(notes[i]),
         e \in {"receive", "close"} => Accepted(i)
  PROVE  /\ notes' \in [Ids -> Seq(UdpNotes)] /\ \A j \in Ids : j # i => notes'[j] = notes[j]
         /\ UdpOrder(notes'[i]) /\ (e # "close" => UdpNoClose(notes'[i]))
         /\ Accepted(i)' <=> Accepted(i) \/ e = "accepted"
<1> DEFINE h == notes[i]
           g == notes'[i]
<1>1. h \in Seq(UdpNotes) /\ Len(h) \in Nat
  BY UdpFields
<1>2. g = Append(h, e) /\ \A j \in Ids : j # i => notes'[j] = notes[j]
  BY DEF U!Fire, UdpTypes
<1>3. /\ g \in Seq(UdpNotes) /\ Len(g) = Len(h) + 1 /\ g[Len(h) + 1] = e
      /\ \A n \in 1 .. Len(h) : g[n] = h[n]
  <2> HIDE DEF h, g
  <2> QED BY <1>1, <1>2, AppendProperties
<1>4. notes' \in [Ids -> Seq(UdpNotes)]
  BY <1>3 DEF U!Fire, UdpTypes
<1>5. Accepted(i)' <=> Accepted(i) \/ e = "accepted"
  <2>1. \A n \in 1 .. Len(g) : n \in 1 .. Len(h) \/ n = Len(h) + 1
    BY <1>1, <1>3
  <2>2. 1 .. Len(h) \subseteq 1 .. Len(g) /\ Len(h) + 1 \in 1 .. Len(g)
    BY <1>1, <1>3
  <2> QED BY <1>3, <2>1, <2>2 DEF Accepted
<1>6. ASSUME NEW n \in 1 .. Len(g)
      PROVE  /\ g[n] \in {"receive", "close"} => \E m \in 1 .. n - 1 : g[m] = "accepted"
             /\ g[n] = "close" => n = Len(g)
             /\ e # "close" => g[n] # "close"
  <2>1. CASE n \in 1 .. Len(h)
    <3>1. g[n] = h[n] /\ h[n] # "close"
      BY <1>3, <2>1 DEF UdpNoClose
    <3>2. g[n] = "receive" => \E m \in 1 .. n - 1 : h[m] = "accepted"
      BY <2>1, <3>1 DEF UdpOrder
    <3>3. \A m \in 1 .. n - 1 : m \in 1 .. Len(h)
      BY <1>1, <2>1
    <3> QED BY <1>3, <3>1, <3>2, <3>3
  <2>2. CASE n = Len(h) + 1
    <3>1. g[n] = e /\ n = Len(g) /\ \A m \in 1 .. Len(h) : m \in 1 .. n - 1
      BY <1>1, <1>3, <2>2
    <3> QED BY <1>3, <3>1 DEF Accepted
  <2> QED BY <1>1, <1>3, <2>1, <2>2
<1> QED BY <1>2, <1>4, <1>5, <1>6 DEF UdpOrder, UdpNoClose

LEMMA UdpConnIs ==
  ASSUME NEW i
  PROVE  UdpConn(i) <=>
           LET o == uobj[i] IN
           /\ o.lcSend.wr = None /\ (o.lcIo.wr # None => o.lcIo.rd = {})
           /\ \A w \in Workers : o.lcIo.wr = w => WritesIo(uwk[w]) /\ uwk[w].i = i
           /\ i \in uids => o.addr # None
           /\ o.valid => i \in uids /\ UdpNoClose(notes[i])
           /\ o.valid /\ o.lcIo.wr = None => Accepted(i)
           /\ o.addr = None => notes[i] = <<>>
           /\ UdpOrder(notes[i])
BY DEF UdpConn, UdpOrder, UdpNoClose

LEMMA UdpConnWillBe ==
  ASSUME NEW i
  PROVE  UdpConn(i)' <=>
           LET o == uobj'[i] IN
           /\ o.lcSend.wr = None /\ (o.lcIo.wr # None => o.lcIo.rd = {})
           /\ \A w \in Workers : o.lcIo.wr = w => WritesIo(uwk'[w]) /\ uwk'[w].i = i
           /\ i \in uids' => o.addr # None
           /\ o.valid => i \in uids' /\ UdpNoClose(notes'[i])
           /\ o.valid /\ o.lcIo.wr = None => Accepted(i)'
           /\ o.addr = None => notes'[i] = <<>>
           /\ UdpOrder(notes'[i])
BY DEF UdpConn, UdpOrder, UdpNoClose

(* Locks of a connection.                                                  *)
LEMMA UdpRead ==
  ASSUME NEW l \in U!LockState, NEW w \in Workers
  PROVE  /\ [l EXCEPT !.rd = @ \cup {w}] \in U!LockState /\ [l EXCEPT !.rd = @ \cup {w}].wr = l.wr
         /\ [l EXCEPT !.rd = @ \cup {w}].rd = l.rd \cup {w}
         /\ [l EXCEPT !.rd = @ \ {w}] \in U!LockState /\ [l EXCEPT !.rd = @ \ {w}].wr = l.wr
         /\ [l EXCEPT !.rd = @ \ {w}].rd = l.rd \ {w}
BY DEF U!LockState

(* What a worker that goes on as k may count on, when the connection has   *)
(* become o and ids are those that resolve.                                *)
UdpWill(w, i, o, k, ids) ==
  /\ k.i = i \/ (k.i = None /\ k.pc = "idle")
  /\ k.pc \notin {"accept", "map", "on_accept"} /\ (k.pc = "find" => k.d \in U!Datagram)
  /\ WritesIo(k) <=> o.lcIo.wr = w
  /\ ReadsIo(k) => w \in o.lcIo.rd /\ Accepted(i)
  /\ ReadsSend(k) => w \in o.lcSend.rd
  /\ ReadsIo(k) \/ ReadsSend(k) => o.valid
  /\ k.pc \in Closes \cup {"refused"} => ~o.valid
  /\ k.pc \in {"invalid", "want_io", "want_send"} => (k.flag = "none" <=> k.back = "refused")
  /\ k.pc = "on_close" => k.back # "refused"
  /\ k.pc = "want_send" /\ k.back # "refused" /\ o.valid => Accepted(i)
  /\ k.pc \in {"on_close", "remove"} => i \in ids
  /\ k.pc = "erase" => addrMap[o.addr] = i /\ i \notin ids

(* What it does to the connection and its locks.                           *)
UdpBetween(w, i, o) ==
  LET b == uobj[i]
  IN  /\ o.addr = b.addr /\ (o.valid => b.valid)
      /\ \A v \in Workers : v # w => /\ b.lcIo.wr = v <=> o.lcIo.wr = v
                                     /\ v \in b.lcIo.rd => v \in o.lcIo.rd
                                     /\ v \in b.lcSend.rd => v \in o.lcSend.rd
      /\ b.valid /\ ~o.valid => b.lcIo.wr = w /\ b.lcIo.rd = {} /\ b.lcSend.rd = {}
      /\ o.lcSend.wr = None /\ (o.lcIo.wr # None => o.lcIo.rd = {})

LEMMA UdpActs ==
  ASSUME UdpInv, NEW w \in Workers, NEW i \in Ids, uwk[w].i = i,
         uwk[w].pc \notin {"idle", "recv", "accept", "map"},
         NEW o \in UdpObj, uobj' = [uobj EXCEPT ![i] = o],
         NEW k \in UdpWk, uwk' \in [Workers -> UdpWk], uwk'[w] = k,
         \A v \in Workers : v # w => uwk'[v] = uwk[v],
         NEW e \in UdpNotes \cup {"none"},
         IF e = "none" THEN notes' = notes
         ELSE U!Fire(i, e) /\ uobj[i].valid /\ (e \in {"receive", "close"} => Accepted(i)),
         uids' = uids \/ (uwk[w].pc = "remove" /\ uids' = uids \ {i}),
         UNCHANGED <<inbox, addrMap, accepting>>, ubudget' \in [U!Events -> Nat],
         UdpBetween(w, i, o), UdpWill(w, i, o, k, uids'),
         k.pc \in Closes => uwk[w].pc \in Closes \/ uobj[i].valid,
         e = "close" => ~o.valid,
         o.valid /\ o.lcIo.wr = None => Accepted(i) \/ e = "accepted"
  PROVE  UdpInv'
<1>1. /\ UdpTypes /\ UdpWorker(w) /\ UdpConn(i) /\ uobj[i] \in UdpObj
      /\ inbox \in Seq(U!Datagram)
  BY UdpAt
<1>2. /\ uobj' \in [Ids -> UdpObj] /\ uobj'[i] = o
      /\ \A j \in Ids : j # i => uobj'[j] = uobj[j]
  BY <1>1, UdpBecomes
<1>3. /\ uwk' \in [Workers -> UdpWk] /\ uwk'[w] = k
      /\ \A v \in Workers : v # w => uwk'[v] = uwk[v]
  OBVIOUS
<1>4. UdpOrder(notes[i]) /\ (uobj[i].valid => UdpNoClose(notes[i]))
  BY <1>1, UdpConnIs
<1>5. /\ notes' \in [Ids -> Seq(UdpNotes)] /\ \A j \in Ids : j # i => notes'[j] = notes[j]
      /\ UdpOrder(notes'[i]) /\ (uobj[i].valid /\ e # "close" => UdpNoClose(notes'[i]))
      /\ Accepted(i)' <=> Accepted(i) \/ e = "accepted"
  <2>1. CASE e = "none"
    <3>1. notes' = notes
      BY <2>1
    <3>2. Accepted(i)' <=> Accepted(i)
      BY <3>1 DEF Accepted
    <3> QED BY <1>1, <1>4, <2>1, <3>1, <3>2 DEF UdpTypes
  <2>2. CASE e \in UdpNotes /\ e # "none"
    BY <1>1, <1>4, <2>2, UdpFires
  <2> QED BY <2>1, <2>2
<1>6. UdpTypes'
  BY <1>1, <1>2, <1>3, <1>5 DEF UdpTypes
<1>7. uobj[i].addr # None /\ (uobj[i].valid => i \in uids)
  BY <1>1, UdpAssumption DEF UdpWorker, UdpConn
<1>8. UdpCourtesy(w, i)
  BY <1>2, <1>5, <1>7 DEF UdpCourtesy, UdpBetween
<1>9. k.i # None => k.i = i
  BY DEF UdpWill
<1>10. UdpWorker(w)'
  <2>1. CASE k.i = None
    <3>1. k.pc = "idle"
      BY <2>1, UdpAssumption DEF UdpWill
    <3> QED BY <1>3, <2>1, <3>1 DEF UdpWorker, WritesIo, ReadsIo, ReadsSend, Closes
  <2>2. CASE k.i = i
    <3>1. uobj'[k.i] = o /\ o.addr # None /\ uwk'[w] = k
      BY <1>2, <1>3, <1>7, <2>2 DEF UdpBetween
    <3>2. Accepted(i) => \E n \in 1 .. Len(notes'[k.i]) : notes'[k.i][n] = "accepted"
      BY <1>5, <2>2 DEF Accepted
    <3>3. Accepted(i) => Accepted(uwk[w].i)'
      BY <3>1, <3>2 DEF Accepted
    <3>4. /\ WritesIo(uwk[w])' <=> WritesIo(k)
          /\ ReadsIo(uwk[w])' <=> ReadsIo(k)
          /\ ReadsSend(uwk[w])' <=> ReadsSend(k)
      BY <3>1 DEF WritesIo, ReadsIo, ReadsSend
    <3>5. i # None /\ addrMap' = addrMap
      BY UdpAssumption
    <3>6. uobj'[uwk'[w].i] = o /\ uwk'[w].i = i
      BY <2>2, <3>1
    <3>7. /\ k.pc \in {"accept", "map", "on_accept", "find"} => k.d \in U!Datagram
      BY DEF UdpWill
    <3> QED BY <3>1, <3>3, <3>4, <3>5, <3>6, <3>7 DEF UdpWorker, UdpWill
  <2> QED BY <1>9, <2>1, <2>2
<1>11. \A v \in Workers : o.lcIo.wr = v => WritesIo(uwk'[v]) /\ uwk'[v].i = i
  <2>1. o.lcIo.wr = w => WritesIo(k) /\ k.i = i
    BY DEF UdpWill, WritesIo
  <2>2. \A v \in Workers : v # w /\ o.lcIo.wr = v => WritesIo(uwk[v]) /\ uwk[v].i = i
    BY <1>1 DEF UdpConn, UdpBetween
  <2> QED BY <1>3, <2>1, <2>2
<1>12. o.valid => i \in uids' /\ UdpNoClose(notes'[i])
  <2>1. o.valid => uobj[i].valid /\ e # "close"
    BY DEF UdpBetween
  <2>2. uwk[w].pc = "remove" => ~uobj[i].valid
    BY <1>1 DEF UdpWorker, Closes
  <2> QED BY <1>5, <1>7, <2>1, <2>2
<1>13. UdpConn(i)'
  BY <1>2, <1>5, <1>7, <1>11, <1>12, UdpConnWillBe DEF UdpBetween
<1>14. uwk'[w].i \in {i, None} /\ uwk'[w].pc # "map"
  BY <1>3 DEF UdpWill
<1> QED BY <1>2, <1>3, <1>5, <1>6, <1>8, <1>10, <1>13, <1>14, UdpStep

(* The locks it has.                                                       *)
LEMMA UdpHas ==
  ASSUME UdpInv, NEW w \in Workers, NEW i \in Ids, uwk[w].i = i,
         uwk[w].pc \notin {"idle", "recv", "accept"}
  PROVE  /\ UdpTypes /\ UdpWorker(w) /\ UdpConn(i) /\ uobj[i] \in UdpObj
         /\ uobj[i].lcIo \in U!LockState /\ uobj[i].lcSend \in U!LockState
         /\ ubudget \in [U!Events -> Nat] /\ uwk[w] \in UdpWk
         /\ WritesIo(uwk[w]) <=> uobj[i].lcIo.wr = w
         /\ uobj[i].lcSend.wr = None /\ (uobj[i].lcIo.wr # None => uobj[i].lcIo.rd = {})
         /\ uobj[i].valid => i \in uids
         /\ i # None /\ w # None
<1>1. UdpTypes /\ UdpWorker(w) /\ UdpConn(i) /\ uobj[i] \in UdpObj /\ ubudget \in [U!Events -> Nat]
  BY UdpAt
<1>2. uwk[w] \in UdpWk /\ uobj[i].lcIo \in U!LockState /\ uobj[i].lcSend \in U!LockState
  BY <1>1, UdpFields DEF UdpTypes
<1>3. WritesIo(uwk[w]) <=> uobj[i].lcIo.wr = w
  BY <1>1 DEF UdpWorker, UdpConn
<1> QED BY <1>1, <1>2, <1>3, UdpAssumption DEF UdpConn

(* HandleCmdReceive().                                                     *)
LEMMA UdpLockIoInv ==
  ASSUME UdpInv, NEW w \in Workers, NEW i \in Ids, uwk[w].i = i, U!LockIo(w)
  PROVE  UdpInv'
<1>1. /\ uwk[w].pc = "lock_io" /\ ~WritesIo(uwk[w]) /\ uobj[i].lcIo.wr = None
      /\ UNCHANGED <<inbox, uids, addrMap, accepting, notes, ubudget>>
  BY DEF U!LockIo, U!At, WritesIo, U!CanRead
<1>2. /\ UdpTypes /\ UdpWorker(w) /\ UdpConn(i) /\ uobj[i] \in UdpObj /\ uwk[w] \in UdpWk
      /\ uobj[i].lcIo \in U!LockState /\ uobj[i].lcSend.wr = None
      /\ inbox \in Seq(U!Datagram) /\ ubudget \in [U!Events -> Nat] /\ w # None
  BY <1>1, UdpHas, UdpAt
<1>3. CASE uobj' = uobj /\ uwk' = [uwk EXCEPT ![w] = U!Idle]
  BY <1>1, <1>2, <1>3, UdpRests, UdpEasyMove DEF UdpEasy
<1>4. CASE /\ uobj[i].valid
           /\ uobj' = [uobj EXCEPT ![i].lcIo.rd = @ \cup {w}, ![i].fails = 0]
           /\ uwk' = [uwk EXCEPT ![w].pc = "pop", ![w].n = MaxReads]
  <2> DEFINE l == [uobj[i].lcIo EXCEPT !.rd = @ \cup {w}]
             o == [[uobj[i] EXCEPT !.lcIo = l] EXCEPT !.fails = 0]
             k == [[uwk[w] EXCEPT !.pc = "pop"] EXCEPT !.n = MaxReads]
  <2>1. l \in U!LockState /\ l.wr = uobj[i].lcIo.wr /\ l.rd = uobj[i].lcIo.rd \cup {w}
    BY <1>2, UdpRead
  <2>2. uobj' = [uobj EXCEPT ![i] = o]
    BY <1>4
  <2> HIDE DEF l
  <2>3. 0 \in 0 .. UdpAttempts /\ MaxReads \in 0 .. MaxReads
    BY UdpAssumption, OutAssumption
  <2>4. /\ o \in UdpObj /\ o.addr = uobj[i].addr /\ o.valid = uobj[i].valid /\ o.lcIo = l
        /\ o.lcSend = uobj[i].lcSend
    BY <1>2, <2>1, <2>3 DEF UdpObj
  <2>5. uwk' = [uwk EXCEPT ![w] = k]
    BY <1>4
  <2>6. k \in UdpWk /\ k.pc = "pop" /\ k.i = i
    BY <1>2, <2>3 DEF UdpWk, UdpPc
  <2> HIDE DEF o, k
  <2>7. Accepted(i)
    BY <1>1, <1>2, <1>4 DEF UdpConn
  <2>8. UdpBetween(w, i, o)
    BY <1>1, <1>2, <2>1, <2>4 DEF UdpBetween
  <2>9. UdpWill(w, i, o, k, uids')
    BY <1>1, <1>2, <1>4, <2>1, <2>4, <2>6, <2>7 DEF UdpWill, WritesIo, ReadsIo, ReadsSend, Closes
  <2>10. k.pc \notin Closes
    BY <2>6 DEF Closes
  <2> QED BY <1>1, <1>2, <2>2, <2>4, <2>5, <2>6, <2>7, <2>8, <2>9, <2>10, UdpTurns, UdpActs
<1> QED BY <1>3, <1>4 DEF U!LockIo

LEMMA UdpPopInv ==
  ASSUME UdpInv, NEW w \in Workers, NEW i \in Ids, uwk[w].i = i, U!Pop(w)
  PROVE  UdpInv'
<1>1. /\ uwk[w].pc = "pop" /\ ~WritesIo(uwk[w])
      /\ UNCHANGED <<inbox, uids, addrMap, accepting, ubudget>>
  BY DEF U!Pop, U!At, WritesIo
<1>2. /\ UdpTypes /\ UdpWorker(w) /\ UdpConn(i) /\ uobj[i] \in UdpObj /\ uwk[w] \in UdpWk
      /\ uobj[i].lcIo \in U!LockState /\ uobj[i].lcSend.wr = None /\ uobj[i].lcIo.wr # w
      /\ uobj[i].lcIo.wr # None => uobj[i].lcIo.rd = {}
      /\ ubudget \in [U!Events -> Nat] /\ w # None
  BY <1>1, UdpHas
<1>3. Accepted(i) /\ w \in uobj[i].lcIo.rd /\ uobj[i].valid
  BY <1>1, <1>2 DEF UdpWorker, ReadsIo
<1>4. CASE /\ uwk[w].n > 0 /\ uobj[i].recvQueue > 0
           /\ uobj' = [uobj EXCEPT ![i].recvQueue = @ - 1]
           /\ uwk' = [uwk EXCEPT ![w].pc = "on_receive", ![w].n = @ - 1]
           /\ U!Fire(i, "receive")
  <2> DEFINE o == [uobj[i] EXCEPT !.recvQueue = @ - 1]
             k == [[uwk[w] EXCEPT !.pc = "on_receive"] EXCEPT !.n = @ - 1]
  <2>1. uobj' = [uobj EXCEPT ![i] = o] /\ uwk' = [uwk EXCEPT ![w] = k]
    BY <1>4
  <2>2. uobj[i].recvQueue - 1 \in Nat /\ uwk[w].n - 1 \in 0 .. MaxReads
    BY <1>2, <1>4, OutAssumption DEF UdpObj, UdpWk
  <2>3. /\ o \in UdpObj /\ o.addr = uobj[i].addr /\ o.valid = uobj[i].valid
        /\ o.lcIo = uobj[i].lcIo /\ o.lcSend = uobj[i].lcSend
    BY <1>2, <2>2 DEF UdpObj
  <2>4. k \in UdpWk /\ k.pc = "on_receive" /\ k.i = i
    BY <1>2, <2>2 DEF UdpWk, UdpPc
  <2> HIDE DEF o, k
  <2>5. UdpBetween(w, i, o)
    BY <1>2, <2>3 DEF UdpBetween
  <2>6. UdpWill(w, i, o, k, uids')
    BY <1>2, <1>3, <2>3, <2>4 DEF UdpWill, WritesIo, ReadsIo, ReadsSend, Closes
  <2>7. k.pc \notin Closes /\ "receive" \in UdpNotes /\ "receive" # "none"
    BY <2>4 DEF Closes, UdpNotes
  <2> QED BY <1>1, <1>2, <1>3, <1>4, <2>1, <2>3, <2>4, <2>5, <2>6, <2>7, UdpTurns, UdpActs, ZenonT(60)
<1>5. CASE /\ uobj' = [uobj EXCEPT ![i].lcIo.rd = @ \ {w}]
           /\ U!Goto(w, "more") /\ notes' = notes
  <2> DEFINE l == [uobj[i].lcIo EXCEPT !.rd = @ \ {w}]
             o == [uobj[i] EXCEPT !.lcIo = l]
  <2>1. l \in U!LockState /\ l.wr = uobj[i].lcIo.wr /\ l.rd = uobj[i].lcIo.rd \ {w}
    BY <1>2, UdpRead
  <2>2. uobj' = [uobj EXCEPT ![i] = o]
    BY <1>5
  <2> HIDE DEF l
  <2>3. /\ o \in UdpObj /\ o.addr = uobj[i].addr /\ o.valid = uobj[i].valid /\ o.lcIo = l
        /\ o.lcSend = uobj[i].lcSend
    BY <1>2, <2>1 DEF UdpObj
  <2> HIDE DEF o
  <2>4. /\ uwk' \in [Workers -> UdpWk] /\ \A v \in Workers : v # w => uwk'[v] = uwk[v]
        /\ uwk'[w] \in UdpWk /\ uwk'[w].pc = "more" /\ uwk'[w].i = i
    BY <1>2, <1>5, UdpGoes DEF UdpPc
  <2>5. UdpBetween(w, i, o)
    BY <1>2, <2>1, <2>3 DEF UdpBetween
  <2>6. UdpWill(w, i, o, uwk'[w], uids')
    BY <1>2, <2>1, <2>3, <2>4 DEF UdpWill, WritesIo, ReadsIo, ReadsSend, Closes
  <2>7. uwk'[w].pc \notin Closes
    BY <2>4 DEF Closes
  <2> QED BY <1>1, <1>2, <1>3, <1>5, <2>2, <2>3, <2>4, <2>5, <2>6, <2>7, UdpActs
<1> QED BY <1>4, <1>5 DEF U!Pop

LEMMA UdpOnReceiveInv ==
  ASSUME UdpInv, NEW w \in Workers, NEW i \in Ids, uwk[w].i = i, U!OnReceive(w)
  PROVE  UdpInv'
<1>1. /\ uwk[w].pc = "on_receive" /\ ~WritesIo(uwk[w])
      /\ UNCHANGED <<inbox, uids, addrMap, accepting, notes, ubudget>>
  BY DEF U!OnReceive, U!At, WritesIo
<1>2. /\ UdpTypes /\ UdpWorker(w) /\ UdpConn(i) /\ uobj[i] \in UdpObj /\ uwk[w] \in UdpWk
      /\ uobj[i].lcIo \in U!LockState /\ uobj[i].lcSend.wr = None /\ uobj[i].lcIo.wr # w
      /\ uobj[i].lcIo.wr # None => uobj[i].lcIo.rd = {}
      /\ inbox \in Seq(U!Datagram) /\ ubudget \in [U!Events -> Nat] /\ w # None
  BY <1>1, UdpHas, UdpAt
<1>3. Accepted(i) /\ w \in uobj[i].lcIo.rd /\ uobj[i].valid
  BY <1>1, <1>2 DEF UdpWorker, ReadsIo
<1>4. CASE U!Goto(w, "pop") /\ uobj' = uobj
  <2>1. /\ uwk' \in [Workers -> UdpWk] /\ \A v \in Workers : v # w => uwk'[v] = uwk[v]
        /\ uwk'[w].pc = "pop" /\ uwk'[w].i = uwk[w].i
    BY <1>2, <1>4, UdpGoes DEF UdpPc
  <2>2. UdpWorker(w)' /\ uwk'[w].pc \notin Closes
    BY <1>1, <1>2, <1>4, <2>1 DEF UdpWorker, WritesIo, ReadsIo, ReadsSend, Closes, Accepted
  <2> QED BY <1>1, <1>2, <1>4, <2>1, <2>2, UdpMoves
<1>5. CASE /\ uobj' = [uobj EXCEPT ![i].lcIo.rd = @ \ {w}]
           /\ U!AddFree(w, "error", "idle")
  <2> DEFINE l == [uobj[i].lcIo EXCEPT !.rd = @ \ {w}]
             o == [uobj[i] EXCEPT !.lcIo = l]
  <2>1. l \in U!LockState /\ l.wr = uobj[i].lcIo.wr /\ l.rd = uobj[i].lcIo.rd \ {w}
    BY <1>2, UdpRead
  <2>2. uobj' = [uobj EXCEPT ![i] = o]
    BY <1>5
  <2> HIDE DEF l
  <2>3. /\ o \in UdpObj /\ o.addr = uobj[i].addr /\ o.valid = uobj[i].valid /\ o.lcIo = l
        /\ o.lcSend = uobj[i].lcSend
    BY <1>2, <2>1 DEF UdpObj
  <2> HIDE DEF o
  <2>4. /\ uwk' \in [Workers -> UdpWk] /\ \A v \in Workers : v # w => uwk'[v] = uwk[v]
        /\ uwk'[w] \in UdpWk /\ uwk'[w].pc = "invalid" /\ uwk'[w].i = i
        /\ uwk'[w].flag = "error" /\ uwk'[w].back = "idle"
    BY <1>2, <1>5, UdpFrees
  <2>5. UdpBetween(w, i, o)
    BY <1>2, <2>1, <2>3 DEF UdpBetween
  <2>6. UdpWill(w, i, o, uwk'[w], uids')
    BY <1>2, <2>1, <2>3, <2>4 DEF UdpWill, WritesIo, ReadsIo, ReadsSend, Closes
  <2>7. uwk'[w].pc \notin Closes
    BY <2>4 DEF Closes
  <2> QED BY <1>1, <1>2, <1>3, <2>2, <2>3, <2>4, <2>5, <2>6, <2>7, UdpActs
<1> QED BY <1>4, <1>5 DEF U!OnReceive

(* HandleCmdSend().                                                        *)
LEMMA UdpLockSendInv ==
  ASSUME UdpInv, NEW w \in Workers, NEW i \in Ids, uwk[w].i = i, U!LockSend(w)
  PROVE  UdpInv'
<1>1. /\ uwk[w].pc = "lock_send" /\ ~WritesIo(uwk[w])
      /\ UNCHANGED <<inbox, uids, addrMap, accepting, notes, ubudget>>
  BY DEF U!LockSend, U!At, WritesIo
<1>2. /\ UdpTypes /\ UdpWorker(w) /\ UdpConn(i) /\ uobj[i] \in UdpObj /\ uwk[w] \in UdpWk
      /\ uobj[i].lcSend \in U!LockState /\ uobj[i].lcSend.wr = None /\ uobj[i].lcIo.wr # w
      /\ uobj[i].lcIo.wr # None => uobj[i].lcIo.rd = {}
      /\ inbox \in Seq(U!Datagram) /\ ubudget \in [U!Events -> Nat] /\ w # None
  BY <1>1, UdpHas, UdpAt
<1>3. CASE uobj' = uobj /\ uwk' = [uwk EXCEPT ![w] = U!Idle]
  BY <1>1, <1>2, <1>3, UdpRests, UdpEasyMove DEF UdpEasy
<1>4. CASE /\ uobj[i].valid /\ U!Goto(w, "sendto")
           /\ uobj' = [uobj EXCEPT ![i].lcSend.rd = @ \cup {w}]
  <2> DEFINE l == [uobj[i].lcSend EXCEPT !.rd = @ \cup {w}]
             o == [uobj[i] EXCEPT !.lcSend = l]
  <2>1. l \in U!LockState /\ l.wr = uobj[i].lcSend.wr /\ l.rd = uobj[i].lcSend.rd \cup {w}
    BY <1>2, UdpRead
  <2>2. uobj' = [uobj EXCEPT ![i] = o]
    BY <1>4
  <2> HIDE DEF l
  <2>3. /\ o \in UdpObj /\ o.addr = uobj[i].addr /\ o.valid = uobj[i].valid /\ o.lcSend = l
        /\ o.lcIo = uobj[i].lcIo
    BY <1>2, <2>1 DEF UdpObj
  <2> HIDE DEF o
  <2>4. /\ uwk' \in [Workers -> UdpWk] /\ \A v \in Workers : v # w => uwk'[v] = uwk[v]
        /\ uwk'[w] \in UdpWk /\ uwk'[w].pc = "sendto" /\ uwk'[w].i = i
    BY <1>2, <1>4, UdpGoes DEF UdpPc
  <2>5. UdpBetween(w, i, o)
    BY <1>2, <2>1, <2>3 DEF UdpBetween
  <2>6. UdpWill(w, i, o, uwk'[w], uids')
    BY <1>2, <1>4, <2>1, <2>3, <2>4 DEF UdpWill, WritesIo, ReadsIo, ReadsSend, Closes
  <2>7. uwk'[w].pc \notin Closes
    BY <2>4 DEF Closes
  <2>8. o.valid /\ o.lcIo.wr = None => Accepted(i)
    BY <1>2, <2>3 DEF UdpConn
  <2> QED BY <1>1, <1>2, <2>2, <2>3, <2>4, <2>5, <2>6, <2>7, <2>8, UdpActs
<1> QED BY <1>3, <1>4 DEF U!LockSend

LEMMA UdpSendToInv ==
  ASSUME UdpInv, NEW w \in Workers, NEW i \in Ids, uwk[w].i = i, U!SendTo(w)
  PROVE  UdpInv'
<1> DEFINE l == [uobj[i].lcSend EXCEPT !.rd = @ \ {w}]
           open == [uobj[i] EXCEPT !.lcSend = l]
           less == [uobj[i] EXCEPT !.sndBuff = @ - 1]
           both == [[uobj[i] EXCEPT !.lcSend = l] EXCEPT !.sndBuff = @ - 1]
<1>1. /\ uwk[w].pc = "sendto" /\ ~WritesIo(uwk[w])
      /\ UNCHANGED <<inbox, uids, addrMap, accepting>>
  BY DEF U!SendTo, U!At, WritesIo
<1>2. /\ UdpTypes /\ UdpWorker(w) /\ UdpConn(i) /\ uobj[i] \in UdpObj /\ uwk[w] \in UdpWk
      /\ uobj[i].lcSend \in U!LockState /\ uobj[i].lcSend.wr = None /\ uobj[i].lcIo.wr # w
      /\ uobj[i].lcIo.wr # None => uobj[i].lcIo.rd = {}
      /\ ubudget \in [U!Events -> Nat] /\ i # None /\ w # None
  BY <1>1, UdpHas
<1>3. w \in uobj[i].lcSend.rd /\ uobj[i].valid
  BY <1>1, <1>2 DEF UdpWorker, ReadsSend
<1>4. ubudget' \in [U!Events -> Nat]
  <2>1. "block" \in U!Events /\ "fail" \in U!Events
    BY DEF U!Events
  <2> QED BY <1>2, <2>1, UdpSpends DEF U!SendTo
<1>5. l \in U!LockState /\ l.wr = None /\ l.rd = uobj[i].lcSend.rd \ {w}
  BY <1>2, UdpRead
<1>6. uobj[i].valid /\ uobj[i].lcIo.wr = None => Accepted(i)
  BY <1>2 DEF UdpConn
<1> HIDE DEF l
<1>7. ASSUME NEW o \in UdpObj, uobj' = [uobj EXCEPT ![i] = o], o.addr = uobj[i].addr,
             o.valid = uobj[i].valid, o.lcIo = uobj[i].lcIo,
             o.lcSend = uobj[i].lcSend \/ o.lcSend = l,
             uwk' \in [Workers -> UdpWk], \A v \in Workers : v # w => uwk'[v] = uwk[v],
             \/ uwk'[w].pc = "send_more" /\ uwk'[w].i = i
             \/ uwk'[w].pc = "idle" /\ uwk'[w].i = None
             \/ uwk'[w].pc = "on_send" /\ uwk'[w].i = i /\ o.lcSend = uobj[i].lcSend
             \/ /\ uwk'[w].pc = "invalid" /\ uwk'[w].i = i
                /\ uwk'[w].flag # "none" /\ uwk'[w].back # "refused",
             notes' = notes \/ U!Fire(i, "send")
      PROVE  UdpInv'
  <2>1. UdpBetween(w, i, o)
    BY <1>2, <1>5, <1>7 DEF UdpBetween
  <2>2. UdpWill(w, i, o, uwk'[w], uids')
    BY <1>2, <1>3, <1>7 DEF UdpWill, WritesIo, ReadsIo, ReadsSend, Closes
  <2>3. uwk'[w].pc \notin Closes /\ uwk'[w] \in UdpWk
    BY <1>7 DEF Closes
  <2>4. CASE notes' = notes
    BY <1>1, <1>3, <1>4, <1>6, <1>7, <2>1, <2>2, <2>3, <2>4, UdpActs
  <2>5. CASE U!Fire(i, "send")
    <3>1. "send" \in UdpNotes /\ "send" # "none" /\ "send" # "close" /\ "send" # "receive"
      BY DEF UdpNotes
    <3> QED BY <1>1, <1>3, <1>4, <1>6, <1>7, <2>1, <2>2, <2>3, <2>5, <3>1, UdpActs
  <2> QED BY <1>7, <2>4, <2>5
<1>8. /\ open \in UdpObj /\ open.addr = uobj[i].addr /\ open.valid = uobj[i].valid
      /\ open.lcIo = uobj[i].lcIo /\ open.lcSend = l
  BY <1>2, <1>5 DEF UdpObj
<1>9. ASSUME uobj[i].sndBuff > 0
      PROVE  /\ less \in UdpObj /\ less.addr = uobj[i].addr /\ less.valid = uobj[i].valid
             /\ less.lcIo = uobj[i].lcIo /\ less.lcSend = uobj[i].lcSend
             /\ both \in UdpObj /\ both.addr = uobj[i].addr /\ both.valid = uobj[i].valid
             /\ both.lcIo = uobj[i].lcIo /\ both.lcSend = l
  <2>1. uobj[i].sndBuff - 1 \in Nat
    BY <1>2, <1>9 DEF UdpObj
  <2> QED BY <1>2, <1>5, <2>1 DEF UdpObj
<1>10. CASE uobj' = [uobj EXCEPT ![i] = open] /\ U!Goto(w, "send_more") /\ notes' = notes
  <2>1. /\ uwk' \in [Workers -> UdpWk] /\ \A v \in Workers : v # w => uwk'[v] = uwk[v]
        /\ uwk'[w].pc = "send_more" /\ uwk'[w].i = i
    BY <1>2, <1>10, UdpGoes DEF UdpPc
  <2> HIDE DEF open
  <2> QED BY <1>7, <1>8, <1>10, <2>1
<1>11. CASE /\ uobj[i].sndBuff > 0 /\ uobj' = [uobj EXCEPT ![i] = less]
            /\ U!Goto(w, "on_send") /\ U!Fire(i, "send")
  <2>1. /\ uwk' \in [Workers -> UdpWk] /\ \A v \in Workers : v # w => uwk'[v] = uwk[v]
        /\ uwk'[w].pc = "on_send" /\ uwk'[w].i = i
    BY <1>2, <1>11, UdpGoes DEF UdpPc
  <2> HIDE DEF less, both
  <2> QED BY <1>7, <1>9, <1>11, <2>1
<1>12. CASE /\ uwk' = [uwk EXCEPT ![w] = U!Idle] /\ notes' = notes
            /\ \/ uobj' = [uobj EXCEPT ![i] = open]
               \/ uobj[i].sndBuff > 0 /\ uobj' = [uobj EXCEPT ![i] = both]
  <2>1. /\ uwk' \in [Workers -> UdpWk] /\ \A v \in Workers : v # w => uwk'[v] = uwk[v]
        /\ uwk'[w].pc = "idle" /\ uwk'[w].i = None
    BY <1>2, <1>12, UdpRests
  <2> HIDE DEF less, both, open
  <2> QED BY <1>7, <1>8, <1>9, <1>12, <2>1
<1>13. CASE /\ uobj[i].sndBuff > 0 /\ uobj' = [uobj EXCEPT ![i] = less]
            /\ U!AddFree(w, "error", "never") /\ notes' = notes
  <2>1. /\ uwk' \in [Workers -> UdpWk] /\ \A v \in Workers : v # w => uwk'[v] = uwk[v]
        /\ uwk'[w].pc = "invalid" /\ uwk'[w].i = i /\ uwk'[w].flag = "error"
        /\ uwk'[w].back = "never"
    BY <1>2, <1>13, UdpFrees
  <2> HIDE DEF less, both
  <2> QED BY <1>7, <1>9, <1>13, <2>1
<1>14. /\ [uobj EXCEPT ![i].lcSend.rd = @ \ {w}] = [uobj EXCEPT ![i] = open]
       /\ [uobj EXCEPT ![i].sndBuff = @ - 1] = [uobj EXCEPT ![i] = less]
       /\ [[uobj EXCEPT ![i].lcSend.rd = @ \ {w}] EXCEPT ![i].sndBuff = @ - 1]
            = [uobj EXCEPT ![i] = both]
  <2>1. [uobj EXCEPT ![i].lcSend.rd = @ \ {w}] = [uobj EXCEPT ![i] = open]
    BY DEF l
  <2>2. [[uobj EXCEPT ![i] = open] EXCEPT ![i].sndBuff = @ - 1] = [uobj EXCEPT ![i] = both]
    BY <1>2, ZenonT(60) DEF UdpTypes
  <2> QED BY <2>1, <2>2
<1> QED BY <1>10, <1>11, <1>12, <1>13, <1>14 DEF U!SendTo

(* AddFreeSocketObj().                                                     *)
LEMMA UdpWantIoInv ==
  ASSUME UdpInv, NEW w \in Workers, NEW i \in Ids, uwk[w].i = i, U!WantIo(w)
  PROVE  UdpInv'
<1> DEFINE l == [[uobj[i].lcIo EXCEPT !.waits = @ \ {w}] EXCEPT !.wr = w]
           s == [uobj[i].lcSend EXCEPT !.waits = @ \cup {w}]
           o == [[uobj[i] EXCEPT !.lcSend = s] EXCEPT !.lcIo = l]
<1>1. /\ uwk[w].pc = "want_io" /\ U!Goto(w, "want_send")
      /\ uobj[i].lcIo.wr = w \/ (uobj[i].lcIo.wr = None /\ uobj[i].lcIo.rd = {})
      /\ UNCHANGED <<inbox, uids, addrMap, accepting, notes, ubudget>>
  BY DEF U!WantIo, U!At, U!CanWrite
<1>2. /\ UdpTypes /\ UdpWorker(w) /\ UdpConn(i) /\ uobj[i] \in UdpObj /\ uwk[w] \in UdpWk
      /\ uobj[i].lcIo \in U!LockState /\ uobj[i].lcSend \in U!LockState
      /\ uobj[i].lcSend.wr = None /\ (WritesIo(uwk[w]) <=> uobj[i].lcIo.wr = w)
      /\ uobj[i].lcIo.wr # None => uobj[i].lcIo.rd = {}
      /\ ubudget \in [U!Events -> Nat] /\ i # None /\ w # None
  BY <1>1, UdpHas
<1>3. l \in U!LockState /\ l.wr = w /\ l.rd = {}
  BY <1>1, <1>2 DEF U!LockState
<1>4. s \in U!LockState /\ s.wr = None /\ s.rd = uobj[i].lcSend.rd
  BY <1>2 DEF U!LockState
<1>5. uobj' = [uobj EXCEPT ![i] = o]
  <2>1. uobj' = [uobj EXCEPT ![i].lcSend.waits = @ \cup {w}, ![i].lcIo = l]
    BY DEF U!WantIo
  <2>2. [[uobj EXCEPT ![i].lcSend.waits = @ \cup {w}] EXCEPT ![i].lcIo = l]
          = [[uobj EXCEPT ![i].lcSend = s] EXCEPT ![i].lcIo = l]
    OBVIOUS
  <2> HIDE DEF l, s
  <2>3. [[uobj EXCEPT ![i].lcSend = s] EXCEPT ![i].lcIo = l] = [uobj EXCEPT ![i] = o]
    BY <1>2 DEF UdpTypes
  <2> QED BY <2>1, <2>2, <2>3
<1> HIDE DEF l, s
<1>6. /\ o \in UdpObj /\ o.addr = uobj[i].addr /\ o.valid = uobj[i].valid
      /\ o.lcIo = l /\ o.lcSend = s
  BY <1>2, <1>3, <1>4 DEF UdpObj
<1> HIDE DEF o
<1>7. /\ uwk' \in [Workers -> UdpWk] /\ \A v \in Workers : v # w => uwk'[v] = uwk[v]
      /\ uwk'[w] \in UdpWk /\ uwk'[w].pc = "want_send" /\ uwk'[w].i = i
      /\ uwk'[w].flag = uwk[w].flag /\ uwk'[w].back = uwk[w].back
  BY <1>1, <1>2, UdpGoes DEF UdpPc
<1>8. UdpBetween(w, i, o)
  <2>1. \A v \in Workers : v # w => uobj[i].lcIo.wr # v /\ v # None
    BY <1>1, UdpAssumption
  <2> QED BY <1>1, <1>2, <1>3, <1>4, <1>6, <2>1 DEF UdpBetween
<1>9. uwk[w].flag = "none" <=> uwk[w].back = "refused"
  BY <1>1, <1>2 DEF UdpWorker
<1>10. uwk[w].back # "refused" /\ uobj[i].valid => Accepted(i)
  <2>1. uwk[w].back # "refused" => ~WritesIo(uwk[w])
    BY <1>1 DEF WritesIo
  <2> QED BY <1>1, <1>2, <2>1 DEF UdpConn
<1>11. UdpWill(w, i, o, uwk'[w], uids')
  BY <1>3, <1>4, <1>6, <1>7, <1>9, <1>10 DEF UdpWill, WritesIo, ReadsIo, ReadsSend, Closes
<1>12. uwk'[w].pc \notin Closes
  BY <1>7 DEF Closes
<1> QED BY <1>1, <1>2, <1>3, <1>5, <1>6, <1>7, <1>8, <1>11, <1>12, UdpActs

LEMMA UdpWantSendInv ==
  ASSUME UdpInv, NEW w \in Workers, NEW i \in Ids, uwk[w].i = i, U!WantSend(w)
  PROVE  UdpInv'
<1> DEFINE writer == IF uwk[w].back = "refused" THEN w ELSE None
           l == [uobj[i].lcIo EXCEPT !.wr = writer]
           s == [uobj[i].lcSend EXCEPT !.waits = @ \ {w}]
           o == [[[uobj[i] EXCEPT !.lcSend = s] EXCEPT !.lcIo = l] EXCEPT !.valid = FALSE]
<1>1. /\ uwk[w].pc = "want_send" /\ U!CanWrite(uobj[i].lcSend, w) /\ WritesIo(uwk[w])
      /\ UNCHANGED <<inbox, uids, addrMap, accepting, ubudget>>
  BY DEF U!WantSend, U!At, WritesIo
<1>2. /\ UdpTypes /\ UdpWorker(w) /\ UdpConn(i) /\ uobj[i] \in UdpObj /\ uwk[w] \in UdpWk
      /\ uobj[i].lcIo \in U!LockState /\ uobj[i].lcSend \in U!LockState
      /\ uobj[i].lcSend.wr = None /\ uobj[i].lcIo.wr = w
      /\ uobj[i].lcIo.wr # None => uobj[i].lcIo.rd = {}
      /\ uobj[i].valid => i \in uids
      /\ ubudget \in [U!Events -> Nat] /\ i # None /\ w # None
  BY <1>1, UdpHas
<1>3. uobj[i].lcSend.rd = {} /\ uobj[i].lcIo.rd = {}
  BY <1>1, <1>2 DEF U!CanWrite
<1>4. l \in U!LockState /\ l.wr = writer /\ l.rd = {}
  BY <1>2, <1>3 DEF U!LockState
<1>5. s \in U!LockState /\ s.wr = None /\ s.rd = {}
  BY <1>2, <1>3 DEF U!LockState
<1>6. uobj' = [uobj EXCEPT ![i] = o]
  <2>1. uobj' = [uobj EXCEPT ![i].lcSend.waits = @ \ {w}, ![i].lcIo.wr = writer,
                             ![i].valid = FALSE]
    BY DEF U!WantSend
  <2>2. [uobj EXCEPT ![i].lcSend.waits = @ \ {w}] = [uobj EXCEPT ![i].lcSend = s]
    OBVIOUS
  <2>3. [[uobj EXCEPT ![i].lcSend = s] EXCEPT ![i].lcIo.wr = writer]
          = [[uobj EXCEPT ![i].lcSend = s] EXCEPT ![i].lcIo = l]
    BY <1>2 DEF UdpTypes, UdpObj
  <2>4. uobj' = [[[uobj EXCEPT ![i].lcSend.waits = @ \ {w}] EXCEPT ![i].lcIo.wr = writer]
                   EXCEPT ![i].valid = FALSE]
    BY <2>1
  <2> HIDE DEF l, s
  <2>5. [[[uobj EXCEPT ![i].lcSend = s] EXCEPT ![i].lcIo = l] EXCEPT ![i].valid = FALSE]
          = [uobj EXCEPT ![i] = o]
    BY <1>2 DEF UdpTypes
  <2> QED BY <2>2, <2>3, <2>4, <2>5
<1> HIDE DEF l, s
<1>7. /\ o \in UdpObj /\ o.addr = uobj[i].addr /\ o.valid = FALSE
      /\ o.lcIo = l /\ o.lcSend = s
  BY <1>2, <1>4, <1>5 DEF UdpObj
<1> HIDE DEF o
<1>8. UdpBetween(w, i, o)
  <2>1. \A v \in Workers : v # w => writer # v /\ uobj[i].lcIo.wr # v
    BY <1>2, UdpAssumption
  <2> QED BY <1>2, <1>3, <1>4, <1>5, <1>7, <2>1 DEF UdpBetween
<1>9. /\ uwk[w].flag = "none" <=> uwk[w].back = "refused"
      /\ uwk[w].back # "refused" /\ uobj[i].valid => Accepted(i)
      /\ uwk[w].back \in {"idle", "recv", "refused", "never"}
  BY <1>1, <1>2 DEF UdpWorker, UdpWk
<1>10. writer = w <=> uwk[w].back = "refused"
  BY <1>2
<1> HIDE DEF writer
<1>11. CASE uobj[i].valid /\ uwk[w].flag = "none" /\ U!Goto(w, "remove") /\ notes' = notes
  <2>1. /\ uwk' \in [Workers -> UdpWk] /\ \A v \in Workers : v # w => uwk'[v] = uwk[v]
        /\ uwk'[w] \in UdpWk /\ uwk'[w].pc = "remove" /\ uwk'[w].i = i
        /\ uwk'[w].back = uwk[w].back
    BY <1>2, <1>11, UdpGoes DEF UdpPc
  <2>2. UdpWill(w, i, o, uwk'[w], uids')
    BY <1>1, <1>2, <1>4, <1>5, <1>7, <1>9, <1>10, <1>11, <2>1
       DEF UdpWill, WritesIo, ReadsIo, ReadsSend, Closes
  <2> QED BY <1>1, <1>2, <1>6, <1>7, <1>8, <1>11, <2>1, <2>2, UdpActs
<1>12. CASE uobj[i].valid /\ uwk[w].flag # "none" /\ U!Goto(w, "on_close") /\ U!Fire(i, "close")
  <2>1. /\ uwk' \in [Workers -> UdpWk] /\ \A v \in Workers : v # w => uwk'[v] = uwk[v]
        /\ uwk'[w] \in UdpWk /\ uwk'[w].pc = "on_close" /\ uwk'[w].i = i
        /\ uwk'[w].back = uwk[w].back
    BY <1>2, <1>12, UdpGoes DEF UdpPc
  <2>2. UdpWill(w, i, o, uwk'[w], uids')
    BY <1>1, <1>2, <1>4, <1>5, <1>7, <1>9, <1>10, <1>12, <2>1
       DEF UdpWill, WritesIo, ReadsIo, ReadsSend, Closes
  <2>3. Accepted(i) /\ "close" \in UdpNotes /\ "close" # "none"
    BY <1>9, <1>12 DEF UdpNotes
  <2> QED BY <1>1, <1>2, <1>6, <1>7, <1>8, <1>12, <2>1, <2>2, <2>3, UdpActs
<1>13. CASE ~uobj[i].valid /\ U!Goto(w, uwk[w].back) /\ notes' = notes
  <2>1. uwk[w].back \in UdpPc
    BY <1>9 DEF UdpPc
  <2>2. /\ uwk' \in [Workers -> UdpWk] /\ \A v \in Workers : v # w => uwk'[v] = uwk[v]
        /\ uwk'[w] \in UdpWk /\ uwk'[w].pc = uwk[w].back /\ uwk'[w].i = i
        /\ uwk'[w].back = uwk[w].back
    BY <1>2, <1>13, <2>1, UdpGoes
  <2>3. UdpWill(w, i, o, uwk'[w], uids')
    BY <1>4, <1>5, <1>7, <1>9, <1>10, <2>2 DEF UdpWill, WritesIo, ReadsIo, ReadsSend, Closes
  <2>4. uwk'[w].pc \notin Closes
    BY <1>9, <2>2 DEF Closes
  <2> QED BY <1>1, <1>2, <1>6, <1>7, <1>8, <1>13, <2>2, <2>3, <2>4, UdpActs
<1> QED BY <1>11, <1>12, <1>13 DEF U!WantSend

LEMMA UdpRemoveInv ==
  ASSUME UdpInv, NEW w \in Workers, NEW i \in Ids, uwk[w].i = i, U!Remove(w)
  PROVE  UdpInv'
<1> DEFINE o == uobj[i]
<1>1. /\ uwk[w].pc = "remove" /\ U!Goto(w, "erase") /\ uids' = uids \ {i}
      /\ UNCHANGED <<inbox, uobj, addrMap, accepting, notes, ubudget>>
  BY DEF U!Remove, U!At
<1>2. /\ UdpTypes /\ UdpWorker(w) /\ UdpConn(i) /\ o \in UdpObj
      /\ o.lcSend.wr = None /\ (WritesIo(uwk[w]) <=> o.lcIo.wr = w)
      /\ o.lcIo.wr # None => o.lcIo.rd = {}
      /\ ubudget \in [U!Events -> Nat] /\ i # None /\ w # None
  BY <1>1, UdpHas
<1>3. /\ uwk' \in [Workers -> UdpWk] /\ \A v \in Workers : v # w => uwk'[v] = uwk[v]
      /\ uwk'[w] \in UdpWk /\ uwk'[w].pc = "erase" /\ uwk'[w].i = i
      /\ uwk'[w].back = uwk[w].back
  BY <1>1, <1>2, UdpGoes DEF UdpPc
<1>4. ~o.valid /\ i \in uids
  BY <1>1, <1>2 DEF UdpWorker, Closes
<1>5. addrMap[o.addr] = i
  <2>1. \A v \in Workers : uwk[v].pc = "map" /\ uwk[v].i = i => FALSE
    BY <1>4 DEF UdpInv, UdpWorker
  <2> QED BY <1>4, <2>1 DEF UdpInv, UdpMapped
<1>6. uobj' = [uobj EXCEPT ![i] = o]
  BY <1>1, <1>2 DEF UdpTypes
<1> HIDE DEF o
<1>7. UdpBetween(w, i, o)
  BY <1>2, <1>4 DEF UdpBetween, o
<1>8. UdpWill(w, i, o, uwk'[w], uids')
  BY <1>1, <1>2, <1>3, <1>4, <1>5 DEF UdpWill, WritesIo, ReadsIo, ReadsSend, Closes
<1>9. uwk[w].pc \in Closes /\ o.addr = uobj[i].addr
  BY <1>1 DEF Closes, o
<1> QED BY <1>1, <1>2, <1>3, <1>4, <1>6, <1>7, <1>8, <1>9, UdpActs

(* OnAccept, and the end of HandleAccept().                                *)
LEMMA UdpOnAcceptInv ==
  ASSUME UdpInv, NEW w \in Workers, NEW i \in Ids, uwk[w].i = i, U!OnAccept(w) \/ U!Refused(w)
  PROVE  UdpInv'
<1> DEFINE l == [uobj[i].lcIo EXCEPT !.wr = None]
           o == [uobj[i] EXCEPT !.lcIo = l]
<1>1. /\ uwk[w].pc \in {"on_accept", "refused"} /\ WritesIo(uwk[w])
      /\ UNCHANGED <<inbox, uids, addrMap, accepting, ubudget>>
  BY DEF U!OnAccept, U!Refused, U!At, WritesIo
<1>2. /\ UdpTypes /\ UdpWorker(w) /\ UdpConn(i) /\ uobj[i] \in UdpObj
      /\ uobj[i].lcIo \in U!LockState
      /\ uobj[i].lcSend.wr = None /\ uobj[i].lcIo.wr = w /\ uobj[i].lcIo.rd = {}
      /\ ubudget \in [U!Events -> Nat] /\ i # None /\ w # None
  BY <1>1, UdpHas, SMTT(60)
<1>3. l \in U!LockState /\ l.wr = None /\ l.rd = {}
  BY <1>2 DEF U!LockState
<1>4. [uobj EXCEPT ![i].lcIo.wr = None] = [uobj EXCEPT ![i] = o]
  OBVIOUS
<1> HIDE DEF l
<1>5. /\ o \in UdpObj /\ o.addr = uobj[i].addr /\ o.valid = uobj[i].valid
      /\ o.lcIo = l /\ o.lcSend = uobj[i].lcSend
  BY <1>2, <1>3 DEF UdpObj
<1> HIDE DEF o
<1>6. UdpBetween(w, i, o)
  <2>1. \A v \in Workers : v # w => v # None /\ uobj[i].lcIo.wr # v
    BY <1>2, UdpAssumption
  <2> QED BY <1>2, <1>3, <1>5, <2>1 DEF UdpBetween
<1>7. CASE /\ uwk[w].pc = "on_accept" /\ uobj' = [uobj EXCEPT ![i] = o]
           /\ U!Goto(w, "find") /\ U!Fire(i, "accepted")
  <2>1. /\ uwk' \in [Workers -> UdpWk] /\ \A v \in Workers : v # w => uwk'[v] = uwk[v]
        /\ uwk'[w] \in UdpWk /\ uwk'[w].pc = "find" /\ uwk'[w].i = i /\ uwk'[w].d = uwk[w].d
    BY <1>2, <1>7, UdpGoes DEF UdpPc
  <2>2. uwk[w].d \in U!Datagram /\ uobj[i].valid
    BY <1>2, <1>7 DEF UdpWorker
  <2>3. UdpWill(w, i, o, uwk'[w], uids')
    BY <1>2, <1>3, <1>5, <2>1, <2>2 DEF UdpWill, WritesIo, ReadsIo, ReadsSend, Closes
  <2>4. /\ uwk'[w].pc \notin Closes
        /\ "accepted" \in UdpNotes /\ "accepted" \notin {"none", "close", "receive"}
    BY <2>1 DEF Closes, UdpNotes
  <2> QED BY <1>1, <1>2, <1>5, <1>6, <1>7, <2>1, <2>2, <2>3, <2>4, UdpActs
<1>8. CASE /\ uwk[w].pc = "on_accept" /\ uobj' = uobj
           /\ U!AddFree(w, "none", "refused") /\ U!Fire(i, "refused")
  <2>1. /\ uwk' \in [Workers -> UdpWk] /\ \A v \in Workers : v # w => uwk'[v] = uwk[v]
        /\ uwk'[w] \in UdpWk /\ uwk'[w].pc = "invalid" /\ uwk'[w].i = i
        /\ uwk'[w].flag = "none" /\ uwk'[w].back = "refused"
    BY <1>2, <1>8, UdpFrees
  <2>2. uobj[i].valid
    BY <1>2, <1>8 DEF UdpWorker
  <2> DEFINE b == uobj[i]
  <2>3. uobj' = [uobj EXCEPT ![i] = b]
    BY <1>2, <1>8 DEF UdpTypes
  <2>4. UdpBetween(w, i, b)
    BY <1>2 DEF UdpBetween
  <2>5. UdpWill(w, i, b, uwk'[w], uids')
    BY <1>2, <2>1, <2>2 DEF UdpWill, WritesIo, ReadsIo, ReadsSend, Closes
  <2>6. /\ uwk'[w].pc \notin Closes
        /\ "refused" \in UdpNotes /\ "refused" \notin {"none", "close", "receive"}
    BY <2>1 DEF Closes, UdpNotes
  <2> QED BY <1>1, <1>2, <1>8, <2>1, <2>2, <2>3, <2>4, <2>5, <2>6, UdpActs
<1>9. CASE /\ uwk[w].pc = "refused" /\ uobj' = [uobj EXCEPT ![i] = o]
           /\ U!Goto(w, "recv") /\ notes' = notes
  <2>1. /\ uwk' \in [Workers -> UdpWk] /\ \A v \in Workers : v # w => uwk'[v] = uwk[v]
        /\ uwk'[w] \in UdpWk /\ uwk'[w].pc = "recv" /\ uwk'[w].i = i
    BY <1>2, <1>9, UdpGoes DEF UdpPc
  <2>2. ~uobj[i].valid
    BY <1>2, <1>9 DEF UdpWorker
  <2>3. UdpWill(w, i, o, uwk'[w], uids')
    BY <1>2, <1>3, <1>5, <2>1, <2>2 DEF UdpWill, WritesIo, ReadsIo, ReadsSend, Closes
  <2>4. uwk'[w].pc \notin Closes
    BY <2>1 DEF Closes
  <2> QED BY <1>1, <1>2, <1>5, <1>6, <1>9, <2>1, <2>2, <2>3, <2>4, UdpActs
<1> QED BY <1>4, <1>7, <1>8, <1>9 DEF U!OnAccept, U!Refused, U!At

-----------------------------------------------------------------------------
(* The steps that touch the map of addresses.                              *)

(* A worker to whom nothing of all this happens.                           *)
LEMMA UdpBystander ==
  ASSUME NEW v \in Workers, NEW j \in Ids, uwk[v].i = j, uwk'[v] = uwk[v], UdpWorker(v),
         uwk[v].pc # "map", uobj'[j] = uobj[j], j \in uids' <=> j \in uids,
         addrMap' = addrMap, Accepted(j)' <=> Accepted(j)
  PROVE  UdpWorker(v)'
BY DEF UdpWorker

(* A new connection.                                                       *)
LEMMA UdpNewInv ==
  ASSUME UdpInv, NEW w \in Workers, uwk[w].pc = "accept", accepting = None,
         NEW a, a = uwk[w].d.addr, addrMap[a] = None,
         NEW i \in U!NewIds,
         uobj' = [uobj EXCEPT ![i] = [addr |-> a, valid |-> TRUE, recvQueue |-> 0,
           sndBuff |-> 0, fails |-> 0, lcIo |-> [U!Free EXCEPT !.wr = w], lcSend |-> U!Free]],
         uids' = uids \cup {i}, accepting' = w,
         uwk' = [uwk EXCEPT ![w].i = i, ![w].pc = "map"],
         UNCHANGED <<inbox, addrMap, notes, ubudget>>
  PROVE  UdpInv'
<1> DEFINE l == [U!Free EXCEPT !.wr = w]
           o == [addr |-> a, valid |-> TRUE, recvQueue |-> 0, sndBuff |-> 0,
                 fails |-> 0, lcIo |-> l, lcSend |-> U!Free]
           k == [[uwk[w] EXCEPT !.i = i] EXCEPT !.pc = "map"]
<1>1. /\ UdpTypes /\ UdpMapped /\ (\A v \in Workers : UdpWorker(v))
      /\ \A j \in Ids : UdpConn(j)
  BY DEF UdpInv
<1>2. i \in Ids /\ uobj[i].addr = None
  BY DEF U!NewIds
<1>3. uwk[w] \in UdpWk /\ uwk[w].d \in U!Datagram /\ a \in Addrs
  <2>1. uwk[w] \in UdpWk /\ uwk[w].d \in U!Datagram
    BY <1>1 DEF UdpTypes, UdpWorker
  <2> QED BY <2>1 DEF U!Datagram
<1>5. /\ U!Free \in U!LockState /\ U!Free.wr = None /\ U!Free.rd = {}
      /\ l \in U!LockState /\ l.wr = w /\ l.rd = {}
  BY DEF U!LockState, U!Free
<1>6. 0 \in 0 .. UdpAttempts
  BY UdpAssumption
<1> HIDE DEF l
<1>7. /\ o \in UdpObj /\ o.addr = a /\ o.valid = TRUE /\ o.lcIo = l /\ o.lcSend = U!Free
  BY <1>3, <1>5, <1>6 DEF UdpObj
<1>8. k \in UdpWk /\ k.pc = "map" /\ k.i = i /\ k.d = uwk[w].d
  BY <1>2, <1>3 DEF UdpWk, UdpPc
<1>9. uobj' = [uobj EXCEPT ![i] = o] /\ uwk' = [uwk EXCEPT ![w] = k]
  BY DEF l
<1> HIDE DEF o, k
<1>10. /\ uobj' \in [Ids -> UdpObj] /\ uobj'[i] = o /\ \A j \in Ids : j # i => uobj'[j] = uobj[j]
       /\ uwk' \in [Workers -> UdpWk] /\ uwk'[w] = k
       /\ \A v \in Workers : v # w => uwk'[v] = uwk[v]
  <2>1. uobj' \in [Ids -> UdpObj] /\ uobj'[i] = o /\ \A j \in Ids : j # i => uobj'[j] = uobj[j]
    BY <1>1, <1>2, <1>7, <1>9, UdpBecomes
  <2>2. /\ uwk' \in [Workers -> UdpWk] /\ uwk'[w] = k
        /\ \A v \in Workers : v # w => uwk'[v] = uwk[v]
    BY <1>1, <1>8, <1>9, UdpTurns
  <2> QED BY <2>1, <2>2
<1>11. UdpTypes'
  BY <1>1, <1>2, <1>10 DEF UdpTypes
<1>12. i # None /\ a # None /\ w # None /\ \A v \in Workers : v # None
  BY <1>2, <1>3, UdpAssumption
<1>13. \A v \in Workers : uwk[v].i # i /\ uwk[v].pc # "map"
  BY <1>1, <1>2, <1>12 DEF UdpWorker
<1>14. i \notin uids /\ notes[i] = <<>>
  BY <1>1, <1>2 DEF UdpConn
<1>15. \A j \in Ids : Accepted(j)' <=> Accepted(j)
  BY DEF Accepted
<1>16. ASSUME NEW v \in Workers PROVE UdpWorker(v)'
  <2>1. CASE v = w
    <3>1. /\ WritesIo(uwk[w])' /\ ~ReadsIo(uwk[w])' /\ ~ReadsSend(uwk[w])'
      BY <1>8, <1>10 DEF WritesIo, ReadsIo, ReadsSend
    <3>2. uobj'[uwk'[w].i] = o /\ uwk'[w] = k
      BY <1>8, <1>10
    <3> QED BY <1>3, <1>5, <1>7, <1>8, <1>12, <2>1, <3>1, <3>2 DEF UdpWorker, Closes
  <2>2. CASE v # w
    <3>1. uwk'[v] = uwk[v] /\ UdpWorker(v) /\ uwk[v].i \in Ids \cup {None}
      BY <1>1, <1>10, <2>2, UdpFields
    <3>2. CASE uwk[v].i = None
      BY <3>1, <3>2 DEF UdpWorker, WritesIo, ReadsIo, ReadsSend, Closes
    <3>3. CASE uwk[v].i \in Ids
      <4>1. uobj'[uwk[v].i] = uobj[uwk[v].i] /\ (uwk[v].i \in uids' <=> uwk[v].i \in uids)
        BY <1>10, <1>13, <3>3
      <4> QED BY <1>13, <1>15, <3>1, <3>3, <4>1, UdpBystander
    <3> QED BY <3>1, <3>2, <3>3
  <2> QED BY <2>1, <2>2
<1>17. ASSUME NEW j \in Ids PROVE UdpConn(j)'
  <2>1. CASE j = i
    <3>1. UdpOrder(notes'[i]) /\ UdpNoClose(notes'[i])
      BY <1>14 DEF UdpOrder, UdpNoClose
    <3>2. WritesIo(uwk'[w]) /\ uwk'[w].i = i
      BY <1>8, <1>10 DEF WritesIo
    <3> QED BY <1>5, <1>7, <1>10, <1>12, <2>1, <3>1, <3>2, UdpConnWillBe
  <2>2. CASE j # i
    <3>1. /\ uobj'[j] = uobj[j] /\ UdpConn(j) /\ (Accepted(j)' <=> Accepted(j))
          /\ j \in uids' <=> j \in uids
      BY <1>1, <1>10, <1>15, <2>2
    <3>2. \A v \in Workers : uobj[j].lcIo.wr = v => v # w
      BY <3>1 DEF UdpConn, WritesIo
    <3>3. \A v \in Workers : uobj[j].lcIo.wr = v => WritesIo(uwk'[v]) /\ uwk'[v].i = j
      BY <1>10, <3>1, <3>2 DEF UdpConn
    <3> QED BY <3>1, <3>3 DEF UdpConn
  <2> QED BY <2>1, <2>2
<1>18. UdpMapped'
  <2>1. \A v, u \in Workers : uwk'[v].pc \in Closes /\ uwk'[u].pc \in Closes /\ uwk'[v].i = uwk'[u].i
                             => v = u
    <3>1. uwk'[w].pc \notin Closes
      BY <1>8, <1>10 DEF Closes
    <3> QED BY <1>1, <1>10, <3>1 DEF UdpMapped
  <2>2. ASSUME NEW j \in uids' PROVE \/ addrMap'[uobj'[j].addr] = j
                                     \/ \E v \in Workers : uwk'[v].pc = "map" /\ uwk'[v].i = j
    <3>1. CASE j = i
      BY <1>8, <1>10, <3>1
    <3>2. CASE j # i
      <4>1. j \in uids /\ j \in Ids
        BY <1>1, <2>2, <3>2 DEF UdpTypes
      <4> QED BY <1>1, <1>10, <1>13, <3>2, <4>1 DEF UdpMapped
    <3> QED BY <3>1, <3>2
  <2>3. ASSUME NEW b \in Addrs, addrMap'[b] # None PROVE uobj'[addrMap'[b]].addr = b
    <3>1. addrMap[b] \in Ids /\ uobj[addrMap[b]].addr = b
      BY <1>1, <2>3 DEF UdpMapped, UdpTypes
    <3>2. addrMap[b] # i
      BY <1>2, <3>1, UdpAssumption
    <3> QED BY <1>10, <3>1, <3>2
  <2> QED BY <2>1, <2>2, <2>3 DEF UdpMapped
<1> QED BY <1>11, <1>16, <1>17, <1>18 DEF UdpInv

LEMMA UdpAcceptInv ==
  ASSUME UdpInv, NEW w \in Workers, U!Accept(w)
  PROVE  UdpInv'
<1> DEFINE a == uwk[w].d.addr
<1>1. /\ uwk[w].pc = "accept" /\ accepting = None /\ ~WritesIo(uwk[w])
      /\ UNCHANGED <<inbox, addrMap, notes, ubudget>>
  BY DEF U!Accept, U!At, WritesIo
<1>2. /\ UdpTypes /\ UdpMapped /\ UdpWorker(w) /\ inbox \in Seq(U!Datagram)
      /\ ubudget \in [U!Events -> Nat] /\ uwk[w] \in UdpWk
  BY DEF UdpInv, UdpTypes
<1>3. uwk[w].d \in U!Datagram /\ a \in Addrs
  <2>1. uwk[w].d \in U!Datagram
    BY <1>1, <1>2 DEF UdpWorker
  <2> QED BY <2>1 DEF U!Datagram
<1>4. CASE /\ addrMap[a] # None
           /\ uwk' = [uwk EXCEPT ![w].i = addrMap[a], ![w].pc = "find"]
           /\ UNCHANGED <<uobj, uids, accepting>>
  <2> DEFINE k == [[uwk[w] EXCEPT !.i = addrMap[a]] EXCEPT !.pc = "find"]
  <2>1. addrMap[a] \in Ids /\ uobj[addrMap[a]].addr = a /\ a # None
    BY <1>2, <1>3, <1>4, UdpAssumption DEF UdpTypes, UdpMapped
  <2>2. uwk' = [uwk EXCEPT ![w] = k]
    BY <1>4
  <2>3. k \in UdpWk /\ k.pc = "find" /\ k.i = addrMap[a] /\ k.d = uwk[w].d
    BY <1>2, <2>1 DEF UdpWk, UdpPc
  <2> HIDE DEF k
  <2>4. /\ uwk' \in [Workers -> UdpWk] /\ uwk'[w] = k
        /\ \A v \in Workers : v # w => uwk'[v] = uwk[v]
    BY <1>2, <2>2, <2>3, UdpTurns
  <2>5. UdpWorker(w)' /\ uwk'[w].pc \notin Closes
    BY <1>3, <1>4, <2>1, <2>3, <2>4 DEF UdpWorker, WritesIo, ReadsIo, ReadsSend, Closes
  <2> QED BY <1>1, <1>2, <1>4, <2>4, <2>5, UdpMoves
<1>5. CASE U!Goto(w, "recv") /\ UNCHANGED <<uobj, uids, accepting>>
  <2>1. /\ uwk' \in [Workers -> UdpWk] /\ \A v \in Workers : v # w => uwk'[v] = uwk[v]
        /\ uwk'[w].pc = "recv" /\ uwk'[w].i = uwk[w].i
    BY <1>2, <1>5, UdpGoes DEF UdpPc
  <2> QED BY <1>1, <1>2, <1>5, <2>1, UdpEasyMove DEF UdpEasy
<1>6. ASSUME addrMap[a] = None, NEW i \in U!NewIds,
             uobj' = [uobj EXCEPT ![i] = [addr |-> a, valid |-> TRUE, recvQueue |-> 0,
               sndBuff |-> 0, fails |-> 0, lcIo |-> [U!Free EXCEPT !.wr = w], lcSend |-> U!Free]],
             uids' = uids \cup {i}, accepting' = w,
             uwk' = [uwk EXCEPT ![w].i = i, ![w].pc = "map"]
      PROVE  UdpInv'
  BY <1>1, <1>6, UdpNewInv
<1> QED BY <1>4, <1>5, <1>6 DEF U!Accept

LEMMA UdpMapInv ==
  ASSUME UdpInv, NEW w \in Workers, NEW i \in Ids, uwk[w].i = i, U!MapAddress(w)
  PROVE  UdpInv'
<1> DEFINE a == uobj[i].addr
<1>1. /\ uwk[w].pc = "map" /\ U!Goto(w, "on_accept") /\ U!Fire(i, "accept")
      /\ addrMap' = [addrMap EXCEPT ![uwk[w].d.addr] = i] /\ accepting' = None
      /\ UNCHANGED <<inbox, uobj, uids, ubudget>>
  BY DEF U!MapAddress, U!At
<1>2. /\ UdpTypes /\ UdpMapped /\ (\A v \in Workers : UdpWorker(v))
      /\ \A j \in Ids : UdpConn(j)
  BY DEF UdpInv
<1>3. /\ accepting = w /\ addrMap[a] = None /\ uwk[w].d.addr = a /\ uwk[w].d \in U!Datagram
      /\ a # None /\ uobj[i].lcIo.wr = w /\ uobj[i].valid /\ w # None /\ i # None
  BY <1>1, <1>2, UdpAssumption DEF UdpWorker, WritesIo
<1>4. a \in Addrs
  BY <1>2, <1>3, UdpFields
<1>5. addrMap' \in [Addrs -> Ids \cup {None}] /\ addrMap'[a] = i
      /\ \A b \in Addrs : b # a => addrMap'[b] = addrMap[b]
  BY <1>1, <1>2, <1>3, <1>4 DEF UdpTypes
<1>6. /\ uwk' \in [Workers -> UdpWk] /\ \A v \in Workers : v # w => uwk'[v] = uwk[v]
      /\ uwk'[w].pc = "on_accept" /\ uwk'[w].i = i /\ uwk'[w].d = uwk[w].d
  BY <1>1, <1>2, UdpGoes DEF UdpPc
<1>7. UdpOrder(notes[i]) /\ UdpNoClose(notes[i])
  BY <1>2, <1>3, UdpConnIs
<1>8. /\ notes' \in [Ids -> Seq(UdpNotes)] /\ \A j \in Ids : j # i => notes'[j] = notes[j]
      /\ UdpOrder(notes'[i]) /\ UdpNoClose(notes'[i])
      /\ Accepted(i)' <=> Accepted(i)
  <2>1. "accept" \in UdpNotes /\ "accept" \notin {"close", "receive", "accepted"}
    BY DEF UdpNotes
  <2> QED BY <1>1, <1>2, <1>7, <2>1, UdpFires
<1>9. UdpTypes'
  BY <1>1, <1>2, <1>5, <1>6, <1>8 DEF UdpTypes
<1>10. \A j \in Ids : Accepted(j)' <=> Accepted(j)
  BY <1>8 DEF Accepted
<1>11. \A v \in Workers : uwk[v].pc = "map" => v = w
  BY <1>2, <1>3 DEF UdpWorker
<1>12. ASSUME NEW v \in Workers PROVE UdpWorker(v)'
  <2>1. CASE v = w
    <3>1. WritesIo(uwk[w])' /\ ~ReadsIo(uwk[w])' /\ ~ReadsSend(uwk[w])'
      BY <1>6 DEF WritesIo, ReadsIo, ReadsSend
    <3>2. uobj'[uwk'[w].i] = uobj[i]
      BY <1>1, <1>6
    <3> QED BY <1>3, <1>6, <2>1, <3>1, <3>2 DEF UdpWorker, Closes
  <2>2. CASE v # w
    <3>1. uwk'[v] = uwk[v] /\ UdpWorker(v) /\ uwk[v].i \in Ids \cup {None} /\ uwk[v].pc # "map"
      BY <1>2, <1>6, <1>11, <2>2, UdpFields
    <3>2. CASE uwk[v].i = None
      BY <3>1, <3>2 DEF UdpWorker, WritesIo, ReadsIo, ReadsSend, Closes
    <3>3. CASE uwk[v].i \in Ids
      <4>1. uwk[v].pc = "erase" => addrMap'[uobj[uwk[v].i].addr] = uwk[v].i
        <5>1. uwk[v].pc = "erase" => addrMap[uobj[uwk[v].i].addr] = uwk[v].i
                                     /\ uobj[uwk[v].i].addr # None
          BY <3>1 DEF UdpWorker
        <5>2. uobj[uwk[v].i].addr \in Addrs \cup {None} /\ uwk[v].i # None
          BY <1>2, <3>3, UdpFields, UdpAssumption
        <5> QED BY <1>3, <1>5, <5>1, <5>2
      <4> QED BY <1>1, <1>10, <3>1, <3>3, <4>1 DEF UdpWorker
    <3> QED BY <3>1, <3>2, <3>3
  <2> QED BY <2>1, <2>2
<1>13. ASSUME NEW j \in Ids PROVE UdpConn(j)'
  <2>1. \A v \in Workers : uobj[j].lcIo.wr = v => WritesIo(uwk'[v]) /\ uwk'[v].i = j
    <3>1. WritesIo(uwk'[w])
      BY <1>6 DEF WritesIo
    <3>2. \A v \in Workers : uobj[j].lcIo.wr = v => WritesIo(uwk[v]) /\ uwk[v].i = j
      BY <1>2 DEF UdpConn
    <3> QED BY <1>6, <3>1, <3>2
  <2>2. CASE j = i
    BY <1>1, <1>2, <1>3, <1>8, <2>1, <2>2, UdpConnIs, UdpConnWillBe
  <2>3. CASE j # i
    <3>1. notes'[j] = notes[j] /\ (Accepted(j)' <=> Accepted(j)) /\ UdpConn(j)
      BY <1>2, <1>8, <1>10, <2>3
    <3> QED BY <1>1, <2>1, <3>1 DEF UdpConn
  <2> QED BY <2>2, <2>3
<1>14. UdpMapped'
  <2>1. \A v, u \in Workers : uwk'[v].pc \in Closes /\ uwk'[u].pc \in Closes /\ uwk'[v].i = uwk'[u].i
                             => v = u
    <3>1. uwk'[w].pc \notin Closes
      BY <1>6 DEF Closes
    <3> QED BY <1>2, <1>6, <3>1 DEF UdpMapped
  <2>2. ASSUME NEW j \in uids PROVE addrMap'[uobj[j].addr] = j
    <3>1. j \in Ids /\ uobj[j].addr \in Addrs \cup {None} /\ uobj[j].addr # None /\ j # None
      BY <1>2, UdpFields, UdpAssumption DEF UdpTypes, UdpConn
    <3>2. addrMap[uobj[j].addr] = j \/ j = i
      BY <1>2, <1>11 DEF UdpMapped
    <3> QED BY <1>3, <1>5, <3>1, <3>2
  <2>3. \A b \in Addrs : addrMap'[b] # None => uobj[addrMap'[b]].addr = b
    BY <1>2, <1>5 DEF UdpMapped
  <2> QED BY <1>1, <2>1, <2>2, <2>3 DEF UdpMapped
<1> QED BY <1>9, <1>12, <1>13, <1>14 DEF UdpInv

LEMMA UdpEraseInv ==
  ASSUME UdpInv, NEW w \in Workers, NEW i \in Ids, uwk[w].i = i, U!Erase(w)
  PROVE  UdpInv'
<1> DEFINE a == uobj[i].addr
           o == [[uobj[i] EXCEPT !.recvQueue = 0] EXCEPT !.sndBuff = 0]
<1>1. /\ uwk[w].pc = "erase" /\ U!Goto(w, uwk[w].back)
      /\ addrMap' = [addrMap EXCEPT ![a] = None]
      /\ uobj' = [uobj EXCEPT ![i] = o]
      /\ UNCHANGED <<inbox, accepting, uids, ubudget, notes>>
  BY DEF U!Erase, U!At
<1>2. /\ UdpTypes /\ UdpMapped /\ (\A v \in Workers : UdpWorker(v))
      /\ (\A j \in Ids : UdpConn(j)) /\ uobj[i] \in UdpObj
  BY DEF UdpInv, UdpTypes
<1>3. /\ addrMap[a] = i /\ i \notin uids /\ a # None /\ ~uobj[i].valid /\ i # None
  BY <1>1, <1>2, UdpAssumption DEF UdpWorker, Closes
<1>4. a \in Addrs
  BY <1>2, <1>3, UdpFields
<1>5. /\ o \in UdpObj /\ o.addr = a /\ o.valid = uobj[i].valid /\ o.lcIo = uobj[i].lcIo
      /\ o.lcSend = uobj[i].lcSend
  BY <1>2 DEF UdpObj
<1> HIDE DEF o
<1>6. /\ addrMap' \in [Addrs -> Ids \cup {None}] /\ addrMap'[a] = None
      /\ \A b \in Addrs : b # a => addrMap'[b] = addrMap[b]
  BY <1>1, <1>2, <1>4 DEF UdpTypes
<1>7. /\ uobj' \in [Ids -> UdpObj] /\ uobj'[i] = o /\ \A j \in Ids : j # i => uobj'[j] = uobj[j]
  BY <1>1, <1>2, <1>5, UdpBecomes
<1>8. \A j \in Ids : UdpAlike(uobj[j], uobj'[j])
  BY <1>5, <1>7 DEF UdpAlike
<1>9. uwk[w].back \in {"idle", "recv", "refused", "never"} /\ uwk[w].back \in UdpPc
  BY <1>2, UdpFields DEF UdpPc
<1>10. /\ uwk' \in [Workers -> UdpWk] /\ \A v \in Workers : v # w => uwk'[v] = uwk[v]
       /\ uwk'[w].pc = uwk[w].back /\ uwk'[w].i = i /\ uwk'[w].back = uwk[w].back
  BY <1>1, <1>2, <1>9, UdpGoes
<1>11. UdpTypes'
  BY <1>1, <1>2, <1>6, <1>7, <1>10 DEF UdpTypes
<1>12. \A j \in Ids : Accepted(j)' <=> Accepted(j)
  BY <1>1 DEF Accepted
<1>13. \A v \in Workers : uwk[v].pc \in Closes /\ uwk[v].i = i => v = w
  BY <1>1, <1>2 DEF UdpMapped, Closes
<1>14. WritesIo(uwk[w]) => WritesIo(uwk'[w])
  BY <1>1, <1>10 DEF WritesIo
<1>15. ASSUME NEW v \in Workers PROVE UdpWorker(v)'
  <2>1. CASE v = w
    <3>1. WritesIo(uwk'[w]) => WritesIo(uwk[w])
      BY <1>1, <1>9, <1>10 DEF WritesIo
    <3>2. WritesIo(uwk'[w]) => uobj'[i].lcIo.wr = w
      BY <1>2, <1>5, <1>7, <3>1 DEF UdpWorker
    <3>3. uobj'[i].addr # None /\ ~uobj'[i].valid
      BY <1>3, <1>5, <1>7
    <3> QED BY <1>3, <1>9, <1>10, <2>1, <3>2, <3>3 DEF UdpWorker, WritesIo, ReadsIo, ReadsSend, Closes
  <2>2. CASE v # w
    <3>1. uwk'[v] = uwk[v] /\ UdpWorker(v) /\ uwk[v].i \in Ids \cup {None}
      BY <1>2, <1>10, <2>2, UdpFields
    <3>2. CASE uwk[v].i = None
      BY <3>1, <3>2 DEF UdpWorker, WritesIo, ReadsIo, ReadsSend, Closes
    <3>3. CASE uwk[v].i \in Ids
      <4>1. uwk[v].pc = "erase" => addrMap'[uobj[uwk[v].i].addr] = uwk[v].i
        <5>1. uwk[v].pc = "erase" => /\ addrMap[uobj[uwk[v].i].addr] = uwk[v].i
                                     /\ uobj[uwk[v].i].addr # None /\ uwk[v].i # i
          BY <1>13, <2>2, <3>1 DEF UdpWorker, Closes
        <5>2. uobj[uwk[v].i].addr \in Addrs \cup {None}
          BY <1>2, <3>3, UdpFields
        <5> QED BY <1>3, <1>6, <5>1, <5>2
      <4>2. uwk[v].pc = "map" => addrMap'[uwk[v].d.addr] = None
        <5>1. uwk[v].pc = "map" => uwk[v].d \in U!Datagram /\ addrMap[uwk[v].d.addr] = None
          BY <3>1 DEF UdpWorker
        <5>2. uwk[v].pc = "map" => uwk[v].d.addr \in Addrs
          BY <5>1 DEF U!Datagram
        <5> QED BY <1>6, <5>1, <5>2
      <4>3. UdpAlike(uobj[uwk[v].i], uobj'[uwk[v].i])
        BY <1>8, <3>3
      <4> QED BY <1>1, <1>12, <3>1, <3>3, <4>1, <4>2, <4>3 DEF UdpWorker, UdpAlike
    <3> QED BY <3>1, <3>2, <3>3
  <2> QED BY <2>1, <2>2
<1>16. ASSUME NEW j \in Ids PROVE UdpConn(j)'
  <2>1. \A v \in Workers : uobj[j].lcIo.wr = v => WritesIo(uwk'[v]) /\ uwk'[v].i = j
    <3>1. \A v \in Workers : uobj[j].lcIo.wr = v => WritesIo(uwk[v]) /\ uwk[v].i = j
      BY <1>2 DEF UdpConn
    <3> QED BY <1>10, <1>14, <3>1
  <2>2. UdpAlike(uobj[j], uobj'[j]) /\ UdpConn(j) /\ (Accepted(j)' <=> Accepted(j))
    BY <1>2, <1>8, <1>12
  <2> QED BY <1>1, <2>1, <2>2 DEF UdpConn, UdpAlike
<1>17. UdpMapped'
  <2>1. \A v, u \in Workers : uwk'[v].pc \in Closes /\ uwk'[u].pc \in Closes /\ uwk'[v].i = uwk'[u].i
                             => v = u
    <3>1. uwk'[w].pc \notin Closes
      BY <1>9, <1>10 DEF Closes
    <3> QED BY <1>2, <1>10, <3>1 DEF UdpMapped
  <2>2. ASSUME NEW j \in uids
        PROVE  \/ addrMap'[uobj'[j].addr] = j
               \/ \E v \in Workers : uwk'[v].pc = "map" /\ uwk'[v].i = j
    <3>1. /\ j \in Ids /\ j # i /\ uobj'[j] = uobj[j] /\ uobj[j].addr \in Addrs
      BY <1>2, <1>3, <1>7, UdpFields DEF UdpTypes, UdpConn
    <3>2. \A v \in Workers : uwk[v].pc = "map" => uwk'[v] = uwk[v]
      BY <1>1, <1>10
    <3> QED BY <1>2, <1>3, <1>6, <3>1, <3>2 DEF UdpMapped
  <2>3. ASSUME NEW b \in Addrs, addrMap'[b] # None PROVE uobj'[addrMap'[b]].addr = b
    <3>1. addrMap'[b] = addrMap[b] /\ addrMap[b] \in Ids /\ uobj[addrMap[b]].addr = b
      BY <1>2, <1>6, <2>3 DEF UdpMapped, UdpTypes
    <3> QED BY <1>8, <3>1 DEF UdpAlike
  <2> QED BY <1>1, <2>1, <2>2, <2>3 DEF UdpMapped
<1> QED BY <1>11, <1>15, <1>16, <1>17 DEF UdpInv

-----------------------------------------------------------------------------
(* The server begins in UdpInv, no step leaves it, and it is enough.       *)
LEMMA UdpInvInit == U!Init => UdpInv
<1> SUFFICES ASSUME U!Init PROVE UdpInv
  OBVIOUS
<1>1. /\ U!Free \in U!LockState /\ U!Free.wr = None /\ U!Free.rd = {}
  BY DEF U!LockState, U!Free
<1>2. 0 \in 0 .. UdpAttempts /\ 0 \in 0 .. MaxReads
  BY UdpAssumption, OutAssumption
<1>3. /\ U!NewObj \in UdpObj /\ U!NewObj.addr = None /\ U!NewObj.valid = FALSE
      /\ U!NewObj.lcIo = U!Free /\ U!NewObj.lcSend = U!Free
  BY <1>1, <1>2 DEF U!NewObj, UdpObj
<1>4. U!Idle \in UdpWk /\ U!Idle.pc = "idle" /\ U!Idle.i = None
  BY <1>2 DEF U!Idle, UdpWk, UdpPc
<1>5. /\ \A i \in Ids : uobj[i] = U!NewObj /\ notes[i] = <<>>
      /\ \A w \in Workers : uwk[w] = U!Idle
      /\ uids = {} /\ \A a \in Addrs : addrMap[a] = None
  BY DEF U!Init
<1>6. UdpTypes
  <2>1. ubudget \in [U!Events -> Nat]
    BY UdpAssumption DEF U!Init
  <2> QED BY <1>3, <1>4, <2>1 DEF U!Init, UdpTypes
<1>7. \A w \in Workers : UdpWorker(w)
  BY <1>4, <1>5 DEF UdpWorker, WritesIo, ReadsIo, ReadsSend, Closes
<1>8. ASSUME NEW i \in Ids PROVE UdpConn(i)
  <2>1. Len(notes[i]) = 0
    BY <1>5
  <2>2. \A w \in Workers : w # None
    BY UdpAssumption
  <2> QED BY <1>1, <1>3, <1>5, <2>1, <2>2 DEF UdpConn
<1>9. UdpMapped
  BY <1>4, <1>5 DEF UdpMapped, Closes
<1> QED BY <1>6, <1>7, <1>8, <1>9 DEF UdpInv

LEMMA UdpWorkInv ==
  ASSUME UdpInv, NEW w \in Workers, U!Work(w)
  PROVE  UdpInv'
<1>1. CASE U!RecvFrom(w)
  BY <1>1, UdpRecvFromInv
<1>2. CASE U!Accept(w)
  BY <1>2, UdpAcceptInv
<1>3. CASE U!Examine(w)
  BY <1>3, ExamineInv
<1>4. CASE U!Push(w)
  BY <1>4, UdpPushInv
<1>5. CASE U!Tell(w) \/ U!More(w) \/ U!SendMore(w)
  BY <1>5, UdpTellsInv
<1>6. CASE U!OnSend(w)
  BY <1>6, UdpOnSendInv
<1>7. CASE U!Invalid(w)
  BY <1>7, UdpInvalidInv
<1>8. CASE U!OnClose(w)
  BY <1>8, UdpOnCloseInv
<1>9. ASSUME uwk[w].pc \notin {"idle", "recv", "accept"},
             \/ U!MapAddress(w) \/ U!OnAccept(w) \/ U!Refused(w)
             \/ U!LockIo(w) \/ U!Pop(w) \/ U!OnReceive(w) \/ U!LockSend(w) \/ U!SendTo(w)
             \/ U!WantIo(w) \/ U!WantSend(w) \/ U!Remove(w) \/ U!Erase(w)
      PROVE  UdpInv'
  <2>1. PICK i \in Ids : uwk[w].i = i
    BY <1>9, UdpAt
  <2>2. CASE U!MapAddress(w)
    BY <2>1, <2>2, UdpMapInv
  <2>3. CASE U!OnAccept(w) \/ U!Refused(w)
    BY <2>1, <2>3, UdpOnAcceptInv
  <2>4. CASE U!LockIo(w)
    BY <2>1, <2>4, UdpLockIoInv
  <2>5. CASE U!Pop(w)
    BY <2>1, <2>5, UdpPopInv
  <2>6. CASE U!OnReceive(w)
    BY <2>1, <2>6, UdpOnReceiveInv
  <2>7. CASE U!LockSend(w)
    BY <2>1, <2>7, UdpLockSendInv
  <2>8. CASE U!SendTo(w)
    BY <2>1, <2>8, UdpSendToInv
  <2>9. CASE U!WantIo(w)
    BY <2>1, <2>9, UdpWantIoInv
  <2>10. CASE U!WantSend(w)
    BY <2>1, <2>10, UdpWantSendInv
  <2>11. CASE U!Remove(w)
    BY <2>1, <2>11, UdpRemoveInv
  <2>12. CASE U!Erase(w)
    BY <2>1, <2>12, UdpEraseInv
  <2> QED BY <1>9, <2>2, <2>3, <2>4, <2>5, <2>6, <2>7, <2>8, <2>9, <2>10, <2>11, <2>12
<1>10. \/ U!MapAddress(w) \/ U!OnAccept(w) \/ U!Refused(w)
       \/ U!LockIo(w) \/ U!Pop(w) \/ U!OnReceive(w) \/ U!LockSend(w) \/ U!SendTo(w)
       \/ U!WantIo(w) \/ U!WantSend(w) \/ U!Remove(w) \/ U!Erase(w)
       => uwk[w].pc \notin {"idle", "recv", "accept"}
  BY DEF U!At, U!MapAddress, U!OnAccept, U!Refused, U!LockIo, U!Pop, U!OnReceive, U!LockSend,
         U!SendTo, U!WantIo, U!WantSend, U!Remove, U!Erase
<1> QED BY <1>1, <1>2, <1>3, <1>4, <1>5, <1>6, <1>7, <1>8, <1>9, <1>10 DEF U!Work

LEMMA UdpInvNext == UdpInv /\ (U!Next \/ UNCHANGED uvars) => UdpInv'
<1> SUFFICES ASSUME UdpInv, U!Next \/ UNCHANGED uvars PROVE UdpInv'
  OBVIOUS
<1>1. CASE \E d \in U!Datagram : U!Arrive(d)
  BY <1>1, ArriveInv
<1>2. CASE \E i \in Ids : U!DetectConnection(i)
  BY <1>2, DetectInv
<1>3. CASE \E i \in Ids : U!Send(i) \/ U!Disconnect(i)
  BY <1>3, UdpCallsInv
<1>4. CASE \E w \in Workers : U!Take(w)
  BY <1>4, UdpReadyReadInv, UdpTakeInv DEF U!Take
<1>5. CASE \E w \in Workers : U!Work(w)
  BY <1>5, UdpWorkInv
<1>6. CASE U!StopListen \/ U!StopDisconnect \/ U!StopEnd
  BY <1>6, UdpStopInv
<1>7. CASE UNCHANGED uvars
  <2>1. inbox \in Seq(U!Datagram) /\ ubudget \in [U!Events -> Nat]
    BY DEF UdpInv, UdpTypes
  <2> QED BY <1>7, <2>1, UdpAsIs DEF uvars
<1> QED BY <1>1, <1>2, <1>3, <1>4, <1>5, <1>6, <1>7 DEF U!Next

LEMMA UdpHolds == UdpInv => UdpCloseIsLast
<1> SUFFICES ASSUME UdpInv PROVE UdpCloseIsLast
  OBVIOUS
<1>1. /\ UdpTypes /\ UdpMapped /\ (\A w \in Workers : UdpWorker(w))
      /\ \A i \in Ids : UdpConn(i)
  BY DEF UdpInv
<1>2. U!TypeOK
  <2>1. \A i \in Ids : \A l \in {uobj[i].lcIo, uobj[i].lcSend} : l.wr # None => l.rd = {}
    BY <1>1 DEF UdpConn
  <2> QED BY <1>1, <2>1 DEF UdpTypes, UdpObj, U!TypeOK
<1>3. U!OneConnection
  <2>1. ASSUME NEW i \in uids
        PROVE  /\ i \in Ids /\ i # None /\ uobj[i].addr \in Addrs
               /\ \/ addrMap[uobj[i].addr] = i
                  \/ \E w \in Workers : /\ uwk[w].pc = "map" /\ uwk[w].i = i /\ accepting = w
                                        /\ addrMap[uobj[i].addr] = None
    <3>1. i \in Ids /\ i # None /\ uobj[i].addr \in Addrs
      BY <1>1, UdpFields, UdpAssumption DEF UdpTypes, UdpConn
    <3>2. \A w \in Workers : uwk[w].pc = "map" /\ uwk[w].i = i =>
            accepting = w /\ addrMap[uobj[i].addr] = None
      BY <1>1 DEF UdpWorker
    <3> QED BY <1>1, <3>1, <3>2 DEF UdpMapped
  <2>2. \A i, j \in uids : uobj[i].addr = uobj[j].addr => i = j
    BY <2>1
  <2> QED BY <1>1, <2>1, <2>2 DEF UdpMapped, U!OneConnection, U!At
<1>4. U!CloseIsLast
  <2>1. ASSUME NEW i \in Ids, NEW n \in DOMAIN notes[i]
        PROVE  /\ notes[i][n] \in {"receive", "close"} =>
                    \E m \in 1 .. n - 1 : notes[i][m] = "accepted"
               /\ notes[i][n] = "close" => n = Len(notes[i])
    <3>1. n \in 1 .. Len(notes[i])
      BY <1>1, UdpFields, LenProperties
    <3> QED BY <1>1, <3>1 DEF UdpConn
  <2>2. ASSUME NEW i \in Ids, NEW w \in Workers, NEW v \in Workers, uwk[w].pc = "on_close",
               uwk[w].i = i, v # w, uwk[v].pc \in U!Callbacks, uwk[v].i = i
        PROVE  FALSE
    <3>1. ~uobj[i].valid
      BY <1>1, <2>2 DEF UdpWorker, Closes
    <3>2. CASE uwk[v].pc = "on_close"
      BY <1>1, <2>2, <3>2 DEF UdpMapped, Closes
    <3>3. CASE uwk[v].pc \in {"on_accept", "on_receive", "on_send"}
      BY <1>1, <2>2, <3>1, <3>3 DEF UdpWorker, ReadsIo, ReadsSend
    <3> QED BY <2>2, <3>2, <3>3 DEF U!Callbacks
  <2> QED BY <2>1, <2>2 DEF U!CloseIsLast, U!At
<1> QED BY <1>2, <1>3, <1>4 DEF UdpCloseIsLast

-----------------------------------------------------------------------------
(* The thread pool.                                                        *)
PP == INSTANCE ThreadPoolProofs

LEMMA SamePool ==
  (P!Init <=> PP!Init) /\ (P!Next <=> PP!Next) /\ (P!vars = PP!vars)
BY DEF P!Callers, PP!Callers, P!Limited, PP!Limited, P!Full, PP!Full, P!WaitsFor,
       PP!WaitsFor, P!WAt, PP!WAt, P!SAt, PP!SAt, P!CAt, PP!CAt, P!WGoto, PP!WGoto,
       P!SGoto, PP!SGoto, P!CGoto, PP!CGoto, P!Init, PP!Init, P!WakeSome, PP!WakeSome,
       P!NotifyTask, PP!NotifyTask, P!Accept, PP!Accept, P!Return, PP!Return, P!Submit,
       PP!Submit, P!Direct, PP!Direct, P!Cycle, PP!Cycle, P!Try, PP!Try, P!Timeout,
       PP!Timeout, P!Woken, PP!Woken, P!CallerRun, PP!CallerRun, P!Check, PP!Check,
       P!Run, PP!Run, P!Leave, PP!Leave, P!Notify, PP!Notify, P!After, PP!After,
       P!AdjEnter, PP!AdjEnter, P!AdjSpawn, PP!AdjSpawn, P!AdjCount, PP!AdjCount,
       P!AdjNotify, PP!AdjNotify, P!Adjust, PP!Adjust, P!Start, PP!Start, P!SetStarted,
       PP!SetStarted, P!AdjustThreadCount, PP!AdjustThreadCount, P!Stop, PP!Stop,
       P!StopCas2, PP!StopCas2, P!StopSpin, PP!StopSpin, P!Slept, PP!Slept, P!Release,
       PP!Release, P!SemTest, PP!SemTest, P!SemBlock, PP!SemBlock, P!Drain, PP!Drain,
       P!StopSteps, PP!StopSteps, P!SubmitSteps, PP!SubmitSteps, P!WorkerSteps,
       PP!WorkerSteps, P!Next, PP!Next, P!vars, PP!vars, P!setup, PP!setup, P!pool,
       PP!pool, P!worker, PP!worker, P!submit, PP!submit, P!ctl, PP!ctl, P!ghost,
       PP!ghost, P!Cardinality, PP!Cardinality

LEMMA PoolIsSound == PP!PoolAssumption
BY PoolAssumption DEF P!PoolAssumption, PP!PoolAssumption, P!IsFiniteSet, PP!IsFiniteSet,
   P!Cardinality, PP!Cardinality

LEMMA PoolHolds ==
  PP!TypeOK /\ PP!ThreadsMatch /\ PP!CleanStop => P!TypeOK /\ P!ThreadsMatch /\ P!CleanStop
BY DEF PP!TypeOK, P!TypeOK, PP!ThreadsMatch, P!ThreadsMatch, PP!CleanStop, P!CleanStop,
   PP!Adjusting, P!Adjusting, PP!CAt, P!CAt, P!Callers, PP!Callers, P!Cardinality,
   PP!Cardinality

(* Where Stop() of the pool comes after Start(), and sleeps long enough,   *)
(* it leaves no task and no thread, and what was accepted has run.         *)
THEOREM ThreadsCleanStop ==
  ASSUME SleepEnough, StopFrom = {"done"} PROVE MCSpec => []CleanStop
<1>1. MCInit => PP!PoolInv /\ PP!StopInv
  BY SamePool, PP!InitPoolInv, PP!InitStopInv, PoolIsSound DEF MCInit
<1>2. PP!PoolInv /\ PP!StopInv /\ [MCNext]_<<part, vars, pvars, dvars, uvars, nvars>>
        => PP!PoolInv' /\ PP!StopInv'
  <2> SUFFICES ASSUME PP!PoolInv, PP!StopInv,
                      [MCNext]_<<part, vars, pvars, dvars, uvars, nvars>>
               PROVE  PP!PoolInv' /\ PP!StopInv'
    OBVIOUS
  <2>1. P!Next \/ UNCHANGED pvars
    BY DEF MCNext
  <2>2. UNCHANGED pvars => UNCHANGED PP!vars
    BY DEF pvars, PP!vars, PP!setup, PP!pool, PP!worker, PP!submit, PP!ctl, PP!ghost
  <2>3. PP!PoolInv'
    BY <2>1, <2>2, SamePool, PP!NextPoolInv, PoolIsSound
  <2> QED BY <2>1, <2>2, <2>3, SamePool, PP!NextStopInv, PoolIsSound
<1>3. PP!PoolInv /\ PP!StopInv => CleanStop
  BY PoolHolds, PP!TypeOKHolds, PP!ThreadsMatchHolds, PP!CleanStopHolds, PoolIsSound
     DEF CleanStop
<1> QED BY <1>1, <1>2, <1>3, PTL DEF MCSpec

-----------------------------------------------------------------------------
(* The dispatcher and the node in the run.                                 *)

(* A worker that is told of a pipe finds a byte in it, and Stop() leaves   *)
(* no command; a datagram that Send() took is in one place, makes the list *)
(* pending while it is in it, and Stop() leaves nothing to the next        *)
(* Start(), whatever the threads, the commands and the datagrams are.      *)
THEOREM ThreadsStopIsClean == MCSpec => []StopIsClean
<1>1. MCInit => DispInv /\ NodeInv
  BY DispInvInit, NodeInvInit DEF MCInit
<1>2. DispInv /\ NodeInv /\ [MCNext]_<<part, vars, pvars, dvars, uvars, nvars>>
        => DispInv' /\ NodeInv'
  <2> SUFFICES ASSUME DispInv, NodeInv, [MCNext]_<<part, vars, pvars, dvars, uvars, nvars>>
               PROVE  DispInv' /\ NodeInv'
    OBVIOUS
  <2>1. (D!Next \/ UNCHANGED dvars) /\ (N!Next \/ UNCHANGED nvars)
    BY DEF MCNext
  <2> QED BY <2>1, DispInvNext, NodeInvNext
<1>3. DispInv /\ NodeInv => StopIsClean
  BY DispHolds, NodeHolds DEF StopIsClean
<1> QED BY <1>1, <1>2, <1>3, PTL DEF MCSpec

-----------------------------------------------------------------------------
(* The UDP server in the run.                                             *)

(* In the UDP server one address is one connection, a connection is        *)
(* accepted before it receives, a refused one receives and closes never,   *)
(* and OnClose comes once, last, and with no other callback of the         *)
(* connection running: for any workers, peers and budgets.                 *)
THEOREM ThreadsUdpCloseIsLast == MCSpec => []UdpCloseIsLast
<1>1. MCInit => UdpInv
  BY UdpInvInit DEF MCInit
<1>2. UdpInv /\ [MCNext]_<<part, vars, pvars, dvars, uvars, nvars>> => UdpInv'
  BY UdpInvNext DEF MCNext
<1>3. UdpInv => UdpCloseIsLast
  BY UdpHolds
<1> QED BY <1>1, <1>2, <1>3, PTL DEF MCSpec
=============================================================================
