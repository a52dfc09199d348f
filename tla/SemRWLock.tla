----------------------------- MODULE SemRWLock -----------------------------
(***************************************************************************)
(* CSEMRWLock (common/RWLock.cpp), the CRWLock of the default build: a     *)
(* counter under a mutex, and a condition variable for each side.  What a  *)
(* method does between taking and releasing m_mtx is one step; a wait on a *)
(* condition variable ends by a notification or spuriously, and then tests *)
(* its predicate again.  Callers release in the reverse order of locking   *)
(* and do not ask for the write lock inside a read lock.                   *)
(***************************************************************************)
EXTENDS Integers, FiniteSets

CONSTANTS
  Threads,
  NoThread,
  MaxOps,      (* bound: locks a thread takes                              *)
  MaxDepth,    (* bound: locks a thread holds at a time                    *)
  NestedReads  (* whether a reader may lock for reading again              *)

ASSUME NoThreadAssumption == NoThread \notin Threads

VARIABLES
  waitingReaders, waitingWriters, active, owner,
  pc,          (* "run", blocked on a condition variable, or woken         *)
  reads,       (* read locks each thread holds, write locks                *)
  writes,
  ops          (* locks asked for so far                                   *)

lock == <<waitingReaders, waitingWriters, active, owner>>
vars == <<lock, pc, reads, writes, ops>>

Init ==
  /\ waitingReaders = 0 /\ waitingWriters = 0 /\ active = 0 /\ owner = NoThread
  /\ pc     = [t \in Threads |-> "run"]
  /\ reads  = [t \in Threads |-> 0]
  /\ writes = [t \in Threads |-> 0]
  /\ ops    = [t \in Threads |-> 0]

IsOwner(t) == owner = t
Depth(t)   == reads[t] + writes[t]
Blocked(p) == {t \in Threads : pc[t] = p}

(* notify_one wakes one blocked thread if there is one, notify_all all.    *)
WakeOne(p, woken) ==
  IF Blocked(p) = {} THEN UNCHANGED pc
  ELSE \E t \in Blocked(p) : pc' = [pc EXCEPT ![t] = woken]
WakeAll(p, woken) ==
  pc' = [t \in Threads |-> IF pc[t] = p THEN woken ELSE pc[t]]

(* A thread calls for a lock, within the bounds.                           *)
MayCall(t) ==
  /\ pc[t] = "run" /\ Depth(t) < MaxDepth
  /\ ops[t] < MaxOps /\ ops' = [ops EXCEPT ![t] = @ + 1]

HoldRead(t)  == reads'  = [reads EXCEPT ![t] = @ + 1]
HoldWrite(t) == writes' = [writes EXCEPT ![t] = @ + 1]

-----------------------------------------------------------------------------
(* A bug to be caught: the reader's test of m_nActive forgotten.           *)
ReadPredicateNoActive == waitingWriters = 0

ReadPredicate  == active >= 0 /\ waitingWriters = 0
WritePredicate == active = 0

WaitToRead(t) ==
  /\ MayCall(t)
  /\ reads[t] > 0 /\ writes[t] = 0 => NestedReads
  /\ IF IsOwner(t)
     THEN HoldRead(t) /\ UNCHANGED <<lock, pc>>
     ELSE IF ReadPredicate
     THEN /\ active' = active + 1
          /\ HoldRead(t)
          /\ UNCHANGED <<waitingReaders, waitingWriters, owner, pc>>
     ELSE /\ waitingReaders' = waitingReaders + 1
          /\ pc' = [pc EXCEPT ![t] = "cvRead"]
          /\ UNCHANGED <<waitingWriters, active, owner, reads>>
  /\ UNCHANGED writes

ReadWoken(t) ==
  /\ pc[t] = "readWoken"
  /\ IF ReadPredicate
     THEN /\ waitingReaders' = waitingReaders - 1
          /\ active' = active + 1
          /\ HoldRead(t)
          /\ pc' = [pc EXCEPT ![t] = "run"]
     ELSE /\ pc' = [pc EXCEPT ![t] = "cvRead"]
          /\ UNCHANGED <<waitingReaders, active, reads>>
  /\ UNCHANGED <<waitingWriters, owner, writes, ops>>

WaitToWrite(t) ==
  /\ MayCall(t)
  /\ reads[t] > 0 => writes[t] > 0
  /\ IF IsOwner(t)
     THEN /\ active' = active - 1
          /\ HoldWrite(t)
          /\ UNCHANGED <<waitingReaders, waitingWriters, owner, pc>>
     ELSE IF WritePredicate
     THEN /\ active' = active - 1 /\ owner' = t
          /\ HoldWrite(t)
          /\ UNCHANGED <<waitingReaders, waitingWriters, pc>>
     ELSE /\ waitingWriters' = waitingWriters + 1
          /\ pc' = [pc EXCEPT ![t] = "cvWrite"]
          /\ UNCHANGED <<waitingReaders, active, owner, writes>>
  /\ UNCHANGED reads

WriteWoken(t) ==
  /\ pc[t] = "writeWoken"
  /\ IF WritePredicate
     THEN /\ waitingWriters' = waitingWriters - 1
          /\ active' = active - 1 /\ owner' = t
          /\ HoldWrite(t)
          /\ pc' = [pc EXCEPT ![t] = "run"]
     ELSE /\ pc' = [pc EXCEPT ![t] = "cvWrite"]
          /\ UNCHANGED <<waitingWriters, active, owner, writes>>
  /\ UNCHANGED <<waitingReaders, reads, ops>>

(* A bug to be caught: the last reader wakes nobody.                       *)
ReadDoneSilent(t) ==
  /\ pc[t] = "run" /\ reads[t] > 0
  /\ reads' = [reads EXCEPT ![t] = @ - 1]
  /\ active' = IF IsOwner(t) THEN active ELSE active - 1
  /\ UNCHANGED <<waitingReaders, waitingWriters, owner, pc, writes, ops>>

ReadDone(t) ==
  /\ pc[t] = "run" /\ reads[t] > 0
  /\ reads' = [reads EXCEPT ![t] = @ - 1]
  /\ IF IsOwner(t)
     THEN UNCHANGED <<active, pc>>
     ELSE /\ active' = active - 1
          /\ IF active = 1 /\ waitingWriters > 0
             THEN WakeOne("cvWrite", "writeWoken")
             ELSE UNCHANGED pc
  /\ UNCHANGED <<waitingReaders, waitingWriters, owner, writes, ops>>

(* A bug to be caught: waiting readers woken in preference to writers.     *)
WriteDoneReaders(t) ==
  /\ pc[t] = "run" /\ writes[t] > 0
  /\ writes[t] = 1 => reads[t] = 0
  /\ writes' = [writes EXCEPT ![t] = @ - 1]
  /\ active' = active + 1
  /\ IF active = -1
     THEN /\ owner' = NoThread
          /\ IF waitingReaders > 0 THEN WakeAll("cvRead", "readWoken")
             ELSE IF waitingWriters > 0 THEN WakeOne("cvWrite", "writeWoken")
             ELSE UNCHANGED pc
     ELSE UNCHANGED <<owner, pc>>
  /\ UNCHANGED <<waitingReaders, waitingWriters, reads, ops>>

WriteDone(t) ==
  /\ pc[t] = "run" /\ writes[t] > 0
  /\ writes[t] = 1 => reads[t] = 0
  /\ writes' = [writes EXCEPT ![t] = @ - 1]
  /\ active' = active + 1
  /\ IF active = -1
     THEN /\ owner' = NoThread
          /\ IF waitingWriters > 0
             THEN WakeOne("cvWrite", "writeWoken")
             ELSE IF waitingReaders > 0
             THEN WakeAll("cvRead", "readWoken")
             ELSE UNCHANGED pc
     ELSE UNCHANGED <<owner, pc>>
  /\ UNCHANGED <<waitingReaders, waitingWriters, reads, ops>>

(* condition_variable::wait may return without a notification.             *)
Spurious(t) ==
  /\ \/ pc[t] = "cvRead"  /\ pc' = [pc EXCEPT ![t] = "readWoken"]
     \/ pc[t] = "cvWrite" /\ pc' = [pc EXCEPT ![t] = "writeWoken"]
  /\ UNCHANGED <<lock, reads, writes, ops>>

Next == \E t \in Threads :
          \/ WaitToRead(t) \/ ReadWoken(t) \/ WaitToWrite(t) \/ WriteWoken(t)
          \/ ReadDone(t) \/ WriteDone(t) \/ Spurious(t)

(* A woken thread runs; a holder eventually releases; nobody has to call.  *)
Fairness == \A t \in Threads :
  WF_vars(ReadWoken(t) \/ WriteWoken(t)) /\ WF_vars(ReadDone(t) \/ WriteDone(t))

Spec == Init /\ [][Next]_vars /\ Fairness

-----------------------------------------------------------------------------
(* The types of the members of CSEMRWLock and of the callers' state.       *)
TypeOK ==
  /\ waitingReaders \in Nat /\ waitingWriters \in Nat
  /\ active \in Int /\ owner \in Threads \cup {NoThread}
  /\ pc \in [Threads -> {"run", "cvRead", "readWoken", "cvWrite", "writeWoken"}]
  /\ reads \in [Threads -> Nat] /\ writes \in [Threads -> Nat]

(* The lock is the one ReadWriteLock describes: a writer is alone, however *)
(* its nested locks and the waits of the others interleave.                *)
Abstract == INSTANCE ReadWriteLock
IsReadWriteLock == Abstract!LSpec

(* No wake-up is lost: with the lock free a blocked writer has a colleague *)
(* that was woken, and a reader stays blocked only for a writer.           *)
NoLostWakeup ==
  /\ active = 0 /\ Blocked("cvWrite") # {} => Blocked("writeWoken") # {}
  /\ active >= 0 /\ Blocked("cvRead") # {} => waitingWriters > 0

(* The threads inside wait() of either side, each read lock that is held.  *)
WaitingToRead  == Blocked("cvRead") \cup Blocked("readWoken")
WaitingToWrite == Blocked("cvWrite") \cup Blocked("writeWoken")
LocksOf(held)  == UNION {{t} \X (1 .. held[t]) : t \in Threads}
ReadLocks      == LocksOf(reads)

(* m_nWaitingReaders and m_nWaitingWriters count the threads that wait;    *)
(* m_nActive counts the read locks while nobody owns the lock, and below   *)
(* zero the write locks of the owner, who is then alone.                   *)
WaitersCounted ==
  /\ IsFiniteSet(WaitingToRead)  /\ waitingReaders = Cardinality(WaitingToRead)
  /\ IsFiniteSet(WaitingToWrite) /\ waitingWriters = Cardinality(WaitingToWrite)
LocksCounted ==
  /\ IsFiniteSet(ReadLocks)
  /\ owner = NoThread => /\ active = Cardinality(ReadLocks)
                         /\ \A t \in Threads : writes[t] = 0
  /\ owner # NoThread => /\ active = -writes[owner] /\ writes[owner] > 0
                         /\ \A t \in Threads \ {owner} :
                              writes[t] = 0 /\ reads[t] = 0

(* The inductive invariant.                                                *)
IInv == TypeOK /\ WaitersCounted /\ LocksCounted /\ NoLostWakeup

(* A thread that waits gets the lock, when the threads call a bounded      *)
(* number of times (a stream of writers may starve readers for ever).      *)
WaitReturns == []<>(\A t \in Threads : pc[t] = "run")

(* The comment at m_nActive: it is only ever -1, 0 or 1.                   *)
ActiveAsCommented == active \in {-1, 0, 1}
=============================================================================
