------------------------------ MODULE RingPool ------------------------------
(***************************************************************************)
(* CRingPool<T> (common/RingBuffer.h): the lock-free ring in which every   *)
(* component parks the objects it may reuse: free socket objects, free     *)
(* buffers and items, free ARQ, SSL and HTTP sessions.                     *)
(*                                                                         *)
(* A slot is E_EMPTY, E_LOCKED or a pointer; m_seqPut and m_seqGet only    *)
(* hint at where to look next.  Each access to shared memory is a step of  *)
(* its own, so any interleaving of the callers' threads is a behaviour.    *)
(* A read of a slot and the compare-and-swap that expects E_EMPTY are one  *)
(* step: either of them failing takes the caller to the same place.        *)
(* The sequence numbers are DWORDs; they are naturals here, which the code *)
(* agrees with until one call sleeps through 2^32 others.                  *)
(***************************************************************************)
EXTENDS Integers

CONSTANTS
  Threads,    (* the calling threads                                       *)
  Elems,      (* the pooled objects                                        *)
  Size,       (* m_dwSize                                                  *)
  Empty,      (* E_EMPTY                                                   *)
  Locked,     (* E_LOCKED                                                  *)
  MaxSeq      (* bound: no call starts once m_seqPut reached it            *)

ASSUME SizeAssumption   == Size \in Nat \ {0}
ASSUME StatusAssumption == Empty \notin Elems /\ Locked \notin Elems /\ Empty # Locked

VARIABLES
  slots,      (* m_pv                                                      *)
  seqPut,     (* m_seqPut                                                  *)
  seqGet,     (* m_seqGet                                                  *)
  pc,         (* where each thread is: "idle" outside CRingPool            *)
  seq,        (* the local seqPut / seqGet of its call                     *)
  cur,        (* pCurrent, then what the call hands out                    *)
  tries,      (* i, the passes TryPut has made                             *)
  lockIdx,    (* dwIndex of the slot it locked                             *)
  held,       (* the elements it owns outside the pool                     *)
  gone        (* the elements Clear() destructed                           *)

vars == <<slots, seqPut, seqGet, pc, seq, cur, tries, lockIdx, held, gone>>

Index    == 0 .. Size - 1
Slot(s)  == s % Size
PutSteps == {"put_seq", "put_space", "put_slot", "put_skip"}
GetSteps == {"get_slot", "get_cas", "get_skip", "get_done"}
LockSteps == {"lock_slot", "lock_cas", "lock_skip", "lock_done"}
Pc == PutSteps \cup GetSteps \cup LockSteps
        \cup {"idle", "put_done", "get_seq", "get_space",
              "lock_seq", "lock_space", "locked"}

At(t, p)   == pc[t] = p
Goto(t, p) == pc' = [pc EXCEPT ![t] = p]

Init ==
  /\ slots  = [i \in Index |-> Empty]
  /\ seqPut = 0 /\ seqGet = 0
  /\ pc     = [t \in Threads |-> "idle"]
  /\ seq    = [t \in Threads |-> 0]
  /\ cur    = [t \in Threads |-> Empty]
  /\ tries  = [t \in Threads |-> 0]
  /\ lockIdx = [t \in Threads |-> 0]
  /\ held \in [Threads -> SUBSET Elems]
  /\ \A t1, t2 \in Threads : t1 # t2 => held[t1] \cap held[t2] = {}
  /\ \A e \in Elems : \E t \in Threads : e \in held[t]
  /\ gone = {}

-----------------------------------------------------------------------------
(* TryPut(pElement)                                                        *)

StartPut(t) ==
  /\ At(t, "idle") /\ seqPut < MaxSeq
  /\ \E e \in held[t] : cur' = [cur EXCEPT ![t] = e]
  /\ tries' = [tries EXCEPT ![t] = 0]
  /\ Goto(t, "put_seq")
  /\ UNCHANGED <<slots, seqPut, seqGet, seq, lockIdx, held, gone>>

(* The head of the for loop: give up after m_dwSize passes.                *)
PutReadSeq(t) ==
  /\ At(t, "put_seq")
  /\ IF tries[t] < Size
     THEN seq' = [seq EXCEPT ![t] = seqPut] /\ Goto(t, "put_space")
     ELSE Goto(t, "idle") /\ UNCHANGED seq
  /\ UNCHANGED <<slots, seqPut, seqGet, cur, tries, lockIdx, held, gone>>

HasPutSpace(t) == seq[t] - seqGet < Size

PutCheckSpace(t) ==
  /\ At(t, "put_space")
  /\ Goto(t, IF HasPutSpace(t) THEN "put_slot" ELSE "idle")
  /\ UNCHANGED <<slots, seqPut, seqGet, seq, cur, tries, lockIdx, held, gone>>

(* A bug to be caught: a store for the compare-and-swap.                   *)
PutStore(t) ==
  /\ At(t, "put_slot")
  /\ slots' = [slots EXCEPT ![Slot(seq[t])] = cur[t]]
  /\ held'  = [held EXCEPT ![t] = @ \ {cur[t]}]
  /\ Goto(t, "put_done")
  /\ UNCHANGED <<seqPut, seqGet, seq, cur, tries, lockIdx, gone>>

PutCas(t) ==
  /\ At(t, "put_slot")
  /\ IF slots[Slot(seq[t])] = Empty
     THEN /\ slots' = [slots EXCEPT ![Slot(seq[t])] = cur[t]]
          /\ held'  = [held EXCEPT ![t] = @ \ {cur[t]}]
          /\ Goto(t, "put_done")
     ELSE Goto(t, "put_skip") /\ UNCHANGED <<slots, held>>
  /\ UNCHANGED <<seqPut, seqGet, seq, cur, tries, lockIdx, gone>>

AdvancePut(t) == seqPut' = IF seqPut = seq[t] THEN seq[t] + 1 ELSE seqPut

PutSkip(t) ==
  /\ At(t, "put_skip")
  /\ AdvancePut(t)
  /\ tries' = [tries EXCEPT ![t] = @ + 1]
  /\ Goto(t, "put_seq")
  /\ UNCHANGED <<slots, seqGet, seq, cur, lockIdx, held, gone>>

PutDone(t) ==
  /\ At(t, "put_done")
  /\ AdvancePut(t)
  /\ Goto(t, "idle")
  /\ UNCHANGED <<slots, seqGet, seq, cur, tries, lockIdx, held, gone>>

-----------------------------------------------------------------------------
(* TryGet(ppElement), and TryLock(ppElement, dwIndex), which leaves the    *)
(* slot locked.                                                            *)

StartGet(t, first) ==
  /\ At(t, "idle") /\ seqPut < MaxSeq
  /\ Goto(t, first)
  /\ UNCHANGED <<slots, seqPut, seqGet, seq, cur, tries, lockIdx, held, gone>>

ReadGetSeq(t, from, to) ==
  /\ At(t, from)
  /\ seq' = [seq EXCEPT ![t] = seqGet]
  /\ Goto(t, to)
  /\ UNCHANGED <<slots, seqPut, seqGet, cur, tries, lockIdx, held, gone>>

HasGetSpace(t) == seqPut - seq[t] > 0

CheckGetSpace(t, from, to) ==
  /\ At(t, from)
  /\ Goto(t, IF HasGetSpace(t) THEN to ELSE "idle")
  /\ UNCHANGED <<slots, seqPut, seqGet, seq, cur, tries, lockIdx, held, gone>>

(* A bug to be caught: the test for E_LOCKED forgotten.                    *)
ReadSlotNoLock(t, from, cas, skip) ==
  /\ At(t, from)
  /\ cur' = [cur EXCEPT ![t] = slots[Slot(seq[t])]]
  /\ Goto(t, IF slots[Slot(seq[t])] # Empty THEN cas ELSE skip)
  /\ UNCHANGED <<slots, seqPut, seqGet, seq, tries, lockIdx, held, gone>>

ReadSlot(t, from, cas, skip) ==
  /\ At(t, from)
  /\ cur' = [cur EXCEPT ![t] = slots[Slot(seq[t])]]
  /\ Goto(t, IF slots[Slot(seq[t])] \in Elems THEN cas ELSE skip)
  /\ UNCHANGED <<slots, seqPut, seqGet, seq, tries, lockIdx, held, gone>>

AdvanceGet(t) == seqGet' = IF seqGet = seq[t] THEN seq[t] + 1 ELSE seqGet

GetSkip(t, from, to) ==
  /\ At(t, from)
  /\ AdvanceGet(t)
  /\ Goto(t, to)
  /\ UNCHANGED <<slots, seqPut, seq, cur, tries, lockIdx, held, gone>>

(* A bug to be caught: the slot emptied whatever it holds by now.          *)
GetStore(t) ==
  /\ At(t, "get_cas")
  /\ slots' = [slots EXCEPT ![Slot(seq[t])] = Empty]
  /\ held'  = [held EXCEPT ![t] = @ \cup {cur[t]}]
  /\ Goto(t, "get_done")
  /\ UNCHANGED <<seqPut, seqGet, seq, cur, tries, lockIdx, gone>>

(* The compare-and-swap that takes pCurrent out of its slot.               *)
GetCas(t) ==
  /\ At(t, "get_cas")
  /\ IF slots[Slot(seq[t])] = cur[t]
     THEN /\ slots' = [slots EXCEPT ![Slot(seq[t])] = Empty]
          /\ held'  = [held EXCEPT ![t] = @ \cup {cur[t]}]
          /\ Goto(t, "get_done")
     ELSE Goto(t, "get_skip") /\ UNCHANGED <<slots, held>>
  /\ UNCHANGED <<seqPut, seqGet, seq, cur, tries, lockIdx, gone>>

(* The same, leaving E_LOCKED behind.                                      *)
LockCas(t) ==
  /\ At(t, "lock_cas")
  /\ IF slots[Slot(seq[t])] = cur[t]
     THEN /\ slots'   = [slots EXCEPT ![Slot(seq[t])] = Locked]
          /\ lockIdx' = [lockIdx EXCEPT ![t] = Slot(seq[t])]
          /\ held'    = [held EXCEPT ![t] = @ \cup {cur[t]}]
          /\ Goto(t, "lock_done")
     ELSE Goto(t, "lock_skip") /\ UNCHANGED <<slots, lockIdx, held>>
  /\ UNCHANGED <<seqPut, seqGet, seq, cur, tries, gone>>

(* ReleaseLock(nullptr, dwIndex): the caller keeps the object it locked.   *)
ReleaseTake(t) ==
  /\ At(t, "locked")
  /\ slots' = [slots EXCEPT ![lockIdx[t]] = Empty]
  /\ Goto(t, "idle")
  /\ UNCHANGED <<seqPut, seqGet, seq, cur, tries, lockIdx, held, gone>>

(* ReleaseLock(pElement, dwIndex): it was freed too recently, put it back. *)
ReleaseBack(t) ==
  /\ At(t, "locked")
  /\ slots' = [slots EXCEPT ![lockIdx[t]] = cur[t]]
  /\ held'  = [held EXCEPT ![t] = @ \ {cur[t]}]
  /\ Goto(t, "idle")
  /\ UNCHANGED <<seqPut, seqGet, seq, cur, tries, lockIdx, gone>>

-----------------------------------------------------------------------------
(* Clear(): called when the component has stopped and joined its threads.  *)

InSlots == {e \in Elems : \E i \in Index : slots[i] = e}

Clear ==
  /\ \A t \in Threads : At(t, "idle")
  /\ gone'   = gone \cup InSlots
  /\ slots'  = [i \in Index |-> Empty]
  /\ seqPut' = 0 /\ seqGet' = 0
  /\ UNCHANGED <<pc, seq, cur, tries, lockIdx, held>>

TryPut(t) ==
  \/ StartPut(t) \/ PutReadSeq(t) \/ PutCheckSpace(t)
  \/ PutCas(t) \/ PutSkip(t) \/ PutDone(t)

TryGet(t) ==
  \/ StartGet(t, "get_seq")
  \/ ReadGetSeq(t, "get_seq", "get_space")
  \/ CheckGetSpace(t, "get_space", "get_slot")
  \/ ReadSlot(t, "get_slot", "get_cas", "get_skip")
  \/ GetCas(t)
  \/ GetSkip(t, "get_skip", "get_seq")
  \/ GetSkip(t, "get_done", "idle")

TryLock(t) ==
  \/ StartGet(t, "lock_seq")
  \/ ReadGetSeq(t, "lock_seq", "lock_space")
  \/ CheckGetSpace(t, "lock_space", "lock_slot")
  \/ ReadSlot(t, "lock_slot", "lock_cas", "lock_skip")
  \/ LockCas(t)
  \/ GetSkip(t, "lock_skip", "lock_seq")
  \/ GetSkip(t, "lock_done", "locked")

ReleaseLock(t) == ReleaseTake(t) \/ ReleaseBack(t)

Next ==
  \/ \E t \in Threads : TryPut(t) \/ TryGet(t) \/ TryLock(t) \/ ReleaseLock(t)
  \/ Clear

Spec == Init /\ [][Next]_vars

-----------------------------------------------------------------------------
(* The types of the ring's members and of what its callers remember.       *)
TypeOK ==
  /\ slots \in [Index -> Elems \cup {Empty, Locked}]
  /\ seqPut \in Nat /\ seqGet \in Nat
  /\ pc \in [Threads -> Pc]
  /\ seq \in [Threads -> Nat]
  /\ cur \in [Threads -> Elems \cup {Empty, Locked}]
  /\ tries \in [Threads -> Nat]
  /\ lockIdx \in [Threads -> Index]
  /\ held \in [Threads -> SUBSET Elems]
  /\ gone \in SUBSET Elems

(* The two cursors never cross and never drift further apart than the      *)
(* ring, whatever mixture of threads moves them (a late compare-and-swap   *)
(* of either cursor must be harmless).                                     *)
Window == seqGet <= seqPut /\ seqPut - seqGet <= Size

(* No pooled object is ever in two hands: not in two slots, not owned by   *)
(* two threads, not in a slot while a thread uses it, not used after Clear *)
(* destructed it.                                                          *)
Exclusive ==
  /\ \A t1, t2 \in Threads : t1 # t2 => held[t1] \cap held[t2] = {}
  /\ \A i, j \in Index : slots[i] \in Elems /\ slots[i] = slots[j] => i = j
  /\ \A i \in Index, t \in Threads : slots[i] \notin held[t]
  /\ \A e \in gone : /\ \A t \in Threads : e \notin held[t]
                     /\ \A i \in Index : slots[i] # e

(* No pooled object is ever lost: it stays reachable through a slot, or    *)
(* through the thread that took it out, until Clear destructs it.          *)
NoneLost ==
  \A e \in Elems : \/ \E t \in Threads : e \in held[t]
                   \/ \E i \in Index : slots[i] = e
                   \/ e \in gone

(* ENSURE(pValue == E_LOCKED) in ReleaseLock never fires: a slot stays     *)
(* locked until the one thread that locked it releases it.                 *)
Holding(t) == pc[t] \in {"lock_done", "locked"}
LockOwned ==
  /\ \A t \in Threads : Holding(t) => slots[lockIdx[t]] = Locked
  /\ \A i \in Index : slots[i] = Locked =>
       \E t \in Threads : Holding(t) /\ lockIdx[t] = i
  /\ \A t1, t2 \in Threads :
       Holding(t1) /\ Holding(t2) /\ lockIdx[t1] = lockIdx[t2] => t1 = t2

(* What makes them inductive: what a call remembers between two steps.     *)
PutMemory(t) ==
  /\ pc[t] \in PutSteps => cur[t] \in held[t]
  /\ pc[t] \in {"put_space", "put_slot", "put_skip", "put_done"} => seq[t] <= seqPut
  /\ pc[t] \in {"put_slot", "put_skip", "put_done"} => seq[t] < seqGet + Size
GetMemory(t) ==
  /\ pc[t] \in GetSteps \cup LockSteps => seq[t] < seqPut
  /\ pc[t] \in {"get_cas", "lock_cas"} => cur[t] \in Elems
  /\ Holding(t) => cur[t] \in held[t]

IInv ==
  /\ TypeOK /\ Window /\ Exclusive /\ NoneLost /\ LockOwned
  /\ \A t \in Threads : PutMemory(t) /\ GetMemory(t)
=============================================================================
