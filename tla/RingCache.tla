----------------------------- MODULE RingCache -----------------------------
(***************************************************************************)
(* CRingCache2<T, CONNID, true> (common/RingBuffer.h): m_bfActiveSockets,  *)
(* the table that hands out connection ids and resolves them.              *)
(*                                                                         *)
(* The id of a connection is its slot plus the slot's generation times the *)
(* size, so that an id that was removed stops resolving although its slot  *)
(* is used again.  A thread that accepts or connects takes an id with      *)
(* AcquireLock and gives the slot its object, or frees it, with            *)
(* ReleaseLock; whoever invalidates the object (TSocketObj::               *)
(* InvalidSocketObj lets one thread win) calls Remove; any thread may call *)
(* Get at any time with any id.  The object of a connection is represented *)
(* by the id it was published under.                                       *)
(***************************************************************************)
EXTENDS Integers, FiniteSets

CONSTANTS
  Threads,    (* the calling threads                                       *)
  Size,       (* m_dwSize                                                  *)
  Gens,       (* values of a BYTE of m_px: 256                             *)
  SeqMod,     (* values of m_dwCurSeq: 2^32                                *)
  Empty,      (* E_EMPTY                                                   *)
  Locked      (* E_LOCKED                                                  *)

ASSUME ThreadsAssumption == IsFiniteSet(Threads)
ASSUME SizeAssumption == Size \in Nat \ {0}
ASSUME GensAssumption == Gens \in Nat \ {0, 1} /\ SeqMod \in Nat \ {0, 1}

Index == 0 .. Size - 1
Ids   == 0 .. Size * Gens - 1
NoId  == -1
Slot(id) == id % Size
Gen(id)  == id \div Size

ASSUME StatusAssumption == Empty \notin Int /\ Locked \notin Int /\ Empty # Locked

VARIABLES
  slots,      (* m_pv                                                      *)
  gen,        (* m_px                                                      *)
  count,      (* m_dwCount                                                 *)
  curSeq,     (* m_dwCurSeq                                                *)
  indexes,    (* m_indexes                                                 *)
  live,       (* ids published and not invalidated yet                     *)
  known,      (* ids an application has been told so far                   *)
  pc,         (* where each thread is                                      *)
  seq,        (* dwCurSeq of its Put                                       *)
  myId        (* the id its call is about                                  *)

vars == <<slots, gen, count, curSeq, indexes, live, known, pc, seq, myId>>
table == <<slots, gen, count, curSeq, indexes>>

PutPc == {"put_space", "put_seq", "put_cas", "put_skip", "put_inc", "put_adv", "put_id"}
ReleasePc == {"locked", "pub_index", "drop_dec", "drop_gen", "drop_empty"}
RemovePc == {"rem_get", "rem_erase", "rem_dec", "rem_gen", "rem_empty"}
GetPc == {"get_check", "get_read", "got"}
Pc == {"idle", "refused", "bad_release"} \cup PutPc \cup ReleasePc \cup RemovePc \cup GetPc

At(t, p)   == pc[t] = p
Goto(t, p) == pc' = [pc EXCEPT ![t] = p]
Step(t, from, to) == At(t, from) /\ Goto(t, to)

Init ==
  /\ slots = [i \in Index |-> Empty]
  /\ gen   = [i \in Index |-> 0]
  /\ count = 0 /\ curSeq = 0
  /\ indexes = {} /\ live = {} /\ known = {}
  /\ pc    = [t \in Threads |-> "idle"]
  /\ seq   = [t \in Threads |-> 0]
  /\ myId  = [t \in Threads |-> NoId]

-----------------------------------------------------------------------------
(* AcquireLock(dwIndex): Put(E_LOCKED, dwIndex).                           *)

AcquireStart(t) ==
  /\ Step(t, "idle", "put_space")
  /\ UNCHANGED <<table, live, known, seq, myId>>

HasSpace == count < Size

PutCheckSpace(t) ==
  /\ At(t, "put_space")
  /\ Goto(t, IF HasSpace THEN "put_seq" ELSE "idle")
  /\ UNCHANGED <<table, live, known, seq, myId>>

PutReadSeq(t) ==
  /\ Step(t, "put_seq", "put_cas")
  /\ seq' = [seq EXCEPT ![t] = curSeq]
  /\ UNCHANGED <<table, live, known, myId>>

(* A bug to be caught: a store for the compare-and-swap.                   *)
PutStore(t) ==
  /\ At(t, "put_cas")
  /\ slots' = [slots EXCEPT ![Slot(seq[t])] = Locked]
  /\ Goto(t, "put_inc")
  /\ UNCHANGED <<gen, count, curSeq, indexes, live, known, seq, myId>>

(* pValue == E_EMPTY and the compare-and-swap that expects it.             *)
PutCas(t) ==
  /\ At(t, "put_cas")
  /\ IF slots[Slot(seq[t])] = Empty
     THEN slots' = [slots EXCEPT ![Slot(seq[t])] = Locked] /\ Goto(t, "put_inc")
     ELSE Goto(t, "put_skip") /\ UNCHANGED slots
  /\ UNCHANGED <<gen, count, curSeq, indexes, live, known, seq, myId>>

AdvanceSeq(t) == curSeq' = IF curSeq = seq[t] THEN (seq[t] + 1) % SeqMod ELSE curSeq

PutSkip(t) ==
  /\ Step(t, "put_skip", "put_space")
  /\ AdvanceSeq(t)
  /\ seq' = [seq EXCEPT ![t] = 0]
  /\ UNCHANGED <<slots, gen, count, indexes, live, known, myId>>

PutCount(t) ==
  /\ Step(t, "put_inc", "put_adv")
  /\ count' = count + 1
  /\ UNCHANGED <<slots, gen, curSeq, indexes, live, known, seq, myId>>

PutAdvance(t) ==
  /\ Step(t, "put_adv", "put_id")
  /\ AdvanceSeq(t)
  /\ UNCHANGED <<slots, gen, count, indexes, live, known, seq, myId>>

(* INDEX_R2V: the id carries the slot's generation of this moment.         *)
PutMakeId(t) ==
  /\ Step(t, "put_id", "locked")
  /\ myId' = [myId EXCEPT ![t] = Slot(seq[t]) + gen[Slot(seq[t])] * Size]
  /\ seq'  = [seq EXCEPT ![t] = 0]
  /\ UNCHANGED <<table, live, known>>

-----------------------------------------------------------------------------
(* INDEX_V2R: does the id's generation match its slot's?                   *)
Resolves(id) == gen[Slot(id)] = Gen(id)

(* ReleaseLock checks that the slot is E_LOCKED; VERIFY and ENSURE of the  *)
(* callers abort the program otherwise.                                    *)
ReleaseOk(t) == Resolves(myId[t]) /\ slots[Slot(myId[t])] = Locked

(* ReleaseLock(dwIndex, pElement): the value first, then the index set.    *)
Publish(t) ==
  /\ At(t, "locked")
  /\ IF ReleaseOk(t)
     THEN /\ slots' = [slots EXCEPT ![Slot(myId[t])] = myId[t]]
          /\ Goto(t, "pub_index")
     ELSE Goto(t, "bad_release") /\ UNCHANGED slots
  /\ UNCHANGED <<gen, count, curSeq, indexes, live, known, seq, myId>>

PublishIndex(t) ==
  /\ Step(t, "pub_index", "idle")
  /\ indexes' = indexes \cup {myId[t]}
  /\ live'    = live \cup {myId[t]}
  /\ known'   = known \cup {myId[t]}
  /\ myId'    = [myId EXCEPT ![t] = NoId]
  /\ UNCHANGED <<slots, gen, count, curSeq, seq>>

(* A bug to be caught: m_dwCount left alone by a refusal.                  *)
DropUncounted(t) ==
  /\ At(t, "locked")
  /\ Goto(t, IF ReleaseOk(t) THEN "drop_gen" ELSE "bad_release")
  /\ UNCHANGED <<table, live, known, seq, myId>>

(* ReleaseLock(dwIndex, nullptr): OnPrepareConnect or connect() refused.   *)
Drop(t) ==
  /\ At(t, "locked")
  /\ Goto(t, IF ReleaseOk(t) THEN "drop_dec" ELSE "bad_release")
  /\ UNCHANGED <<table, live, known, seq, myId>>

Decrement(t, from, to) ==
  /\ Step(t, from, to)
  /\ count' = count - 1
  /\ UNCHANGED <<slots, gen, curSeq, indexes, live, known, seq, myId>>

NextGen(t, from, to) ==
  /\ Step(t, from, to)
  /\ gen' = [gen EXCEPT ![Slot(myId[t])] = (@ + 1) % Gens]
  /\ UNCHANGED <<slots, count, curSeq, indexes, live, known, seq, myId>>

SetEmpty(t, from, to) ==
  /\ Step(t, from, to)
  /\ slots' = [slots EXCEPT ![Slot(myId[t])] = Empty]
  /\ myId'  = [myId EXCEPT ![t] = NoId]
  /\ UNCHANGED <<gen, count, curSeq, indexes, live, known, seq>>

-----------------------------------------------------------------------------
(* Remove(dwIndex), by the thread that won InvalidSocketObj.               *)

RemoveStart(t, id) ==
  /\ id \in live
  /\ Step(t, "idle", "rem_get")
  /\ live' = live \ {id}
  /\ myId' = [myId EXCEPT ![t] = id]
  /\ UNCHANGED <<table, known, seq>>

RemoveGet(t) ==
  /\ At(t, "rem_get")
  /\ Goto(t, IF Resolves(myId[t]) /\ slots[Slot(myId[t])] # Empty
             THEN "rem_erase" ELSE "refused")
  /\ UNCHANGED <<table, live, known, seq, myId>>

(* A bug to be caught: the slot number erased, not the id.                 *)
RemoveEraseSlot(t) ==
  /\ Step(t, "rem_erase", "rem_dec")
  /\ indexes' = indexes \ {Slot(myId[t])}
  /\ UNCHANGED <<slots, gen, count, curSeq, live, known, seq, myId>>

RemoveErase(t) ==
  /\ Step(t, "rem_erase", "rem_dec")
  /\ indexes' = indexes \ {myId[t]}
  /\ UNCHANGED <<slots, gen, count, curSeq, live, known, seq, myId>>

-----------------------------------------------------------------------------
(* Get(dwIndex, &pElement): the generation is checked before the value is  *)
(* read.  myId keeps the id asked for, seq what was read.                  *)

GetStart(t, id) ==
  /\ Step(t, "idle", "get_check")
  /\ myId' = [myId EXCEPT ![t] = id]
  /\ UNCHANGED <<table, live, known, seq>>

GetCheck(t) ==
  /\ At(t, "get_check")
  /\ IF Resolves(myId[t])
     THEN Goto(t, "get_read") /\ UNCHANGED myId
     ELSE Goto(t, "idle") /\ myId' = [myId EXCEPT ![t] = NoId]
  /\ UNCHANGED <<table, live, known, seq>>

GetRead(t) ==
  /\ At(t, "get_read")
  /\ IF slots[Slot(myId[t])] \in Ids
     THEN /\ seq' = [seq EXCEPT ![t] = slots[Slot(myId[t])]]
          /\ Goto(t, "got") /\ UNCHANGED myId
     ELSE Goto(t, "idle") /\ myId' = [myId EXCEPT ![t] = NoId] /\ UNCHANGED seq
  /\ UNCHANGED <<table, live, known>>

GetDone(t) ==
  /\ Step(t, "got", "idle")
  /\ seq'  = [seq EXCEPT ![t] = 0]
  /\ myId' = [myId EXCEPT ![t] = NoId]
  /\ UNCHANGED <<table, live, known>>

AcquireLock(t) ==
  \/ AcquireStart(t) \/ PutCheckSpace(t) \/ PutReadSeq(t) \/ PutCas(t)
  \/ PutSkip(t) \/ PutCount(t) \/ PutAdvance(t) \/ PutMakeId(t)

ReleaseLock(t) ==
  \/ Publish(t) \/ PublishIndex(t)
  \/ Drop(t)
  \/ Decrement(t, "drop_dec", "drop_gen")
  \/ NextGen(t, "drop_gen", "drop_empty")
  \/ SetEmpty(t, "drop_empty", "idle")

Remove(t) ==
  \/ \E id \in live : RemoveStart(t, id)
  \/ RemoveGet(t) \/ RemoveErase(t)
  \/ Decrement(t, "rem_dec", "rem_gen")
  \/ NextGen(t, "rem_gen", "rem_empty")
  \/ SetEmpty(t, "rem_empty", "idle")

Get(t) ==
  \/ \E id \in known : GetStart(t, id)
  \/ GetCheck(t) \/ GetRead(t) \/ GetDone(t)

Next == \E t \in Threads : AcquireLock(t) \/ ReleaseLock(t) \/ Remove(t) \/ Get(t)

Spec == Init /\ [][Next]_vars

-----------------------------------------------------------------------------
(* The types of the table's members and of what its callers remember.      *)
TypeOK ==
  /\ slots \in [Index -> {Empty, Locked} \cup Ids]
  /\ gen \in [Index -> 0 .. Gens - 1]
  /\ count \in Int /\ curSeq \in 0 .. SeqMod - 1
  /\ indexes \subseteq Ids /\ live \subseteq known /\ known \subseteq Ids
  /\ pc \in [Threads -> Pc]
  /\ seq \in [Threads -> Nat]
  /\ myId \in [Threads -> Ids \cup {NoId}]

(* The threads that own an id: they locked it, or are removing it.         *)
OwnerPc == ReleasePc \cup RemovePc
Owner(t) == pc[t] \in OwnerPc

(* Two connections that exist at the same time never share an id: not two  *)
(* being opened, not one being opened and one published, not one that is   *)
(* still being removed and the next one in its slot.                       *)
IdsDistinct ==
  /\ \A t, u \in Threads : Owner(t) /\ Owner(u) /\ myId[t] = myId[u] => t = u
  /\ \A t \in Threads : Owner(t) => myId[t] \notin live

(* An id that exists resolves, so that neither VERIFY(ReleaseLock(...))    *)
(* nor Remove can fail, whatever the other threads do.                     *)
NeverRefused == \A t \in Threads : pc[t] \notin {"refused", "bad_release"}

(* ASSERT(Spaces() <= Size()): the counter, which moves before or after    *)
(* its slot does, never leaves 0 .. Size, and is exact when no thread is   *)
(* between the two: free slots are not forgotten.                          *)
GivenUpPc == {"drop_gen", "drop_empty", "rem_gen", "rem_empty"}

Occupied(pv)  == {i \in Index : pv[i] # Empty}
Uncounted(at) == {t \in Threads : at[t] = "put_inc"}
GivenUp(at)   == {t \in Threads : at[t] \in GivenUpPc}

CountExact ==
  /\ count \in 0 .. Size
  /\ count = Cardinality(Occupied(slots))
             - Cardinality(Uncounted(pc)) - Cardinality(GivenUp(pc))

(* Elements(), on which Stop() waits, and GetAllElementIndexes() name the  *)
(* published ids: all of the live ones and none that nobody will remove.   *)
IndexesExact ==
  /\ live \subseteq indexes
  /\ \A id \in indexes \ live :
       \E t \in Threads : myId[t] = id /\ pc[t] \in {"rem_get", "rem_erase"}

(* A live id always resolves to its own object.                            *)
LiveResolves == \A id \in live : Resolves(id) /\ slots[Slot(id)] = id

(* What Get returns for an id was published under that id.                 *)
GetOwnObject == \A t \in Threads : pc[t] = "got" => seq[t] = myId[t]

-----------------------------------------------------------------------------
(* The inductive invariant: every thread inside a call that locked a slot  *)
(* holds that slot, from its compare-and-swap to the last store.           *)

PuttingPc == {"put_inc", "put_adv", "put_id"}
Holding(t) == pc[t] \in PuttingPc \cup OwnerPc
Held(t)    == IF pc[t] \in PuttingPc THEN Slot(seq[t]) ELSE Slot(myId[t])

(* A held slot is E_LOCKED until it is published, and has its object from  *)
(* then on.                                                                *)
HeldValue(t) == IF pc[t] \in RemovePc \cup {"pub_index"} THEN myId[t] ELSE Locked

SlotsHeld == \A t \in Threads : Holding(t) => slots[Held(t)] = HeldValue(t)

HoldersDistinct ==
  /\ \A t, u \in Threads : Holding(t) /\ Holding(u) /\ Held(t) = Held(u) => t = u
  /\ \A t \in Threads : Holding(t) => \A id \in live : Held(t) # Slot(id)

(* The id of an owner resolves until it advances the generation itself.    *)
OwnersResolve ==
  \A t \in Threads : Owner(t) =>
     /\ myId[t] \in Ids
     /\ pc[t] \in {"drop_empty", "rem_empty"} \/ Resolves(myId[t])

IInv ==
  /\ TypeOK /\ SlotsHeld /\ HoldersDistinct /\ OwnersResolve
  /\ NeverRefused /\ LiveResolves /\ IndexesExact
=============================================================================
