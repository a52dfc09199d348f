-------------------------- MODULE RingCacheProofs --------------------------
(***************************************************************************)
(* Theorems about RingCache: whatever the number of threads, slots and     *)
(* generations, an id that exists is no other's, resolves to its own       *)
(* object, and can be published, refused and removed without an abort.     *)
(***************************************************************************)
EXTENDS MCRingCache, FiniteSetTheorems, FunctionTheorems, TLAPS

-----------------------------------------------------------------------------
(* Ids: the slot of a number is a slot, and an id made of a slot and a     *)
(* generation gives both back.                                             *)

LEMMA SlotOfNumber ==
  ASSUME NEW n \in Nat
  PROVE  Slot(n) \in Index
BY SizeAssumption, SMT DEF Slot, Index

LEMMA SlotOfId ==
  ASSUME NEW id \in Ids
  PROVE  Slot(id) \in Index /\ id \in Nat
<1>1. id \in Nat
  BY DEF Ids
<1> QED BY <1>1, SlotOfNumber

LEMMA MadeId ==
  ASSUME NEW s \in Index, NEW g \in 0 .. Gens - 1
  PROVE  s + g * Size \in Ids
<1> DEFINE made == g * Size
           last == (Gens - 1) * Size
           all  == Size * Gens
<1>1. made <= last /\ made \in Nat
  BY SizeAssumption, GensAssumption, SMT
<1>2. last = all - Size
  BY SizeAssumption, GensAssumption, SMT
<1>3. all \in Nat
  BY SizeAssumption, GensAssumption, SMT
<1> HIDE DEF made, last, all
<1>4. s + made \in 0 .. all - 1
  BY <1>1, <1>2, <1>3, SizeAssumption DEF Index
<1> QED BY <1>4 DEF Ids, made, all

LEMMA MadeSlot ==
  ASSUME NEW s \in Index, NEW g \in 0 .. Gens - 1
  PROVE  Slot(s + g * Size) = s /\ Gen(s + g * Size) = g
<1>1. ASSUME NEW z \in Nat \ {0}, NEW r \in 0 .. z - 1, NEW k \in Nat
      PROVE  (r + k * z) % z = r /\ (r + k * z) \div z = k
  BY <1>1, SMTT(30)
<1> QED BY <1>1, SizeAssumption DEF Slot, Gen, Index

-----------------------------------------------------------------------------
(* Places in the code.                                                     *)
LEMMA PcFacts ==
  /\ PuttingPc \cap OwnerPc = {}
  /\ PuttingPc \cup OwnerPc \subseteq Pc
  /\ OwnerPc = ReleasePc \cup RemovePc
BY DEF PuttingPc, OwnerPc, ReleasePc, RemovePc, Pc, PutPc

(* What a thread that stays where it is remembers does not change.         *)
OthersStay(t) ==
  \A u \in Threads \ {t} : pc'[u] = pc[u] /\ seq'[u] = seq[u] /\ myId'[u] = myId[u]

LEMMA Stays ==
  ASSUME NEW t \in Threads, OthersStay(t), NEW u \in Threads \ {t}
  PROVE  /\ Holding(u)' = Holding(u) /\ Held(u)' = Held(u)
         /\ HeldValue(u)' = HeldValue(u) /\ Owner(u)' = Owner(u)
         /\ pc'[u] = pc[u] /\ myId'[u] = myId[u]
BY DEF OthersStay, Holding, Held, HeldValue, Owner

LEMMA HeldIsIndex ==
  ASSUME TypeOK, OwnersResolve, NEW t \in Threads, Holding(t)
  PROVE  Held(t) \in Index
<1>1. CASE pc[t] \in PuttingPc
  BY <1>1, SlotOfNumber DEF Held, TypeOK
<1>2. CASE pc[t] \notin PuttingPc
  <2>1. Owner(t)
    BY <1>2 DEF Holding, Owner
  <2> QED BY <1>2, <2>1, SlotOfId DEF Held, OwnersResolve
<1> QED BY <1>1, <1>2

(* A step of t preserves the invariant when it leaves alone what the other *)
(* threads hold and keeps its own part.                                    *)
LEMMA LocalStep ==
  ASSUME IInv, TypeOK', NEW t \in Threads, OthersStay(t),
         \A u \in Threads \ {t} : Holding(u) =>
            /\ slots'[Held(u)] = slots[Held(u)]
            /\ gen'[Held(u)] = gen[Held(u)]
            /\ \A id \in live' : Held(u) # Slot(id),
         Holding(t)' =>
            /\ slots'[Held(t)'] = HeldValue(t)'
            /\ \A u \in Threads \ {t} : Holding(u) => Held(u) # Held(t)'
            /\ \A id \in live' : Held(t)' # Slot(id),
         Owner(t)' =>
            /\ myId'[t] \in Ids
            /\ pc'[t] \in {"drop_empty", "rem_empty"} \/ Resolves(myId[t])',
         pc'[t] \notin {"refused", "bad_release"},
         LiveResolves', IndexesExact'
  PROVE  IInv'
<1>1. SlotsHeld'
  <2> SUFFICES ASSUME NEW u \in Threads, Holding(u)'
               PROVE  slots'[Held(u)'] = HeldValue(u)'
    BY DEF SlotsHeld
  <2>1. CASE u = t
    BY <2>1
  <2>2. CASE u # t
    BY <2>2, Stays DEF IInv, SlotsHeld
  <2> QED BY <2>1, <2>2
<1>2. HoldersDistinct'
  <2>1. ASSUME NEW u \in Threads, NEW v \in Threads, Holding(u)', Holding(v)',
               Held(u)' = Held(v)'
        PROVE  u = v
    <3>1. CASE u # t /\ v # t
      BY <2>1, <3>1, Stays DEF IInv, HoldersDistinct
    <3>2. CASE u = t /\ v # t
      BY <2>1, <3>2, Stays
    <3>3. CASE u # t /\ v = t
      BY <2>1, <3>3, Stays
    <3> QED BY <3>1, <3>2, <3>3
  <2>2. ASSUME NEW u \in Threads, Holding(u)', NEW id \in live'
        PROVE  Held(u)' # Slot(id)
    <3>1. CASE u = t
      BY <2>2, <3>1
    <3>2. CASE u # t
      BY <2>2, <3>2, Stays
    <3> QED BY <3>1, <3>2
  <2> QED BY <2>1, <2>2 DEF HoldersDistinct
<1>3. OwnersResolve'
  <2> SUFFICES ASSUME NEW u \in Threads, Owner(u)'
               PROVE  /\ myId'[u] \in Ids
                      /\ \/ pc'[u] \in {"drop_empty", "rem_empty"}
                         \/ Resolves(myId[u])'
    BY DEF OwnersResolve
  <2>1. CASE u = t
    BY <2>1
  <2>2. CASE u # t
    <3>1. Owner(u) /\ pc'[u] = pc[u] /\ myId'[u] = myId[u]
      BY <2>2, Stays
    <3>2. Holding(u) /\ Held(u) = Slot(myId[u])
      BY <3>1, PcFacts DEF Owner, Holding, Held
    <3>3. gen'[Slot(myId[u])] = gen[Slot(myId[u])]
      BY <2>2, <3>2
    <3> QED BY <3>1, <3>3 DEF IInv, OwnersResolve, Resolves
  <2> QED BY <2>1, <2>2
<1>4. NeverRefused'
  BY Stays DEF IInv, NeverRefused
<1> QED BY <1>1, <1>2, <1>3, <1>4 DEF IInv

(* A step that changes no slot, no generation and no set of ids preserves  *)
(* the invariant if its thread holds the same slot for the same purpose,   *)
(* or none.                                                                *)
LEMMA QuietStep ==
  ASSUME IInv, TypeOK', NEW t \in Threads, OthersStay(t),
         UNCHANGED <<slots, gen, indexes, live>>,
         \/ ~Holding(t)' /\ ~(pc[t] \in {"rem_get", "rem_erase"})
         \/ /\ Holding(t) /\ Holding(t)'
            /\ Held(t)' = Held(t) /\ HeldValue(t)' = HeldValue(t)
            /\ Owner(t)' = Owner(t) /\ myId'[t] = myId[t]
            /\ pc[t] \in {"drop_empty", "rem_empty"} => pc'[t] = pc[t]
            /\ pc[t] \in {"rem_get", "rem_erase"} => pc'[t] \in {"rem_get", "rem_erase"},
         pc'[t] \notin {"refused", "bad_release"}
  PROVE  IInv'
<1>1. LiveResolves'
  BY DEF IInv, LiveResolves, Resolves
<1>2. IndexesExact'
  <2> SUFFICES ASSUME NEW id \in indexes \ live
               PROVE  \E u \in Threads : /\ myId'[u] = id
                                         /\ pc'[u] \in {"rem_get", "rem_erase"}
    BY DEF IInv, IndexesExact
  <2>1. PICK u \in Threads : myId[u] = id /\ pc[u] \in {"rem_get", "rem_erase"}
    BY DEF IInv, IndexesExact
  <2>2. CASE u # t
    BY <2>1, <2>2, Stays
  <2>3. CASE u = t
    BY <2>1, <2>3
  <2> QED BY <2>2, <2>3
<1>3. Owner(t)' => Holding(t)'
  BY DEF Owner, Holding
<1>4. Owner(t)' =>
        /\ myId'[t] \in Ids
        /\ pc'[t] \in {"drop_empty", "rem_empty"} \/ Resolves(myId[t])'
  BY <1>3 DEF IInv, OwnersResolve, Resolves
<1>5. Holding(t)' => slots'[Held(t)'] = HeldValue(t)'
  BY DEF IInv, SlotsHeld
<1>6. Holding(t)' => \A u \in Threads \ {t} : Holding(u) => Held(u) # Held(t)'
  BY DEF IInv, HoldersDistinct
<1>7. \A u \in Threads : Holding(u) => \A id \in live' : Held(u) # Slot(id)
  BY DEF IInv, HoldersDistinct
<1>8. Holding(t)' => \A id \in live' : Held(t)' # Slot(id)
  BY <1>7
<1> QED BY <1>1, <1>2, <1>4, <1>5, <1>6, <1>7, <1>8, LocalStep

-----------------------------------------------------------------------------
(* Steps of AcquireLock.                                                   *)

LEMMA AcquireType ==
  ASSUME IInv, NEW t \in Threads, AcquireLock(t)
  PROVE  TypeOK' /\ OthersStay(t)
<1> USE DEF IInv, TypeOK, OthersStay, At, Goto, Step, table
<1>1. CASE AcquireStart(t)
  BY <1>1 DEF AcquireStart, Pc, PutPc
<1>2. CASE PutCheckSpace(t)
  BY <1>2 DEF PutCheckSpace, Pc, PutPc
<1>3. CASE PutReadSeq(t)
  BY <1>3 DEF PutReadSeq, Pc, PutPc
<1>4. CASE PutCas(t)
  BY <1>4, SlotOfNumber DEF PutCas, Pc, PutPc
<1>5. (seq[t] + 1) % SeqMod \in 0 .. SeqMod - 1
  BY GensAssumption, SMT
<1>6. CASE PutSkip(t)
  BY <1>6, <1>5 DEF PutSkip, AdvanceSeq, Pc, PutPc
<1>7. CASE PutCount(t)
  BY <1>7 DEF PutCount, Pc, PutPc
<1>8. CASE PutAdvance(t)
  BY <1>8, <1>5 DEF PutAdvance, AdvanceSeq, Pc, PutPc
<1>9. CASE PutMakeId(t)
  <2>1. gen[Slot(seq[t])] \in 0 .. Gens - 1 /\ Slot(seq[t]) \in Index
    BY SlotOfNumber
  <2>2. Slot(seq[t]) + gen[Slot(seq[t])] * Size \in Ids
    BY <2>1, MadeId
  <2> QED BY <1>9, <2>2 DEF PutMakeId, Pc, PutPc, ReleasePc
<1> QED BY <1>1, <1>2, <1>3, <1>4, <1>6, <1>7, <1>8, <1>9 DEF AcquireLock

(* A compare-and-swap that succeeds takes a slot that is nobody's.         *)
LEMMA PutCasTakes ==
  ASSUME IInv, TypeOK', NEW t \in Threads, OthersStay(t),
         PutCas(t), slots[Slot(seq[t])] = Empty
  PROVE  IInv'
<1> DEFINE s == Slot(seq[t])
<1>1. s \in Index
  BY SlotOfNumber DEF IInv, TypeOK
<1>2. /\ slots' = [slots EXCEPT ![s] = Locked]
      /\ UNCHANGED <<gen, indexes, live, myId, seq>>
      /\ pc[t] = "put_cas" /\ pc' = [pc EXCEPT ![t] = "put_inc"]
  BY DEF PutCas, At, Goto
<1>3. pc'[t] = "put_inc"
  BY <1>2 DEF IInv, TypeOK
<1>4. ~Owner(t)' /\ Held(t)' = s /\ HeldValue(t)' = Locked
  BY <1>2, <1>3 DEF Owner, OwnerPc, ReleasePc, RemovePc, Held, HeldValue, PuttingPc
<1>5. \A u \in Threads : Holding(u) => HeldValue(u) # Empty
  <2> TAKE u \in Threads
  <2>1. HeldValue(u) \in Int \/ HeldValue(u) = Locked
    BY DEF HeldValue, IInv, TypeOK, Ids, NoId
  <2> QED BY <2>1, StatusAssumption
<1>6. \A u \in Threads : Holding(u) => Held(u) # s
  BY <1>5 DEF IInv, SlotsHeld
<1>7. \A id \in live : Slot(id) # s /\ id \in Ids
  BY StatusAssumption DEF IInv, LiveResolves, TypeOK, Ids
<1>8. slots'[s] = Locked /\ \A i \in Index \ {s} : slots'[i] = slots[i]
  BY <1>1, <1>2 DEF IInv, TypeOK
<1> HIDE DEF s
<1>9. LiveResolves'
  BY <1>2, <1>7, <1>8, SlotOfId DEF IInv, LiveResolves, Resolves
<1>10. IndexesExact'
  BY <1>2, <1>3, Stays DEF IInv, IndexesExact
<1>11. \A u \in Threads \ {t} : Holding(u) =>
          /\ slots'[Held(u)] = slots[Held(u)] /\ gen'[Held(u)] = gen[Held(u)]
          /\ \A id \in live' : Held(u) # Slot(id)
  BY <1>2, <1>6, <1>8, HeldIsIndex DEF IInv, HoldersDistinct
<1> QED BY <1>2, <1>3, <1>4, <1>6, <1>7, <1>8, <1>9, <1>10, <1>11, LocalStep

(* The id made of a held slot and its generation resolves.                 *)
LEMMA PutMakesId ==
  ASSUME IInv, TypeOK', NEW t \in Threads, OthersStay(t), PutMakeId(t)
  PROVE  IInv'
<1> DEFINE s == Slot(seq[t])
           id == s + gen[s] * Size
<1>1. s \in Index /\ gen[s] \in 0 .. Gens - 1
  BY SlotOfNumber DEF IInv, TypeOK
<1>2. id \in Ids /\ Slot(id) = s /\ Gen(id) = gen[s]
  BY <1>1, MadeId, MadeSlot
<1>3. /\ UNCHANGED <<slots, gen, indexes, live>>
      /\ pc[t] = "put_id" /\ pc'[t] = "locked" /\ myId'[t] = id
  BY DEF PutMakeId, Step, At, Goto, table, IInv, TypeOK
<1> HIDE DEF s, id
<1>4. Holding(t) /\ Held(t) = s /\ HeldValue(t) = Locked
  BY <1>3 DEF Holding, Held, HeldValue, PuttingPc, RemovePc, s
<1>5. Held(t)' = s /\ HeldValue(t)' = Locked /\ Resolves(myId[t])'
  BY <1>2, <1>3 DEF Held, HeldValue, PuttingPc, RemovePc, Resolves
<1>6. LiveResolves'
  BY <1>3 DEF IInv, LiveResolves, Resolves
<1>7. IndexesExact'
  BY <1>3, Stays DEF IInv, IndexesExact
<1>8. \A u \in Threads : Holding(u) => \A i \in live' : Held(u) # Slot(i)
  BY <1>3 DEF IInv, HoldersDistinct
<1>9. \A u \in Threads \ {t} : Holding(u) => Held(u) # s
  BY <1>4 DEF IInv, HoldersDistinct
<1>10. slots'[s] = Locked
  BY <1>3, <1>4 DEF IInv, SlotsHeld
<1> QED BY <1>2, <1>3, <1>4, <1>5, <1>6, <1>7, <1>8, <1>9, <1>10, LocalStep

LEMMA AcquireInv ==
  ASSUME IInv, NEW t \in Threads, AcquireLock(t)
  PROVE  IInv'
<1>1. TypeOK' /\ OthersStay(t)
  BY AcquireType
<1>2. pc \in [Threads -> Pc] /\ seq \in [Threads -> Nat]
  BY DEF IInv, TypeOK
<1> USE DEF At, Goto, Step, table, Holding, OwnerPc, PuttingPc, ReleasePc, RemovePc
<1>3. CASE AcquireStart(t)
  BY <1>1, <1>2, <1>3, QuietStep DEF AcquireStart
<1>4. CASE PutCheckSpace(t)
  BY <1>1, <1>2, <1>4, QuietStep DEF PutCheckSpace
<1>5. CASE PutReadSeq(t)
  BY <1>1, <1>2, <1>5, QuietStep DEF PutReadSeq
<1>6. CASE PutCas(t) /\ slots[Slot(seq[t])] # Empty
  BY <1>1, <1>2, <1>6, QuietStep DEF PutCas
<1>7. CASE PutCas(t) /\ slots[Slot(seq[t])] = Empty
  BY <1>1, <1>2, <1>7, PutCasTakes
<1>8. CASE PutSkip(t)
  BY <1>1, <1>2, <1>8, QuietStep DEF PutSkip
<1>9. CASE PutCount(t)
  BY <1>1, <1>2, <1>9, QuietStep DEF PutCount, Held, HeldValue, Owner
<1>10. CASE PutAdvance(t)
  BY <1>1, <1>2, <1>10, QuietStep DEF PutAdvance, Held, HeldValue, Owner
<1>11. CASE PutMakeId(t)
  BY <1>1, <1>2, <1>11, PutMakesId
<1> QED
  BY <1>3, <1>4, <1>5, <1>6, <1>7, <1>8, <1>9, <1>10, <1>11 DEF AcquireLock

-----------------------------------------------------------------------------
(* Steps of ReleaseLock, Remove and Get.                                   *)

LEMMA OwnerType ==
  ASSUME IInv, NEW t \in Threads, ReleaseLock(t) \/ Remove(t) \/ Get(t)
  PROVE  TypeOK' /\ OthersStay(t)
<1> USE DEF IInv, TypeOK, OthersStay, At, Goto, Step, table
<1> USE DEF Pc, PutPc, ReleasePc, RemovePc, GetPc
<1>1. Owner(t) => myId[t] \in Ids /\ Slot(myId[t]) \in Index
  BY SlotOfId DEF OwnersResolve
<1>2. CASE Publish(t)
  BY <1>2, <1>1 DEF Publish, Owner, OwnerPc
<1>3. CASE PublishIndex(t)
  BY <1>3, <1>1 DEF PublishIndex, Owner, OwnerPc
<1>4. CASE Drop(t)
  BY <1>4 DEF Drop
<1>5. CASE Decrement(t, "drop_dec", "drop_gen") \/ Decrement(t, "rem_dec", "rem_gen")
  BY <1>5 DEF Decrement
<1>6. CASE NextGen(t, "drop_gen", "drop_empty") \/ NextGen(t, "rem_gen", "rem_empty")
  <2>1. \A g \in 0 .. Gens - 1 : (g + 1) % Gens \in 0 .. Gens - 1
    BY GensAssumption, SMT
  <2> QED BY <1>6, <1>1, <2>1 DEF NextGen, Owner, OwnerPc
<1>7. CASE SetEmpty(t, "drop_empty", "idle") \/ SetEmpty(t, "rem_empty", "idle")
  BY <1>7, <1>1 DEF SetEmpty, Owner, OwnerPc
<1>8. CASE \E id \in live : RemoveStart(t, id)
  BY <1>8 DEF RemoveStart
<1>9. CASE RemoveGet(t)
  BY <1>9 DEF RemoveGet
<1>10. CASE RemoveErase(t)
  BY <1>10 DEF RemoveErase
<1>11. CASE \E id \in known : GetStart(t, id)
  BY <1>11 DEF GetStart
<1>12. CASE GetCheck(t)
  BY <1>12 DEF GetCheck
<1>13. CASE GetRead(t)
  BY <1>13, SlotOfId DEF GetRead
<1>14. CASE GetDone(t)
  BY <1>14 DEF GetDone
<1> QED
  BY <1>2, <1>3, <1>4, <1>5, <1>6, <1>7, <1>8, <1>9, <1>10, <1>11, <1>12, <1>13,
     <1>14 DEF ReleaseLock, Remove, Get

(* What the thread that owns an id may count on.                           *)
LEMMA OwnerFacts ==
  ASSUME IInv, NEW t \in Threads, Owner(t)
  PROVE  /\ Holding(t) /\ Held(t) = Slot(myId[t])
         /\ myId[t] \in Ids /\ Slot(myId[t]) \in Index
         /\ slots[Slot(myId[t])] = HeldValue(t)
         /\ \A u \in Threads \ {t} : Holding(u) => Held(u) # Slot(myId[t])
         /\ \A id \in live : Slot(id) # Slot(myId[t])
<1>1. Holding(t) /\ Held(t) = Slot(myId[t])
  BY PcFacts DEF Owner, Holding, Held
<1>2. myId[t] \in Ids
  BY DEF IInv, OwnersResolve
<1>3. slots[Held(t)] = HeldValue(t)
  BY <1>1 DEF IInv, SlotsHeld
<1>4. \A u \in Threads \ {t} : Holding(u) => Held(u) # Held(t)
  BY <1>1 DEF IInv, HoldersDistinct
<1>5. \A id \in live : Slot(id) # Held(t)
  BY <1>1 DEF IInv, HoldersDistinct
<1> QED BY <1>1, <1>2, <1>3, <1>4, <1>5, SlotOfId

(* ReleaseLock with an object: the check succeeds.                         *)
LEMMA PublishInv ==
  ASSUME IInv, TypeOK', NEW t \in Threads, OthersStay(t), Publish(t)
  PROVE  IInv'
<1> DEFINE s == Slot(myId[t])
<1>1. pc[t] = "locked" /\ Owner(t)
  BY DEF Publish, At, Owner, OwnerPc, ReleasePc
<1>2. ReleaseOk(t)
  <2>1. slots[s] = Locked
    BY <1>1, OwnerFacts DEF HeldValue, RemovePc
  <2> QED BY <1>1, <2>1 DEF ReleaseOk, IInv, OwnersResolve
<1>3. /\ slots' = [slots EXCEPT ![s] = myId[t]] /\ pc'[t] = "pub_index"
      /\ UNCHANGED <<gen, indexes, live, myId>>
  BY <1>2 DEF Publish, Goto, IInv, TypeOK
<1>4. s \in Index
  BY <1>1, OwnerFacts
<1>5. slots'[s] = myId[t] /\ \A i \in Index \ {s} : slots'[i] = slots[i]
  BY <1>3, <1>4 DEF IInv, TypeOK
<1>6. Held(t)' = s /\ HeldValue(t)' = myId[t]
  BY <1>3 DEF Held, HeldValue, PuttingPc
<1>7. \A u \in Threads \ {t} : Holding(u) => Held(u) # s
  BY <1>1, OwnerFacts
<1>8. \A id \in live : Slot(id) # s /\ id \in Ids
  BY <1>1, OwnerFacts DEF IInv, TypeOK
<1>9. myId[t] \in Ids /\ Resolves(myId[t])'
  BY <1>2, <1>1, <1>3, OwnerFacts DEF ReleaseOk, Resolves
<1> HIDE DEF s
<1>10. LiveResolves'
  BY <1>3, <1>5, <1>8, SlotOfId DEF IInv, LiveResolves, Resolves
<1>11. IndexesExact'
  BY <1>1, <1>3, Stays DEF IInv, IndexesExact
<1>12. \A u \in Threads \ {t} : Holding(u) =>
          /\ slots'[Held(u)] = slots[Held(u)] /\ gen'[Held(u)] = gen[Held(u)]
          /\ \A id \in live' : Held(u) # Slot(id)
  BY <1>3, <1>5, <1>7, HeldIsIndex DEF IInv, HoldersDistinct
<1> QED BY <1>3, <1>5, <1>6, <1>7, <1>8, <1>9, <1>10, <1>11, <1>12, LocalStep

LEMMA PublishIndexInv ==
  ASSUME IInv, TypeOK', NEW t \in Threads, OthersStay(t), PublishIndex(t)
  PROVE  IInv'
<1>1. /\ pc[t] = "pub_index" /\ pc'[t] = "idle"
      /\ indexes' = indexes \cup {myId[t]} /\ live' = live \cup {myId[t]}
      /\ UNCHANGED <<slots, gen>>
  BY DEF PublishIndex, Step, At, Goto, IInv, TypeOK
<1>2. Owner(t) /\ HeldValue(t) = myId[t]
  BY <1>1 DEF Owner, OwnerPc, ReleasePc, HeldValue
<1>3. Resolves(myId[t]) /\ slots[Slot(myId[t])] = myId[t]
  BY <1>1, <1>2, OwnerFacts DEF IInv, OwnersResolve
<1>4. LiveResolves'
  BY <1>1, <1>3 DEF IInv, LiveResolves, Resolves
<1>5. IndexesExact'
  BY <1>1, Stays DEF IInv, IndexesExact
<1>6. ~Holding(t)' /\ ~Owner(t)'
  BY <1>1 DEF Holding, Owner, PuttingPc, OwnerPc, ReleasePc, RemovePc
<1>7. \A u \in Threads \ {t} : Holding(u) => \A id \in live' : Held(u) # Slot(id)
  BY <1>1, <1>2, OwnerFacts DEF IInv, HoldersDistinct
<1> QED BY <1>1, <1>4, <1>5, <1>6, <1>7, LocalStep

(* The owner advances the generation: its id, and no other, stops          *)
(* resolving.                                                              *)
LEMMA NextGenInv ==
  ASSUME IInv, TypeOK', NEW t \in Threads, OthersStay(t),
         \/ NextGen(t, "drop_gen", "drop_empty")
         \/ NextGen(t, "rem_gen", "rem_empty")
  PROVE  IInv'
<1> DEFINE s == Slot(myId[t])
<1>1. /\ pc[t] \in {"drop_gen", "rem_gen"}
      /\ pc[t] = "drop_gen" => pc'[t] = "drop_empty"
      /\ pc[t] = "rem_gen" => pc'[t] = "rem_empty"
      /\ UNCHANGED <<slots, indexes, live, myId>>
      /\ \A i \in Index \ {s} : gen'[i] = gen[i]
  BY DEF NextGen, Step, At, Goto, IInv, TypeOK
<1>2. Owner(t) /\ Owner(t)'
  BY <1>1 DEF Owner, OwnerPc, ReleasePc, RemovePc
<1>3. s \in Index /\ myId'[t] \in Ids
  BY <1>1, <1>2, OwnerFacts
<1>4. Held(t)' = s /\ HeldValue(t)' = HeldValue(t) /\ slots'[s] = HeldValue(t)
  BY <1>1, <1>2, OwnerFacts DEF Held, HeldValue, PuttingPc, RemovePc
<1>5. \A u \in Threads \ {t} : Holding(u) => Held(u) # s
  BY <1>2, OwnerFacts
<1>6. \A id \in live : Slot(id) # s /\ id \in Ids
  BY <1>2, OwnerFacts DEF IInv, TypeOK
<1> HIDE DEF s
<1>7. LiveResolves'
  BY <1>1, <1>6, SlotOfId DEF IInv, LiveResolves, Resolves
<1>8. IndexesExact'
  BY <1>1, Stays DEF IInv, IndexesExact
<1>9. \A u \in Threads \ {t} : Holding(u) =>
         /\ slots'[Held(u)] = slots[Held(u)] /\ gen'[Held(u)] = gen[Held(u)]
         /\ \A id \in live' : Held(u) # Slot(id)
  BY <1>1, <1>5, HeldIsIndex DEF IInv, HoldersDistinct
<1> QED BY <1>1, <1>3, <1>4, <1>5, <1>6, <1>7, <1>8, <1>9, LocalStep

(* The owner frees its slot.                                               *)
LEMMA SetEmptyInv ==
  ASSUME IInv, TypeOK', NEW t \in Threads, OthersStay(t),
         SetEmpty(t, "drop_empty", "idle") \/ SetEmpty(t, "rem_empty", "idle")
  PROVE  IInv'
<1> DEFINE s == Slot(myId[t])
<1>1. /\ pc[t] \in {"drop_empty", "rem_empty"} /\ pc'[t] = "idle"
      /\ UNCHANGED <<gen, indexes, live>>
      /\ \A i \in Index \ {s} : slots'[i] = slots[i]
  BY DEF SetEmpty, Step, At, Goto, IInv, TypeOK
<1>2. Owner(t)
  BY <1>1 DEF Owner, OwnerPc, ReleasePc, RemovePc
<1>3. \A u \in Threads \ {t} : Holding(u) => Held(u) # s
  BY <1>2, OwnerFacts
<1>4. \A id \in live : Slot(id) # s /\ id \in Ids
  BY <1>2, OwnerFacts DEF IInv, TypeOK
<1> HIDE DEF s
<1>5. LiveResolves'
  BY <1>1, <1>4, SlotOfId DEF IInv, LiveResolves, Resolves
<1>6. IndexesExact'
  BY <1>1, Stays DEF IInv, IndexesExact
<1>7. ~Holding(t)' /\ ~Owner(t)'
  BY <1>1 DEF Holding, Owner, PuttingPc, OwnerPc, ReleasePc, RemovePc
<1>8. \A u \in Threads \ {t} : Holding(u) =>
         /\ slots'[Held(u)] = slots[Held(u)] /\ gen'[Held(u)] = gen[Held(u)]
         /\ \A id \in live' : Held(u) # Slot(id)
  BY <1>1, <1>3, HeldIsIndex DEF IInv, HoldersDistinct
<1> QED BY <1>1, <1>5, <1>6, <1>7, <1>8, LocalStep

(* Invalidating an object hands its slot from the live ids to a thread.    *)
LEMMA RemoveStartInv ==
  ASSUME IInv, TypeOK', NEW t \in Threads, OthersStay(t),
         NEW id \in live, RemoveStart(t, id)
  PROVE  IInv'
<1>1. /\ pc[t] = "idle" /\ pc'[t] = "rem_get" /\ myId'[t] = id
      /\ live' = live \ {id} /\ UNCHANGED <<slots, gen, indexes>>
  BY DEF RemoveStart, Step, At, Goto, table, IInv, TypeOK
<1>2. id \in Ids /\ Resolves(id) /\ slots[Slot(id)] = id
  BY DEF IInv, LiveResolves, TypeOK
<1>3. Held(t)' = Slot(id) /\ HeldValue(t)' = id
  BY <1>1 DEF Held, HeldValue, PuttingPc, RemovePc
<1>4. \A u \in Threads : Holding(u) => \A i \in live : Held(u) # Slot(i)
  BY DEF IInv, HoldersDistinct
<1>5. \A i \in live' : Slot(i) # Slot(id)
  BY <1>1, <1>2 DEF IInv, LiveResolves
<1>6. LiveResolves'
  BY <1>1 DEF IInv, LiveResolves, Resolves
<1>7. IndexesExact'
  <2>1. \A i \in indexes \ live : \E u \in Threads \ {t} :
           myId[u] = i /\ pc[u] \in {"rem_get", "rem_erase"}
    BY <1>1 DEF IInv, IndexesExact
  <2> QED BY <1>1, <2>1, Stays DEF IInv, IndexesExact
<1>8. Resolves(myId[t])'
  BY <1>1, <1>2 DEF Resolves
<1> QED BY <1>1, <1>2, <1>3, <1>4, <1>5, <1>6, <1>7, <1>8, LocalStep

LEMMA RemoveEraseInv ==
  ASSUME IInv, TypeOK', NEW t \in Threads, OthersStay(t), RemoveErase(t)
  PROVE  IInv'
<1>1. /\ pc[t] = "rem_erase" /\ pc'[t] = "rem_dec"
      /\ indexes' = indexes \ {myId[t]} /\ UNCHANGED <<slots, gen, live, myId>>
  BY DEF RemoveErase, Step, At, Goto, IInv, TypeOK
<1>2. Owner(t) /\ Owner(t)'
  BY <1>1 DEF Owner, OwnerPc, RemovePc
<1>3. /\ Held(t)' = Slot(myId[t]) /\ HeldValue(t)' = HeldValue(t)
  BY <1>1 DEF Held, HeldValue, PuttingPc, RemovePc
<1>4. myId[t] \notin live
  BY <1>2, OwnerFacts
<1>5. LiveResolves'
  BY <1>1 DEF IInv, LiveResolves, Resolves
<1>6. IndexesExact'
  <2>1. \A i \in indexes' \ live : \E u \in Threads \ {t} :
           myId[u] = i /\ pc[u] \in {"rem_get", "rem_erase"}
    BY <1>1 DEF IInv, IndexesExact
  <2> QED BY <1>1, <1>4, <2>1, Stays DEF IInv, IndexesExact
<1>7. myId'[t] \in Ids /\ Resolves(myId[t])'
  BY <1>1, <1>2 DEF IInv, OwnersResolve, Resolves
<1>8. \A u \in Threads : Holding(u) => \A i \in live' : Held(u) # Slot(i)
  BY <1>1 DEF IInv, HoldersDistinct
<1>9. \A u \in Threads \ {t} : Holding(u) => Held(u) # Slot(myId[t])
  BY <1>2, OwnerFacts
<1>10. slots'[Slot(myId[t])] = HeldValue(t) /\ \A i \in live' : Slot(i) # Slot(myId[t])
  BY <1>1, <1>2, OwnerFacts
<1> QED BY <1>1, <1>3, <1>5, <1>6, <1>7, <1>8, <1>9, <1>10, LocalStep

(* The test of Remove succeeds.                                            *)
LEMMA RemoveGetFinds ==
  ASSUME IInv, NEW t \in Threads, RemoveGet(t)
  PROVE  pc' = [pc EXCEPT ![t] = "rem_erase"]
<1>1. pc[t] = "rem_get"
  BY DEF RemoveGet, At
<1>2. Owner(t) /\ HeldValue(t) = myId[t]
  BY <1>1 DEF Owner, OwnerPc, HeldValue, RemovePc
<1>3. Resolves(myId[t])
  BY <1>1, <1>2 DEF IInv, OwnersResolve
<1>4. myId[t] \in Int
  BY DEF IInv, TypeOK, Ids, NoId
<1>5. slots[Slot(myId[t])] # Empty
  BY <1>2, <1>4, OwnerFacts, StatusAssumption
<1> QED BY <1>1, <1>3, <1>5 DEF RemoveGet, Goto

LEMMA OwnerInv ==
  ASSUME IInv, NEW t \in Threads, ReleaseLock(t) \/ Remove(t) \/ Get(t)
  PROVE  IInv'
<1>1. TypeOK' /\ OthersStay(t)
  BY OwnerType
<1>2. pc \in [Threads -> Pc] /\ myId \in [Threads -> Ids \cup {NoId}]
  BY DEF IInv, TypeOK
<1>3. CASE Publish(t)
  BY <1>1, <1>3, PublishInv
<1>4. CASE PublishIndex(t)
  BY <1>1, <1>4, PublishIndexInv
<1>5. CASE NextGen(t, "drop_gen", "drop_empty") \/ NextGen(t, "rem_gen", "rem_empty")
  BY <1>1, <1>5, NextGenInv
<1>6. CASE SetEmpty(t, "drop_empty", "idle") \/ SetEmpty(t, "rem_empty", "idle")
  BY <1>1, <1>6, SetEmptyInv
<1>7. CASE \E id \in live : RemoveStart(t, id)
  BY <1>1, <1>7, RemoveStartInv
<1>8. CASE RemoveErase(t)
  BY <1>1, <1>8, RemoveEraseInv
<1> USE DEF At, Goto, Step, table, Holding, Held, HeldValue, Owner,
            OwnerPc, PuttingPc, ReleasePc, RemovePc
<1>9. CASE Drop(t)
  <2>1. pc[t] = "locked" /\ Owner(t)
    BY <1>9 DEF Drop
  <2>2. slots[Slot(myId[t])] = Locked
    BY <2>1, OwnerFacts
  <2>3. ReleaseOk(t)
    BY <2>1, <2>2 DEF ReleaseOk, IInv, OwnersResolve
  <2> QED BY <1>1, <1>2, <1>9, <2>1, <2>3, QuietStep DEF Drop
<1>10. CASE Decrement(t, "drop_dec", "drop_gen") \/ Decrement(t, "rem_dec", "rem_gen")
  BY <1>1, <1>2, <1>10, QuietStep DEF Decrement
<1>11. CASE RemoveGet(t)
  <2>1. pc[t] = "rem_get" /\ pc' = [pc EXCEPT ![t] = "rem_erase"]
    BY <1>11, RemoveGetFinds DEF RemoveGet
  <2>2. UNCHANGED <<slots, gen, indexes, live, myId, seq>>
    BY <1>11 DEF RemoveGet
  <2> QED BY <1>1, <1>2, <2>1, <2>2, QuietStep
<1>12. CASE \E id \in known : GetStart(t, id)
  BY <1>1, <1>2, <1>12, QuietStep DEF GetStart
<1>13. CASE GetCheck(t)
  BY <1>1, <1>2, <1>13, QuietStep DEF GetCheck
<1>14. CASE GetRead(t)
  BY <1>1, <1>2, <1>14, QuietStep DEF GetRead
<1>15. CASE GetDone(t)
  BY <1>1, <1>2, <1>15, QuietStep DEF GetDone
<1> QED
  BY <1>3, <1>4, <1>5, <1>6, <1>7, <1>8, <1>9, <1>10, <1>11, <1>12, <1>13, <1>14,
     <1>15 DEF ReleaseLock, Remove, Get

-----------------------------------------------------------------------------
(* IInv holds in every reachable state of every instance.                  *)
THEOREM CacheInvariance == Spec => []IInv
<1>1. Init => IInv
  <2> SUFFICES ASSUME Init PROVE IInv
    OBVIOUS
  <2>1. TypeOK
    BY SizeAssumption, GensAssumption DEF Init, TypeOK, Pc
  <2> QED
    BY <2>1 DEF Init, IInv, SlotsHeld, HoldersDistinct, OwnersResolve, NeverRefused,
       LiveResolves, IndexesExact, Holding, Owner, PuttingPc, OwnerPc, ReleasePc,
       RemovePc
<1>2. IInv /\ [Next]_vars => IInv'
  <2> SUFFICES ASSUME IInv, [Next]_vars PROVE IInv'
    OBVIOUS
  <2>1. CASE Next
    BY <2>1, AcquireInv, OwnerInv DEF Next
  <2>2. CASE UNCHANGED vars
    BY <2>2 DEF vars, IInv, TypeOK, SlotsHeld, HoldersDistinct, OwnersResolve,
       NeverRefused, LiveResolves, IndexesExact, Holding, Held, HeldValue, Owner,
       Resolves
  <2> QED BY <2>1, <2>2
<1> QED BY <1>1, <1>2, PTL DEF Spec

(* The members of the table and what the threads remember keep their       *)
(* types: a generation fits its BYTE, and a made id is an id.              *)
THEOREM CacheTypeOK == Spec => []TypeOK
BY CacheInvariance, PTL DEF IInv

(* No two connections that exist at the same time have the same id.        *)
THEOREM CacheIdsDistinct == Spec => []IdsDistinct
<1>1. IInv => IdsDistinct
  <2> SUFFICES ASSUME IInv PROVE IdsDistinct
    OBVIOUS
  <2>1. ASSUME NEW t \in Threads, NEW u \in Threads, Owner(t), Owner(u),
               myId[t] = myId[u]
        PROVE  t = u
    BY <2>1, OwnerFacts
  <2>2. ASSUME NEW t \in Threads, Owner(t)
        PROVE  myId[t] \notin live
    BY <2>2, OwnerFacts
  <2> QED BY <2>1, <2>2 DEF IdsDistinct
<1> QED BY <1>1, CacheInvariance, PTL

(* ReleaseLock and Remove of an id that exists never fail.                 *)
THEOREM CacheNeverRefused == Spec => []NeverRefused
BY CacheInvariance, PTL DEF IInv

(* A live id resolves to its own object.                                   *)
THEOREM CacheLiveResolves == Spec => []LiveResolves
BY CacheInvariance, PTL DEF IInv

(* The set of indexes names every live id, and besides them only ids that  *)
(* a thread is about to erase.                                             *)
THEOREM CacheIndexesExact == Spec => []IndexesExact
BY CacheInvariance, PTL DEF IInv

-----------------------------------------------------------------------------
(* m_dwCount.                                                              *)

(* How the three sets that m_dwCount is about change in a step.            *)
LEMMA OccupiedStep ==
  ASSUME NEW V, NEW pv \in [Index -> V], NEW s \in Index,
         NEW to, to = [pv EXCEPT ![s] = to[s]]
  PROVE  Occupied(to) =
           IF to[s] # Empty THEN Occupied(pv) \cup {s} ELSE Occupied(pv) \ {s}
<1>1. \A i \in Index \ {s} : to[i] = pv[i]
  OBVIOUS
<1> QED BY <1>1 DEF Occupied

LEMMA PcStep ==
  ASSUME NEW at \in [Threads -> Pc], NEW t \in Threads,
         NEW to, to = [at EXCEPT ![t] = to[t]]
  PROVE  /\ Uncounted(to) = IF to[t] = "put_inc"
                            THEN Uncounted(at) \cup {t} ELSE Uncounted(at) \ {t}
         /\ GivenUp(to) = IF to[t] \in GivenUpPc
                          THEN GivenUp(at) \cup {t} ELSE GivenUp(at) \ {t}
<1>1. \A u \in Threads \ {t} : to[u] = at[u]
  OBVIOUS
<1> QED BY <1>1 DEF Uncounted, GivenUp

LEMMA SetsFinite ==
  /\ \A pv : IsFiniteSet(Occupied(pv)) /\ Cardinality(Occupied(pv)) \in 0 .. Size
  /\ \A at : /\ IsFiniteSet(Uncounted(at)) /\ Cardinality(Uncounted(at)) \in Nat
             /\ IsFiniteSet(GivenUp(at)) /\ Cardinality(GivenUp(at)) \in Nat
<1>1. IsFiniteSet(Index) /\ Cardinality(Index) = Size
  BY SizeAssumption, FS_Interval DEF Index
<1>2. \A pv : Occupied(pv) \in SUBSET Index
  BY DEF Occupied
<1>3. \A at : Uncounted(at) \in SUBSET Threads /\ GivenUp(at) \in SUBSET Threads
  BY DEF Uncounted, GivenUp
<1> QED
  BY <1>1, <1>2, <1>3, ThreadsAssumption, SizeAssumption, FS_Subset, FS_CardinalityType

(* What a thread at p, and a slot with value v, weigh in the balance.      *)
Weight(p) == IF p \in GivenUpPc \cup {"put_inc"} THEN 1 ELSE 0
Full(v)   == IF v # Empty THEN 1 ELSE 0

LEMMA ThreadBalance ==
  ASSUME NEW at \in [Threads -> Pc], NEW t \in Threads,
         NEW to, to = [at EXCEPT ![t] = to[t]]
  PROVE  Cardinality(Uncounted(to)) + Cardinality(GivenUp(to)) =
           Cardinality(Uncounted(at)) + Cardinality(GivenUp(at))
             + Weight(to[t]) - Weight(at[t])
<1> DEFINE U == Uncounted(at)
           V == Uncounted(to)
           G == GivenUp(at)
           H == GivenUp(to)
<1>1. /\ IsFiniteSet(U) /\ Cardinality(U) \in Nat
      /\ IsFiniteSet(G) /\ Cardinality(G) \in Nat
  BY SetsFinite
<1>2. (t \in U <=> at[t] = "put_inc") /\ (t \in G <=> at[t] \in GivenUpPc)
  BY DEF Uncounted, GivenUp
<1>3. /\ V = IF to[t] = "put_inc" THEN U \cup {t} ELSE U \ {t}
      /\ H = IF to[t] \in GivenUpPc THEN G \cup {t} ELSE G \ {t}
  BY PcStep
<1> HIDE DEF U, V, G, H
<1>4. /\ Cardinality(U \cup {t}) = IF t \in U THEN Cardinality(U) ELSE Cardinality(U) + 1
      /\ Cardinality(U \ {t}) = IF t \in U THEN Cardinality(U) - 1 ELSE Cardinality(U)
      /\ Cardinality(G \cup {t}) = IF t \in G THEN Cardinality(G) ELSE Cardinality(G) + 1
      /\ Cardinality(G \ {t}) = IF t \in G THEN Cardinality(G) - 1 ELSE Cardinality(G)
  BY <1>1, FS_AddElement, FS_RemoveElement
<1>5. "put_inc" \notin GivenUpPc
  BY DEF GivenUpPc
<1>6. Cardinality(V) + Cardinality(H) =
        Cardinality(U) + Cardinality(G) + Weight(to[t]) - Weight(at[t])
  BY <1>1, <1>2, <1>3, <1>4, <1>5 DEF Weight
<1> QED BY <1>6 DEF U, V, G, H

LEMMA SlotBalance ==
  ASSUME NEW V, NEW pv \in [Index -> V], NEW s \in Index,
         NEW to, to = [pv EXCEPT ![s] = to[s]]
  PROVE  Cardinality(Occupied(to)) = Cardinality(Occupied(pv)) + Full(to[s]) - Full(pv[s])
<1> DEFINE Was == Occupied(pv)
           Is  == Occupied(to)
<1>1. IsFiniteSet(Was) /\ Cardinality(Was) \in Nat
  BY SetsFinite
<1>2. s \in Was <=> pv[s] # Empty
  BY DEF Occupied
<1>3. Is = IF to[s] # Empty THEN Was \cup {s} ELSE Was \ {s}
  BY OccupiedStep
<1> HIDE DEF Was, Is
<1>4. /\ Cardinality(Was \cup {s}) = IF s \in Was THEN Cardinality(Was) ELSE Cardinality(Was) + 1
      /\ Cardinality(Was \ {s}) = IF s \in Was THEN Cardinality(Was) - 1 ELSE Cardinality(Was)
  BY <1>1, FS_AddElement, FS_RemoveElement
<1>5. Cardinality(Is) = Cardinality(Was) + Full(to[s]) - Full(pv[s])
  BY <1>1, <1>2, <1>3, <1>4 DEF Full
<1> QED BY <1>5 DEF Was, Is

(* What m_dwCount must be.                                                 *)
Balance(pv, at) ==
  Cardinality(Occupied(pv)) - Cardinality(Uncounted(at)) - Cardinality(GivenUp(at))

LEMMA QuietBalance ==
  ASSUME IInv, NEW t \in Threads, pc' = [pc EXCEPT ![t] = pc'[t]], slots' = slots
  PROVE  Balance(slots', pc') = Balance(slots, pc) + Weight(pc[t]) - Weight(pc'[t])
<1>1. pc \in [Threads -> Pc]
  BY DEF IInv, TypeOK
<1>2. Cardinality(Uncounted(pc')) + Cardinality(GivenUp(pc')) =
        Cardinality(Uncounted(pc)) + Cardinality(GivenUp(pc))
          + Weight(pc'[t]) - Weight(pc[t])
  BY <1>1, ThreadBalance
<1>3. /\ Cardinality(Uncounted(pc)) \in Nat /\ Cardinality(Uncounted(pc')) \in Nat
      /\ Cardinality(GivenUp(pc)) \in Nat /\ Cardinality(GivenUp(pc')) \in Nat
      /\ Cardinality(Occupied(slots)) \in Int
  BY SetsFinite
<1>4. Weight(pc'[t]) \in Int /\ Weight(pc[t]) \in Int
  BY DEF Weight
<1> QED BY <1>2, <1>3, <1>4 DEF Balance

LEMMA StoreBalance ==
  ASSUME IInv, NEW t \in Threads, pc' = [pc EXCEPT ![t] = pc'[t]],
         NEW s \in Index, slots' = [slots EXCEPT ![s] = slots'[s]]
  PROVE  Balance(slots', pc') = Balance(slots, pc)
           + Full(slots'[s]) - Full(slots[s]) + Weight(pc[t]) - Weight(pc'[t])
<1> DEFINE now  == Cardinality(Uncounted(pc)) + Cardinality(GivenUp(pc))
           then == Cardinality(Uncounted(pc')) + Cardinality(GivenUp(pc'))
           here == Cardinality(Occupied(slots))
           next == Cardinality(Occupied(slots'))
<1>1. pc \in [Threads -> Pc] /\ slots \in [Index -> {Empty, Locked} \cup Ids]
  BY DEF IInv, TypeOK
<1>2. then = now + Weight(pc'[t]) - Weight(pc[t])
  BY <1>1, ThreadBalance
<1>3. next = here + Full(slots'[s]) - Full(slots[s])
  BY <1>1, SlotBalance
<1>4. /\ now \in Int /\ then \in Int /\ here \in Int /\ next \in Int
      /\ Balance(slots, pc) = here - now /\ Balance(slots', pc') = next - then
  BY SetsFinite DEF Balance
<1>5. /\ Weight(pc'[t]) \in Int /\ Weight(pc[t]) \in Int
      /\ Full(slots'[s]) \in Int /\ Full(slots[s]) \in Int
  BY DEF Weight, Full
<1> HIDE DEF now, then, here, next
<1> QED BY <1>2, <1>3, <1>4, <1>5

(* Every step moves m_dwCount by what it moves the balance by.             *)
LEMMA CountStep ==
  ASSUME IInv, NEW t \in Threads,
         AcquireLock(t) \/ ReleaseLock(t) \/ Remove(t) \/ Get(t)
  PROVE  count' - count = Balance(slots', pc') - Balance(slots, pc)
<1>1. /\ count \in Int /\ pc \in [Threads -> Pc]
      /\ slots \in [Index -> {Empty, Locked} \cup Ids]
  BY DEF IInv, TypeOK
<1>0. Balance(slots, pc) \in Int
  BY SetsFinite DEF Balance
<1>2. Weight("put_inc") = 1 /\ \A p : p \in GivenUpPc => Weight(p) = 1
  BY DEF Weight
<1>3. \A p : p \notin GivenUpPc /\ p # "put_inc" => Weight(p) = 0
  BY DEF Weight
<1>4. ASSUME pc' = [pc EXCEPT ![t] = pc'[t]], slots' = slots, count' = count,
             Weight(pc'[t]) = Weight(pc[t])
      PROVE  count' - count = Balance(slots', pc') - Balance(slots, pc)
  <2>1. Balance(slots', pc') = Balance(slots, pc) + Weight(pc[t]) - Weight(pc'[t])
    BY <1>4, QuietBalance
  <2>2. Weight(pc[t]) \in Int
    BY DEF Weight
  <2> QED BY <1>0, <1>1, <1>4, <2>1, <2>2
<1> USE <1>1 DEF At, Goto, Step, table, GivenUpPc
<1>5. CASE AcquireLock(t) /\ pc[t] \notin {"put_cas", "put_inc"}
  <2>1. CASE AcquireStart(t)
    BY <2>1, <1>3, <1>4 DEF AcquireStart
  <2>2. CASE PutCheckSpace(t)
    BY <2>2, <1>3, <1>4 DEF PutCheckSpace
  <2>3. CASE PutReadSeq(t)
    BY <2>3, <1>3, <1>4 DEF PutReadSeq
  <2>4. CASE PutSkip(t)
    BY <2>4, <1>3, <1>4 DEF PutSkip
  <2>5. CASE PutAdvance(t)
    BY <2>5, <1>3, <1>4 DEF PutAdvance
  <2>6. CASE PutMakeId(t)
    BY <2>6, <1>3, <1>4 DEF PutMakeId
  <2> QED BY <1>5, <2>1, <2>2, <2>3, <2>4, <2>5, <2>6
             DEF AcquireLock, PutCas, PutCount
<1>6. CASE PutCas(t)
  <2> DEFINE s == Slot(seq[t])
  <2>1. CASE slots[s] # Empty
    BY <1>6, <2>1, <1>3, <1>4 DEF PutCas
  <2>2. CASE slots[s] = Empty
    <3>1. /\ pc[t] = "put_cas" /\ pc' = [pc EXCEPT ![t] = "put_inc"]
          /\ slots' = [slots EXCEPT ![s] = Locked] /\ count' = count
      BY <1>6, <2>2 DEF PutCas
    <3>2. s \in Index
      BY SlotOfNumber DEF IInv, TypeOK
    <3>3. Full(Locked) = 1 /\ Full(slots[s]) = 0
      BY <2>2, StatusAssumption DEF Full
    <3>4. Weight(pc[t]) = 0
      BY <3>1, <1>3
    <3>5. /\ pc' = [pc EXCEPT ![t] = pc'[t]] /\ pc'[t] = "put_inc"
          /\ slots' = [slots EXCEPT ![s] = slots'[s]] /\ slots'[s] = Locked
      BY <3>1, <3>2
    <3>6. Balance(slots', pc') = Balance(slots, pc) + 1 - 0 + 0 - 1
      BY <1>2, <3>2, <3>3, <3>4, <3>5, StoreBalance
    <3> QED BY <1>0, <3>1, <3>6
  <2> QED BY <2>1, <2>2
<1>7. CASE PutCount(t)
  <2>1. pc[t] = "put_inc" /\ pc' = [pc EXCEPT ![t] = "put_adv"]
    BY <1>7 DEF PutCount
  <2>2. count' = count + 1 /\ slots' = slots
    BY <1>7 DEF PutCount
  <2>3. Weight(pc[t]) = 1 /\ Weight("put_adv") = 0
    BY <2>1, <1>2, <1>3
  <2>4. Balance(slots', pc') = Balance(slots, pc) + 1 - 0
    BY <2>1, <2>2, <2>3, QuietBalance
  <2> QED BY <1>0, <2>2, <2>4
<1>8. CASE Publish(t)
  <2> DEFINE s == Slot(myId[t])
  <2>1. pc[t] = "locked" /\ Owner(t)
    BY <1>8 DEF Publish, Owner, OwnerPc, ReleasePc
  <2>2. slots[s] = Locked /\ s \in Index /\ myId[t] \in Int
    BY <2>1, OwnerFacts, SlotOfId DEF HeldValue, RemovePc
  <2>3. ReleaseOk(t)
    BY <2>1, <2>2 DEF ReleaseOk, IInv, OwnersResolve
  <2>4. /\ pc' = [pc EXCEPT ![t] = "pub_index"]
        /\ slots' = [slots EXCEPT ![s] = myId[t]] /\ count' = count
    BY <1>8, <2>3 DEF Publish
  <2>5. Full(slots[s]) = 1 /\ Full(myId[t]) = 1
    BY <2>2, StatusAssumption DEF Full
  <2>6. Weight(pc[t]) = 0 /\ Weight("pub_index") = 0
    BY <2>1, <1>3
  <2>7. /\ pc' = [pc EXCEPT ![t] = pc'[t]] /\ pc'[t] = "pub_index"
        /\ slots' = [slots EXCEPT ![s] = slots'[s]] /\ slots'[s] = myId[t]
    BY <2>2, <2>4
  <2>8. Balance(slots', pc') = Balance(slots, pc) + 1 - 1 + 0 - 0
    BY <2>2, <2>5, <2>6, <2>7, StoreBalance
  <2> QED BY <1>0, <2>4, <2>8
<1>9. CASE PublishIndex(t)
  BY <1>9, <1>3, <1>4 DEF PublishIndex
<1>10. CASE Drop(t)
  BY <1>10, <1>3, <1>4 DEF Drop
<1>11. CASE Decrement(t, "drop_dec", "drop_gen") \/ Decrement(t, "rem_dec", "rem_gen")
  <2>1. PICK p \in {"drop_gen", "rem_gen"} :
           /\ pc[t] \in {"drop_dec", "rem_dec"} /\ pc' = [pc EXCEPT ![t] = p]
           /\ count' = count - 1 /\ slots' = slots
    BY <1>11 DEF Decrement
  <2>2. Weight(pc[t]) = 0 /\ Weight(p) = 1
    BY <2>1, <1>2, <1>3
  <2>3. Balance(slots', pc') = Balance(slots, pc) + 0 - 1
    BY <2>1, <2>2, QuietBalance
  <2> QED BY <1>0, <2>1, <2>3
<1>12. CASE NextGen(t, "drop_gen", "drop_empty") \/ NextGen(t, "rem_gen", "rem_empty")
  BY <1>12, <1>2, <1>4 DEF NextGen
<1>13. CASE SetEmpty(t, "drop_empty", "idle") \/ SetEmpty(t, "rem_empty", "idle")
  <2> DEFINE s == Slot(myId[t])
  <2>1. /\ pc[t] \in {"drop_empty", "rem_empty"} /\ pc' = [pc EXCEPT ![t] = "idle"]
        /\ slots' = [slots EXCEPT ![s] = Empty] /\ count' = count
    BY <1>13 DEF SetEmpty
  <2>2. Owner(t)
    BY <2>1 DEF Owner, OwnerPc, ReleasePc, RemovePc
  <2>3. s \in Index /\ slots[s] = HeldValue(t) /\ myId[t] \in Int
    BY <2>2, OwnerFacts, SlotOfId
  <2>4. Full(slots[s]) = 1 /\ Full(Empty) = 0
    BY <2>3, StatusAssumption DEF Full, HeldValue
  <2>5. Weight(pc[t]) = 1 /\ Weight("idle") = 0
    BY <2>1, <1>2, <1>3
  <2>6. /\ pc' = [pc EXCEPT ![t] = pc'[t]] /\ pc'[t] = "idle"
        /\ slots' = [slots EXCEPT ![s] = slots'[s]] /\ slots'[s] = Empty
    BY <2>1, <2>3
  <2>7. Balance(slots', pc') = Balance(slots, pc) + 0 - 1 + 1 - 0
    BY <2>3, <2>4, <2>5, <2>6, StoreBalance
  <2> QED BY <1>0, <2>1, <2>7
<1>14. CASE \E id \in live : RemoveStart(t, id)
  BY <1>14, <1>3, <1>4 DEF RemoveStart
<1>15. CASE RemoveGet(t)
  <2>1. pc[t] = "rem_get" /\ pc' = [pc EXCEPT ![t] = "rem_erase"]
    BY <1>15, RemoveGetFinds DEF RemoveGet
  <2> QED BY <2>1, <1>15, <1>3, <1>4 DEF RemoveGet
<1>16. CASE RemoveErase(t)
  BY <1>16, <1>3, <1>4 DEF RemoveErase
<1>17. CASE Get(t)
  BY <1>17, <1>3, <1>4 DEF Get, GetStart, GetCheck, GetRead, GetDone
<1> QED
  BY <1>5, <1>6, <1>7, <1>8, <1>9, <1>10, <1>11, <1>12, <1>13, <1>14, <1>15, <1>16,
     <1>17 DEF AcquireLock, ReleaseLock, Remove, AcquireStart, PutCheckSpace,
     PutReadSeq, PutSkip, PutAdvance, PutMakeId

(* A slot counted or about to be given up is one per thread.               *)
LEMMA BalanceBounds ==
  ASSUME IInv
  PROVE  Balance(slots, pc) \in 0 .. Size
<1> DEFINE U == Uncounted(pc)
           G == GivenUp(pc)
           O == Occupied(slots)
           f == [t \in U \cup G |-> Held(t)]
<1>1. \A t \in U \cup G : t \in Threads /\ Holding(t)
  BY DEF Uncounted, GivenUp, GivenUpPc, Holding, PuttingPc, OwnerPc, ReleasePc,
         RemovePc
<1>2. \A t \in U \cup G : Held(t) \in O
  <2> SUFFICES ASSUME NEW t \in U \cup G PROVE Held(t) \in O
    OBVIOUS
  <2>1. Held(t) \in Index /\ slots[Held(t)] = HeldValue(t)
    BY <1>1, HeldIsIndex DEF IInv, SlotsHeld
  <2>2. HeldValue(t) \in Int \/ HeldValue(t) = Locked
    BY <1>1 DEF HeldValue, IInv, TypeOK, Ids, NoId
  <2> QED BY <2>1, <2>2, StatusAssumption DEF Occupied
<1>3. \A t, u \in U \cup G : Held(t) = Held(u) => t = u
  BY <1>1 DEF IInv, HoldersDistinct
<1>4. /\ IsFiniteSet(U) /\ Cardinality(U) \in Nat
      /\ IsFiniteSet(G) /\ Cardinality(G) \in Nat
      /\ IsFiniteSet(O) /\ Cardinality(O) \in 0 .. Size
  BY SetsFinite
<1>5. U \cap G = {}
  BY DEF Uncounted, GivenUp, GivenUpPc
<1> HIDE DEF U, G, O
<1>6. f \in Injection(U \cup G, O)
  <2>1. f \in [U \cup G -> O]
    BY <1>2
  <2>2. \A t, u \in U \cup G : f[t] = f[u] => t = u
    BY <1>3
  <2> HIDE DEF f
  <2> QED BY <2>1, <2>2, Fun_IsInj
<1>7. Cardinality(U \cup G) <= Cardinality(O)
  BY <1>4, <1>6, FS_Injection
<1>8. Cardinality(U \cup G) = Cardinality(U) + Cardinality(G)
  BY <1>4, <1>5, FS_Union, FS_EmptySet
<1>9. Balance(slots, pc) = Cardinality(O) - Cardinality(U) - Cardinality(G)
  BY DEF Balance, O, U, G
<1> QED BY <1>4, <1>7, <1>8, <1>9, SizeAssumption

(* m_dwCount is the number of occupied slots but for the threads between   *)
(* a slot and its counter, and never leaves 0 .. Size.                     *)
THEOREM CacheCountExact == Spec => []CountExact
<1> DEFINE Counted == count = Balance(slots, pc)
<1>1. Init => Counted
  <2> SUFFICES ASSUME Init PROVE Counted
    OBVIOUS
  <2>1. Occupied(slots) = {} /\ Uncounted(pc) = {} /\ GivenUp(pc) = {} /\ count = 0
    BY DEF Init, Occupied, Uncounted, GivenUp, GivenUpPc
  <2> QED BY <2>1, FS_EmptySet DEF Balance
<1>2. IInv /\ Counted /\ [Next]_vars => Counted'
  <2> SUFFICES ASSUME IInv, Counted, [Next]_vars PROVE count' = Balance(slots', pc')
    BY DEF Balance, Occupied, Uncounted, GivenUp
  <2>1. CASE Next
    <3>1. PICK t \in Threads : AcquireLock(t) \/ ReleaseLock(t) \/ Remove(t) \/ Get(t)
      BY <2>1 DEF Next
    <3>2. count' - count = Balance(slots', pc') - Balance(slots, pc)
      BY <3>1, CountStep
    <3>3. count' \in Int /\ count \in Int /\ Balance(slots', pc') \in Int
      <4>1. count' \in Int /\ count \in Int
        BY <3>1, AcquireInv, OwnerInv DEF IInv, TypeOK
      <4> QED BY <4>1, SetsFinite DEF Balance
    <3> QED BY <3>2, <3>3
  <2>2. CASE UNCHANGED vars
    BY <2>2 DEF vars
  <2> QED BY <2>1, <2>2
<1>3. IInv /\ Counted => CountExact
  <2>1. Counted => count = Cardinality(Occupied(slots))
                           - Cardinality(Uncounted(pc)) - Cardinality(GivenUp(pc))
    BY DEF Balance
  <2> QED BY <2>1, BalanceBounds DEF CountExact
<1> HIDE DEF Counted
<1> QED BY <1>1, <1>2, <1>3, CacheInvariance, PTL DEF Spec

-----------------------------------------------------------------------------
(* The thread pool of the same run.                                        *)
PP == INSTANCE ThreadPoolProofs WITH count <- working

LEMMA SamePool ==
  (P!Init <=> PP!Init) /\ (P!Next <=> PP!Next) /\ (P!vars = PP!vars)
BY DEF P!Callers, PP!Callers, P!Limited, PP!Limited, P!Full, PP!Full, P!WaitsFor,
       PP!WaitsFor, P!WAt, PP!WAt, P!SAt, PP!SAt, P!CAt, PP!CAt, P!WGoto, PP!WGoto,
       P!SGoto, PP!SGoto, P!CGoto, PP!CGoto, P!Init, PP!Init, P!WakeSome, PP!WakeSome,
       P!NotifyTask, PP!NotifyTask, P!Accept, PP!Accept, P!Return, PP!Return, P!Submit,
       PP!Submit, P!Direct, PP!Direct, P!Cycle, PP!Cycle, P!Try, PP!Try, P!Timeout,
       PP!Timeout, P!Woken, PP!Woken, P!CallerRun, PP!CallerRun, P!Check, PP!Check,
       P!Run, PP!Run, P!Leave, PP!Leave, P!Notify, PP!Notify, P!After, PP!After,
       P!AdjEnter, PP!AdjEnter, P!AdjSpawn, PP!AdjSpawn, P!AdjCount, PP!AdjCount,
       P!AdjNotify, PP!AdjNotify, P!Adjust, PP!Adjust, P!Start, PP!Start, P!SetStarted,
       PP!SetStarted, P!AdjustThreadCount, PP!AdjustThreadCount, P!Stop, PP!Stop,
       P!StopCas2, PP!StopCas2, P!StopSpin, PP!StopSpin, P!Slept, PP!Slept, P!Release,
       PP!Release, P!SemTest, PP!SemTest, P!SemBlock, PP!SemBlock, P!Drain, PP!Drain,
       P!StopSteps, PP!StopSteps, P!SubmitSteps, PP!SubmitSteps, P!WorkerSteps,
       PP!WorkerSteps, P!Next, PP!Next, P!vars, PP!vars, P!setup, PP!setup, P!pool,
       PP!pool, P!worker, PP!worker, P!submit, PP!submit, P!ctl, PP!ctl, P!ghost,
       PP!ghost, P!Cardinality, PP!Cardinality

LEMMA PoolIsSound == PP!PoolAssumption
BY PoolAssumption DEF P!PoolAssumption, PP!PoolAssumption, P!IsFiniteSet, PP!IsFiniteSet,
   P!Cardinality, PP!Cardinality

LEMMA PoolHolds == PP!TypeOK /\ PP!AcceptedOnce => P!TypeOK /\ P!AcceptedOnce
BY DEF PP!TypeOK, P!TypeOK, PP!AcceptedOnce, P!AcceptedOnce, PP!Places, P!Places,
   P!Callers, PP!Callers, P!Cardinality, PP!Cardinality

(* A task that Submit() accepted is queued, in a worker's hands, run or    *)
(* destructed, in one of these places and once, and in none if Submit()    *)
(* said FALSE: under every policy, with timeouts, wherever Stop() comes.   *)
THEOREM ThreadsAcceptOnce == MCSpec => []AcceptedOnce
<1>1. MCInit => PP!PoolInv
  BY SamePool, PP!InitPoolInv, PoolIsSound DEF MCInit
<1>2. PP!PoolInv /\ [MCNext]_<<part, vars, pvars>> => PP!PoolInv'
  <2> SUFFICES ASSUME PP!PoolInv, [MCNext]_<<part, vars, pvars>> PROVE PP!PoolInv'
    OBVIOUS
  <2>1. P!Next \/ UNCHANGED pvars
    BY DEF MCNext
  <2>2. UNCHANGED pvars => UNCHANGED PP!vars
    BY DEF pvars, PP!vars, PP!setup, PP!pool, PP!worker, PP!submit, PP!ctl, PP!ghost
  <2> QED BY <2>1, <2>2, SamePool, PP!NextPoolInv, PoolIsSound
<1>3. PP!PoolInv => AcceptedOnce
  BY PoolHolds, PP!TypeOKHolds, PP!AcceptedOnceHolds, PoolIsSound DEF AcceptedOnce
<1> QED BY <1>1, <1>2, <1>3, PTL DEF MCSpec
=============================================================================
