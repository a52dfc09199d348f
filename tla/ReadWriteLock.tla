--------------------------- MODULE ReadWriteLock ---------------------------
(***************************************************************************)
(* What a CRWLock promises its callers (common/RWLock.h): any number of    *)
(* readers or one writer; the writer may lock again, for writing or for    *)
(* reading.                                                                *)
(***************************************************************************)
EXTENDS Naturals

CONSTANT Threads

VARIABLES reads,  (* how many read locks each thread holds                 *)
          writes  (* how many write locks                                  *)

LInit ==
  /\ reads  = [t \in Threads |-> 0]
  /\ writes = [t \in Threads |-> 0]

Others(t) == Threads \ {t}

AcquireRead(t) ==
  /\ \A s \in Others(t) : writes[s] = 0
  /\ reads' = [reads EXCEPT ![t] = @ + 1]
  /\ UNCHANGED writes

AcquireWrite(t) ==
  /\ \A s \in Others(t) : writes[s] = 0 /\ reads[s] = 0
  /\ writes' = [writes EXCEPT ![t] = @ + 1]
  /\ UNCHANGED reads

ReleaseRead(t) ==
  /\ reads[t] > 0
  /\ reads' = [reads EXCEPT ![t] = @ - 1]
  /\ UNCHANGED writes

ReleaseWrite(t) ==
  /\ writes[t] > 0
  /\ writes' = [writes EXCEPT ![t] = @ - 1]
  /\ UNCHANGED reads

LNext == \E t \in Threads : \/ AcquireRead(t)  \/ AcquireWrite(t)
                            \/ ReleaseRead(t)  \/ ReleaseWrite(t)

LSpec == LInit /\ [][LNext]_<<reads, writes>>
=============================================================================
