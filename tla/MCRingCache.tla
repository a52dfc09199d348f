---------------------------- MODULE MCRingCache ----------------------------
(* CRingCache2 and CHPThreadPool for TLC.  They share nothing: Init        *)
(* chooses which of them runs, the other rests.  The cache has three       *)
(* threads, two slots and two generations; the thread pool meets timeouts, *)
(* every policy and a Stop that comes during Start.                        *)
EXTENDS RingCache, TLC

CONSTANTS Workers, Submitters, Finite, Tasks, NoTask, MaxQueue, Policies, Threads0,
          Targets, MaxAdjust, StopFrom, SleepEnough
VARIABLES part, state, policy, maxQueue, working, threads, cs, tasks, wpc, job, spc, sub,
          cpc, want, todo, adjusts, fresh, accepted, ran, freed, dropped
P == INSTANCE ThreadPool WITH count <- working
ASSUME PoolAssumption == P!PoolAssumption
pvars == <<state, policy, maxQueue, working, threads, cs, tasks, wpc, job, spc, sub, cpc,
           want, todo, adjusts, fresh, accepted, ran, freed, dropped>>

MCInit == part \in {"cache", "threads"} /\ Init /\ P!Init
MCNext ==
  \/ part = "cache" /\ Next /\ UNCHANGED <<part, pvars>>
  \/ part = "threads" /\ P!Next /\ UNCHANGED <<part, vars>>
MCSpec == MCInit /\ [][MCNext]_<<part, vars, pvars>>

Symm == Permutations(Threads) \cup Permutations(Workers)

(* A task is in one place, and nowhere when Submit failed.                 *)
AcceptedOnce == P!TypeOK /\ P!AcceptedOnce
=============================================================================
