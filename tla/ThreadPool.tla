----------------------------- MODULE ThreadPool -----------------------------
(***************************************************************************)
(* CHPThreadPool (HPThreadPool.cpp).  What is done under m_mtx is one      *)
(* step, and so is what is done under m_cs, except that creating threads   *)
(* holds m_cs over several steps: WorkerProc reads m_dwThreadCount and     *)
(* m_stThreads without it.  A wait on a condition variable blocks until a  *)
(* notification; a timed wait may report its timeout although notified.    *)
(* Start is called once; Stop waits INFINITE.                              *)
(***************************************************************************)
EXTENDS Integers, Sequences, FiniteSets

CONSTANTS
  Workers,     (* thread ids pthread_create may return                     *)
  Submitters,
  Finite,      (* the submitters whose dwMaxWait is not INFINITE           *)
  Tasks,       (* the tasks submitted: bounds the run                      *)
  NoTask,
  MaxQueue,    (* dwMaxQueueSize of Start, 0 for no limit                  *)
  Policies,    (* the enRejectedPolicy Start may be called with            *)
  Threads0,    (* dwThreadCount of Start                                   *)
  Targets,     (* the counts AdjustThreadCount is called with              *)
  MaxAdjust,   (* bound: calls of AdjustThreadCount                        *)
  StopFrom,    (* where Start may be when Stop is called                   *)
  SleepEnough  (* whether the 15 ms Stop sleeps outlast the steps of a     *)
               (* worker that is leaving and of AdjustThreadCount          *)

(* Policies is a subset of {"CALL_FAIL", "WAIT_FOR", "CALLER_RUN"}.  Start *)
(* and AdjustThreadCount replace a count of 0 by a default, and a thread   *)
(* can always be created.                                                  *)
PoolAssumption ==
  /\ IsFiniteSet(Workers) /\ NoTask \notin Tasks /\ MaxQueue \in Nat
  /\ Threads0 \in 1 .. Cardinality(Workers) /\ Targets \subseteq 1 .. Cardinality(Workers)

VARIABLES
  state,       (* m_enState                                                *)
  policy,      (* m_enRejectedPolicy                                       *)
  maxQueue,    (* m_dwMaxQueueSize                                         *)
  count,       (* m_dwThreadCount                                          *)
  threads,     (* m_stThreads                                              *)
  cs,          (* who holds m_cs over several steps                        *)
  tasks,       (* m_lsTasks                                                *)
  wpc,         (* where each worker is; "none" if it is no thread          *)
  job,         (* pTask of a worker                                        *)
  spc,         (* where each submitter is                                  *)
  sub,         (* the task it submits                                      *)
  cpc,         (* where Start, Stop and AdjustThreadCount are              *)
  want,        (* dwNewThreadCount of their DoAdjustThreadCount            *)
  todo,        (* threads it has still to create, or to notify             *)
  adjusts,     (* calls of AdjustThreadCount so far                        *)
  fresh, accepted, ran, freed, dropped   (* the tasks, by what became of them *)

setup  == <<policy, maxQueue>>
pool   == <<state, count, threads, cs>>
worker == <<wpc, job>>
submit == <<spc, sub>>
ctl    == <<cpc, want, todo, adjusts>>
ghost  == <<fresh, accepted, ran, freed, dropped>>
vars   == <<setup, pool, tasks, worker, submit, ctl, ghost>>

Callers   == {"start", "stop", "adjust"}
Limited   == maxQueue # 0
Full      == Limited /\ Len(tasks) >= maxQueue
WaitsFor  == policy = "WAIT_FOR" /\ Limited
WAt(w, p) == wpc[w] = p
SAt(s, p) == spc[s] = p
CAt(c, p) == cpc[c] = p
WGoto(w, p) == wpc' = [wpc EXCEPT ![w] = p]
SGoto(s, p) == spc' = [spc EXCEPT ![s] = p]
CGoto(c, p) == cpc' = [cpc EXCEPT ![c] = p]

Init ==
  /\ policy = "CALL_FAIL" /\ maxQueue = 0
  /\ state = "STOPPED" /\ count = 0 /\ threads = {} /\ cs = "free"
  /\ tasks = <<>>
  /\ wpc = [w \in Workers |-> "none"] /\ job = [w \in Workers |-> NoTask]
  /\ spc = [s \in Submitters |-> "idle"] /\ sub = [s \in Submitters |-> NoTask]
  /\ cpc = [c \in Callers |-> "idle"]
  /\ want = [c \in Callers |-> 0] /\ todo = [c \in Callers |-> 0]
  /\ adjusts = 0
  /\ fresh = Tasks /\ accepted = {} /\ ran = {} /\ freed = {} /\ dropped = {}

(* notify_one: one of the threads blocked on the condition variable wakes. *)
WakeSome(pc, blocked, woken, n) ==
  LET asleep == {t \in DOMAIN pc : pc[t] = blocked}
      k      == IF n < Cardinality(asleep) THEN n ELSE Cardinality(asleep) IN
  {[t \in DOMAIN pc |-> IF t \in up THEN woken ELSE pc[t]] :
     up \in {u \in SUBSET asleep : Cardinality(u) = k}}

NotifyTask(n)  == wpc' \in WakeSome(wpc, "wait", "check", n)

-----------------------------------------------------------------------------
(* A bug to be caught: the task queued, nobody notified.                   *)
AcceptSilent(s) ==
  /\ tasks'    = Append(tasks, sub[s])
  /\ accepted' = accepted \cup {sub[s]}
  /\ UNCHANGED wpc

(* DoSubmit(fnTaskProc, pvArg, TRUE, dwMaxWait) of a socket task.          *)
Accept(s) ==
  /\ tasks'    = Append(tasks, sub[s])
  /\ accepted' = accepted \cup {sub[s]}
  /\ NotifyTask(1)
Return(s) == SGoto(s, "idle") /\ sub' = [sub EXCEPT ![s] = NoTask]

Submit(s) ==
  /\ SAt(s, "idle")
  /\ \E k \in fresh : sub' = [sub EXCEPT ![s] = k] /\ fresh' = fresh \ {k}
  /\ SGoto(s, "direct")
  /\ UNCHANGED <<pool, tasks, worker, ctl, accepted, ran, freed, dropped, setup>>

(* DirectSubmit, and what DoSubmit does when it says SUBMIT_FULL.          *)
Direct(s) ==
  /\ SAt(s, "direct")
  /\ \/ /\ state # "STARTED" \/ (Full /\ policy = "CALL_FAIL")
        /\ Return(s)
        /\ UNCHANGED <<tasks, wpc, accepted>>
     \/ /\ state = "STARTED" /\ Full /\ policy # "CALL_FAIL"
        /\ SGoto(s, IF policy = "WAIT_FOR" THEN "cycle" ELSE "caller_run")
        /\ UNCHANGED <<tasks, wpc, accepted, sub>>
     \/ /\ state = "STARTED" /\ ~Full
        /\ Accept(s) /\ Return(s)
  /\ UNCHANGED <<pool, job, ctl, fresh, ran, freed, dropped, setup>>

(* CycleWaitSubmit: while(CheckStarted()), then a pass under m_mtx.        *)
Cycle(s) ==
  /\ SAt(s, "cycle")
  /\ IF state = "STARTED" THEN SGoto(s, "try") /\ UNCHANGED sub ELSE Return(s)
  /\ UNCHANGED <<pool, tasks, worker, ctl, ghost, setup>>

(* A bug to be caught: the loop goes on after it submitted.                *)
TryOnAndOn(s) ==
  /\ SAt(s, "try")
  /\ \/ /\ state # "STARTED" \/ (Full /\ s \in Finite)
        /\ Return(s)
        /\ UNCHANGED <<tasks, wpc, accepted>>
     \/ /\ state = "STARTED" /\ Full
        /\ SGoto(s, "blocked")
        /\ UNCHANGED <<tasks, wpc, accepted, sub>>
     \/ /\ state = "STARTED" /\ ~Full
        /\ Accept(s) /\ SGoto(s, "cycle") /\ UNCHANGED sub
  /\ UNCHANGED <<pool, job, ctl, fresh, ran, freed, dropped, setup>>

Try(s) ==
  /\ SAt(s, "try")
  /\ \/ /\ state # "STARTED" \/ (Full /\ s \in Finite)
        /\ Return(s)
        /\ UNCHANGED <<tasks, wpc, accepted>>
     \/ /\ state = "STARTED" /\ Full
        /\ SGoto(s, "blocked")
        /\ UNCHANGED <<tasks, wpc, accepted, sub>>
     \/ /\ state = "STARTED" /\ ~Full
        /\ Accept(s) /\ Return(s)
  /\ UNCHANGED <<pool, job, ctl, fresh, ran, freed, dropped, setup>>

(* m_cvQueue.wait_for says timeout: also when a notification woke it.      *)
Timeout(s) ==
  /\ s \in Finite /\ spc[s] \in {"blocked", "woken"}
  /\ Return(s)
  /\ UNCHANGED <<pool, tasks, worker, ctl, ghost, setup>>

Woken(s) ==
  /\ SAt(s, "woken")
  /\ SGoto(s, "cycle")
  /\ UNCHANGED <<pool, tasks, worker, sub, ctl, ghost, setup>>

CallerRun(s) ==
  /\ SAt(s, "caller_run")
  /\ accepted' = accepted \cup {sub[s]} /\ ran' = ran \cup {sub[s]}
  /\ Return(s)
  /\ UNCHANGED <<pool, tasks, worker, ctl, fresh, freed, dropped, setup>>

-----------------------------------------------------------------------------
(* A bug to be caught: nobody told that the queue has room.                *)
CheckSilent(w) ==
  /\ WAt(w, "check")
  /\ IF tasks # <<>>
     THEN /\ job'   = [job EXCEPT ![w] = Head(tasks)]
          /\ tasks' = Tail(tasks)
          /\ WGoto(w, "run")
     ELSE /\ WGoto(w, IF count < Cardinality(threads) THEN "leave" ELSE "wait")
          /\ UNCHANGED <<job, tasks>>
  /\ UNCHANGED <<pool, submit, ctl, ghost, setup>>

(* A bug to be caught: the thread count looked at before the tasks.        *)
CheckCountFirst(w) ==
  /\ WAt(w, "check")
  /\ IF count >= Cardinality(threads) /\ tasks # <<>>
     THEN /\ job'   = [job EXCEPT ![w] = Head(tasks)]
          /\ tasks' = Tail(tasks)
          /\ IF WaitsFor THEN spc' \in WakeSome(spc, "blocked", "woken", 1)
             ELSE UNCHANGED spc
          /\ WGoto(w, "run")
     ELSE /\ WGoto(w, IF count < Cardinality(threads) THEN "leave" ELSE "wait")
          /\ UNCHANGED <<job, tasks, spc>>
  /\ UNCHANGED <<pool, sub, ctl, ghost, setup>>

(* WorkerProc: a pass of the inner loop under m_mtx.                       *)
Check(w) ==
  /\ WAt(w, "check")
  /\ IF tasks # <<>>
     THEN /\ job'   = [job EXCEPT ![w] = Head(tasks)]
          /\ tasks' = Tail(tasks)
          /\ IF WaitsFor THEN spc' \in WakeSome(spc, "blocked", "woken", 1)
             ELSE UNCHANGED spc
          /\ WGoto(w, "run")
     ELSE /\ WGoto(w, IF count < Cardinality(threads) THEN "leave" ELSE "wait")
          /\ UNCHANGED <<job, tasks, spc>>
  /\ UNCHANGED <<pool, sub, ctl, ghost, setup>>

(* Run the task, destroy its argument (freeArg).                           *)
Run(w) ==
  /\ WAt(w, "run")
  /\ ran' = ran \cup {job[w]} /\ freed' = freed \cup {job[w]}
  /\ job' = [job EXCEPT ![w] = NoTask]
  /\ WGoto(w, "check")
  /\ UNCHANGED <<pool, tasks, submit, ctl, fresh, accepted, dropped, setup>>

(* CheckWorkerThreadExit.                                                  *)
Leave(w) ==
  /\ WAt(w, "leave")
  /\ IF count < Cardinality(threads)
     THEN /\ cs = "free"
          /\ threads' = threads \ {w}
          /\ WGoto(w, IF threads = {w} THEN "notify" ELSE "none")
     ELSE WGoto(w, "check") /\ UNCHANGED threads
  /\ UNCHANGED <<state, count, cs, tasks, job, submit, ctl, ghost, setup>>

(* m_sem.NotifyOne(): without m_sem's mutex.                               *)
Notify(w) ==
  /\ WAt(w, "notify")
  /\ WGoto(w, "none")
  /\ cpc' = [cpc EXCEPT !["stop"] = IF @ = "sem_blocked" THEN "sem_test" ELSE @]
  /\ UNCHANGED <<pool, tasks, job, submit, want, todo, adjusts, ghost, setup>>

-----------------------------------------------------------------------------
(* DoAdjustThreadCount(want[c]), called by Start, Stop, AdjustThreadCount. *)
After(c) == CASE c = "start" -> "set" [] c = "stop" -> "sem_test" [] c = "adjust" -> "idle"

AdjEnter(c) ==
  /\ CAt(c, "adj_enter") /\ cs = "free"
  /\ \/ /\ want[c] > count
        /\ cs' = c /\ CGoto(c, "adj_spawn")
        /\ todo' = [todo EXCEPT ![c] = want[c] - count]
        /\ UNCHANGED count
     \/ /\ want[c] < count
        /\ count' = want[c] /\ CGoto(c, "adj_notify")
        /\ todo' = [todo EXCEPT ![c] = count - want[c]]
        /\ UNCHANGED cs
     \/ /\ want[c] = count
        /\ CGoto(c, After(c))
        /\ UNCHANGED <<cs, count, todo>>
  /\ UNCHANGED <<state, threads, tasks, worker, submit, want, adjusts, ghost, setup>>

(* CreateWorkerThreads: create and emplace, then count.                    *)
AdjSpawn(c) ==
  /\ CAt(c, "adj_spawn")
  /\ \E w \in Workers : /\ WAt(w, "none") /\ w \notin threads
                        /\ threads' = threads \cup {w}
                        /\ WGoto(w, "check")
  /\ CGoto(c, "adj_count")
  /\ UNCHANGED <<state, count, cs, tasks, job, submit, want, todo, adjusts, ghost, setup>>

AdjCount(c) ==
  /\ CAt(c, "adj_count")
  /\ count' = count + 1
  /\ todo'  = [todo EXCEPT ![c] = @ - 1]
  /\ IF todo[c] = 1 THEN cs' = "free" /\ CGoto(c, After(c))
                    ELSE CGoto(c, "adj_spawn") /\ UNCHANGED cs
  /\ UNCHANGED <<state, threads, tasks, worker, submit, want, adjusts, ghost, setup>>

AdjNotify(c) ==
  /\ CAt(c, "adj_notify")
  /\ NotifyTask(todo[c])
  /\ todo' = [todo EXCEPT ![c] = 0]
  /\ CGoto(c, After(c))
  /\ UNCHANGED <<pool, tasks, job, submit, want, adjusts, ghost, setup>>

Adjust(c) == AdjEnter(c) \/ AdjSpawn(c) \/ AdjCount(c) \/ AdjNotify(c)

(* Start: CheckStarting, DoAdjustThreadCount, m_enState = SS_STARTED.      *)
Start ==
  /\ CAt("start", "idle") /\ state = "STOPPED"
  /\ state' = "STARTING"
  /\ policy' \in Policies /\ maxQueue' = MaxQueue
  /\ want'  = [want EXCEPT !["start"] = Threads0]
  /\ CGoto("start", "adj_enter")
  /\ UNCHANGED <<count, threads, cs, tasks, worker, submit, todo, adjusts, ghost>>

SetStarted ==
  /\ CAt("start", "set")
  /\ state' = "STARTED" /\ CGoto("start", "done")
  /\ UNCHANGED <<count, threads, cs, tasks, worker, submit, want, todo, adjusts, ghost, setup>>

(* AdjustThreadCount: CheckStarted, then DoAdjustThreadCount.              *)
AdjustThreadCount ==
  /\ CAt("adjust", "idle") /\ adjusts < MaxAdjust /\ state = "STARTED"
  /\ \E n \in Targets : want' = [want EXCEPT !["adjust"] = n]
  /\ adjusts' = adjusts + 1
  /\ CGoto("adjust", "adj_enter")
  /\ UNCHANGED <<pool, tasks, worker, submit, todo, ghost, setup>>

(* CheckStoping: two compare-and-swaps, or wait until somebody stops it.   *)
Stop ==
  /\ CAt("stop", "idle") /\ cpc["start"] \in StopFrom
  /\ IF state = "STARTED"
     THEN state' = "STOPPING" /\ CGoto("stop", "release")
     ELSE CGoto("stop", "cas2") /\ UNCHANGED state
  /\ UNCHANGED <<count, threads, cs, tasks, worker, submit, want, todo, adjusts, ghost, setup>>

StopCas2 ==
  /\ CAt("stop", "cas2")
  /\ IF state = "STARTING"
     THEN state' = "STOPPING" /\ CGoto("stop", "release")
     ELSE CGoto("stop", "spin") /\ UNCHANGED state
  /\ UNCHANGED <<count, threads, cs, tasks, worker, submit, want, todo, adjusts, ghost, setup>>

StopSpin ==
  /\ CAt("stop", "spin") /\ state = "STOPPED"
  /\ CGoto("stop", "done")
  /\ UNCHANGED <<pool, tasks, worker, submit, want, todo, adjusts, ghost, setup>>

(* WaitFor(15), then Shutdown: release the submitters that wait and let    *)
(* every thread go.                                                        *)
Slept == /\ \A w \in Workers : ~WAt(w, "leave")
         /\ CAt("adjust", "idle")

Release ==
  /\ CAt("stop", "release")
  /\ SleepEnough => Slept
  /\ IF WaitsFor
     THEN spc' \in WakeSome(spc, "blocked", "woken", Cardinality(Submitters))
     ELSE UNCHANGED spc
  /\ want' = [want EXCEPT !["stop"] = 0]
  /\ CGoto("stop", "adj_enter")
  /\ UNCHANGED <<pool, tasks, worker, sub, todo, adjusts, ghost, setup>>

(* m_sem.Wait(CShutdownPredicate): test it, then block.                    *)
SemTest ==
  /\ CAt("stop", "sem_test") /\ cs = "free"
  /\ CGoto("stop", IF threads = {} THEN "drain" ELSE "sem_block")
  /\ UNCHANGED <<pool, tasks, worker, submit, want, todo, adjusts, ghost, setup>>

SemBlock ==
  /\ CAt("stop", "sem_block")
  /\ CGoto("stop", "sem_blocked")
  /\ UNCHANGED <<pool, tasks, worker, submit, want, todo, adjusts, ghost, setup>>

(* Destruct what is left, and Reset.                                       *)
Drain ==
  /\ CAt("stop", "drain")
  /\ dropped' = dropped \cup {tasks[i] : i \in DOMAIN tasks}
  /\ tasks' = <<>> /\ count' = 0 /\ state' = "STOPPED"
  /\ policy' = "CALL_FAIL" /\ maxQueue' = 0
  /\ CGoto("stop", "done")
  /\ UNCHANGED <<threads, cs, worker, submit, want, todo, adjusts, fresh, accepted, ran, freed>>

StopSteps == StopCas2 \/ StopSpin \/ Release \/ SemTest \/ SemBlock \/ Drain

SubmitSteps(s) == Direct(s) \/ Cycle(s) \/ Try(s) \/ Woken(s) \/ CallerRun(s)
WorkerSteps(w) == Check(w) \/ Run(w) \/ Leave(w) \/ Notify(w)

Next ==
  \/ \E s \in Submitters : Submit(s) \/ SubmitSteps(s) \/ Timeout(s)
  \/ \E w \in Workers : WorkerSteps(w)
  \/ \E c \in Callers : Adjust(c)
  \/ Start \/ SetStarted \/ AdjustThreadCount \/ Stop \/ StopSteps

(* Every thread inside a call or inside WorkerProc is scheduled; nobody is *)
(* obliged to call, and no wait has to time out.                           *)
Fairness ==
  /\ \A s \in Submitters : WF_vars(SubmitSteps(s))
  /\ \A w \in Workers : WF_vars(WorkerSteps(w))
  /\ \A c \in Callers : WF_vars(Adjust(c))
  /\ WF_vars(SetStarted) /\ WF_vars(StopSteps)

Spec == Init /\ [][Next]_vars /\ Fairness

-----------------------------------------------------------------------------
(* The types of the pool's members and of the threads' locals.             *)
TypeOK ==
  /\ state \in {"STOPPED", "STARTING", "STARTED", "STOPPING"}
  /\ policy \in Policies \cup {"CALL_FAIL"} /\ maxQueue \in {0, MaxQueue}
  /\ count \in 0 .. Cardinality(Workers) /\ threads \subseteq Workers
  /\ cs \in Callers \cup {"free"}
  /\ todo \in [Callers -> 0 .. Cardinality(Workers)]
  /\ tasks \in Seq(Tasks)
  /\ wpc \in [Workers -> {"none", "check", "wait", "run", "leave", "notify"}]
  /\ job \in [Workers -> Tasks \cup {NoTask}]
  /\ spc \in [Submitters -> {"idle", "direct", "cycle", "try", "blocked",
                             "woken", "caller_run"}]
  /\ sub \in [Submitters -> Tasks \cup {NoTask}]

(* When Stop comes to its end every task that was accepted has run and no  *)
(* thread is left: the assertions of Shutdown, although Submit tests       *)
(* m_enState and a worker decides to leave without a common lock.          *)
CleanStop ==
  CAt("stop", "drain") \/ CAt("stop", "done") =>
    tasks = <<>> /\ dropped = {} /\ threads = {} /\ accepted = ran

(* The threads not in m_stThreads are gone or past every access to it, and *)
(* there is one thread per count once the adjustments have settled.        *)
Adjusting == cs # "free" \/ \E w \in Workers : wpc[w] \in {"check", "run", "leave"}
ThreadsMatch ==
  /\ \A w \in Workers : w \in threads <=> wpc[w] \notin {"none", "notify"}
  /\ count <= Cardinality(threads)
  /\ ~Adjusting /\ (\A c \in Callers : ~CAt(c, "adj_notify"))
       => count = Cardinality(threads)

(* A task is queued, in a worker's hands, run or dropped: exactly one of   *)
(* these, if it was accepted, and none if Submit said FALSE.               *)
Places(k) ==
  Cardinality({i \in DOMAIN tasks : tasks[i] = k})
  + Cardinality({w \in Workers : job[w] = k})
  + Cardinality({1} \cap {IF k \in ran THEN 1 ELSE 0})
  + Cardinality({1} \cap {IF k \in dropped THEN 1 ELSE 0})
AcceptedOnce == \A k \in Tasks : Places(k) = IF k \in accepted THEN 1 ELSE 0

(* Submit said TRUE: the task is run.                                      *)
AcceptedRuns == []<>(accepted \subseteq ran)

(* TRP_WAIT_FOR with dwMaxWait = INFINITE: a submitter waits only until    *)
(* the queue has room or the pool closes.  (As only so many tasks are ever *)
(* submitted, that nobody waits again and again says it of each wait.)     *)
WaitForReturns == []<>(\A s \in Submitters : ~SAt(s, "blocked"))

(* Stop(INFINITE) returns.                                                 *)
StopReturns == ~CAt("stop", "idle") ~> CAt("stop", "done")

(* A task is destroyed by the pool when its submission succeeded: only if  *)
(* it fails is that left to the caller.                                    *)
RanIsFreed == \A k \in Tasks : k \in ran => k \in freed
=============================================================================
