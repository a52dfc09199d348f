-------------------------- MODULE ThreadPoolProofs --------------------------
(***************************************************************************)
(* Proofs about ThreadPool, for every number of workers, submitters and    *)
(* tasks, every policy and every limit of the queue: a task is in one      *)
(* place, and nowhere when it was not accepted; and where Stop() comes     *)
(* after Start() and its sleep outlasts what it waits for, every thread is *)
(* accounted for and Stop() leaves nothing behind.                         *)
(***************************************************************************)
EXTENDS ThreadPool, FiniteSetTheorems, SequenceTheorems, TLAPS

(* 1. Types, and the numbers of threads.                                   *)
WPc == {"none", "check", "wait", "run", "leave", "notify"}
SPc == {"idle", "direct", "cycle", "try", "blocked", "woken", "caller_run"}
CPc == {"idle", "adj_enter", "adj_spawn", "adj_count", "adj_notify", "set", "done", "cas2",
        "spin", "release", "sem_test", "sem_block", "sem_blocked", "drain"}
Most == Cardinality(Workers)
Types ==
  /\ state \in {"STOPPED", "STARTING", "STARTED", "STOPPING"}
  /\ policy \in Policies \cup {"CALL_FAIL"} /\ maxQueue \in {0, MaxQueue}
  /\ count \in Nat /\ threads \subseteq Workers /\ cs \in Callers \cup {"free"}
  /\ tasks \in Seq(Tasks)
  /\ wpc \in [Workers -> WPc] /\ job \in [Workers -> Tasks \cup {NoTask}]
  /\ spc \in [Submitters -> SPc] /\ sub \in [Submitters -> Tasks \cup {NoTask}]
  /\ cpc \in [Callers -> CPc]
  /\ want \in [Callers -> 0 .. Most] /\ todo \in [Callers -> 0 .. Most]
  /\ fresh \subseteq Tasks /\ accepted \subseteq Tasks /\ ran \subseteq Tasks
  /\ dropped \subseteq Tasks
Spawning(c) == cpc[c] \in {"adj_spawn", "adj_count"}
Numbers ==
  /\ count <= Most
  /\ \A c \in Callers : Spawning(c) => cs = c /\ todo[c] > 0 /\ count + todo[c] <= Most
  /\ cs \in Callers => Spawning(cs)

(* 2. The places of a task.                                                *)
Queued(k) == \E i \in 1 .. Len(tasks) : tasks[i] = k
InHand(k) == \E w \in Workers : job[w] = k
Apart ==
  /\ \A i, j \in 1 .. Len(tasks) : tasks[i] = tasks[j] => i = j
  /\ \A v, w \in Workers : job[v] # NoTask /\ job[v] = job[w] => v = w
  /\ \A s, t \in Submitters : sub[s] # NoTask /\ sub[s] = sub[t] => s = t
Placed ==
  /\ \A w \in Workers : WAt(w, "run") <=> job[w] # NoTask
  /\ \A k \in Tasks :
       /\ Queued(k) => ~InHand(k) /\ k \notin ran \cup dropped
       /\ InHand(k) => k \notin ran \cup dropped
       /\ ~(k \in ran /\ k \in dropped)
       /\ k \in accepted <=> Queued(k) \/ InHand(k) \/ k \in ran \cup dropped
Unaccepted ==
  /\ \A s \in Submitters : /\ SAt(s, "idle") <=> sub[s] = NoTask
                           /\ sub[s] \notin accepted \cup fresh
  /\ fresh \cap accepted = {}

PoolInv == Types /\ Numbers /\ Apart /\ Placed /\ Unaccepted

(* 3. A Stop() that comes when Start() is over.                            *)
Busy == {w \in Workers : wpc[w] \in {"check", "run", "leave"}}
Owes(c) == IF CAt(c, "adj_notify") THEN todo[c] ELSE 0
Starting == cpc["start"] \in {"adj_enter", "adj_spawn", "adj_count", "set"}
Shutting == cpc["stop"] \in {"adj_enter", "adj_notify", "sem_test", "sem_block",
                             "sem_blocked", "drain"}
(* Who may be where.                                                       *)
Phases ==
  /\ cpc["start"] \in {"idle", "done"} \/ Starting
  /\ cpc["stop"] \in {"idle", "release", "done"} \/ Shutting
  /\ cpc["adjust"] \in {"idle", "adj_enter", "adj_notify"} \/ Spawning("adjust")
  /\ CAt("start", "idle") => state = "STOPPED"
  /\ Starting => state = "STARTING"
  /\ ~CAt("start", "done") => CAt("stop", "idle") /\ CAt("adjust", "idle")
  /\ CAt("start", "done") /\ CAt("stop", "idle") => state = "STARTED"
  /\ CAt("stop", "release") \/ Shutting => state = "STOPPING"
  /\ CAt("stop", "done") => state = "STOPPED"
  /\ Shutting \/ CAt("stop", "done") => CAt("adjust", "idle")
(* How many threads there are.                                             *)
Counts ==
  /\ CAt("start", "idle") \/ CAt("start", "adj_enter") => count = 0
  /\ CAt("start", "adj_enter") => want["start"] > 0
  /\ CAt("adjust", "adj_enter") => want["adjust"] > 0
  /\ CAt("stop", "adj_enter") => want["stop"] = 0
  /\ CAt("start", "set") => count > 0
  /\ CAt("start", "done") /\ cpc["stop"] \in {"idle", "release"} => count > 0
Surplus ==
  /\ \A w \in Workers : w \in threads <=> wpc[w] \notin {"none", "notify"}
  /\ count <= Cardinality(threads)
  /\ \A c \in Callers : CAt(c, "adj_count") => count < Cardinality(threads)
  /\ Cardinality(threads) <= count + Cardinality(Busy) + Owes("stop") + Owes("adjust")
(* Who leaves saw that no task was left, and after that none comes.        *)
Emptied ==
  /\ dropped = {}
  /\ Shutting => tasks = <<>> \/ (threads # {} /\ \A w \in Workers : ~WAt(w, "leave"))
  /\ CAt("stop", "drain") \/ CAt("stop", "done") => threads = {} /\ tasks = <<>>

StopInv == Phases /\ Counts /\ Surplus /\ Emptied

-----------------------------------------------------------------------------
(* A notification moves some of the threads that are blocked, no other.    *)
LEMMA WorkersWake ==
  ASSUME Types, NEW n, NotifyTask(n)
  PROVE  /\ wpc' \in [Workers -> WPc]
         /\ \A w \in Workers : wpc'[w] = wpc[w] \/ (wpc[w] = "wait" /\ wpc'[w] = "check")
<1>1. wpc \in [Workers -> WPc]
  BY DEF Types
<1>2. PICK up \in SUBSET {w \in Workers : wpc[w] = "wait"} :
             wpc' = [w \in Workers |-> IF w \in up THEN "check" ELSE wpc[w]]
  BY <1>1 DEF NotifyTask, WakeSome
<1> QED BY <1>1, <1>2 DEF WPc

LEMMA SubmittersWake ==
  ASSUME Types, NEW n, spc' \in WakeSome(spc, "blocked", "woken", n)
  PROVE  /\ spc' \in [Submitters -> SPc]
         /\ \A s \in Submitters : spc'[s] = spc[s] \/ (spc[s] = "blocked" /\ spc'[s] = "woken")
<1>1. spc \in [Submitters -> SPc]
  BY DEF Types
<1>2. PICK up \in SUBSET {s \in Submitters : spc[s] = "blocked"} :
             spc' = [s \in Submitters |-> IF s \in up THEN "woken" ELSE spc[s]]
  BY <1>1 DEF WakeSome
<1> QED BY <1>1, <1>2 DEF SPc

(* What was queued, and what one more or one less leaves.                  *)
LEMMA QueuedMore ==
  ASSUME tasks \in Seq(Tasks), NEW k \in Tasks, tasks' = Append(tasks, k)
  PROVE  /\ tasks' \in Seq(Tasks) /\ tasks' # <<>>
         /\ \A j \in Tasks : Queued(j)' <=> Queued(j) \/ j = k
         /\ ~Queued(k) /\ (\A i, j \in 1 .. Len(tasks) : tasks[i] = tasks[j] => i = j)
              => \A i, j \in 1 .. Len(tasks') : tasks'[i] = tasks'[j] => i = j
<1>1. /\ tasks' \in Seq(Tasks) /\ Len(tasks) \in Nat /\ Len(tasks') = Len(tasks) + 1
      /\ tasks'[Len(tasks) + 1] = k /\ \A i \in 1 .. Len(tasks) : tasks'[i] = tasks[i]
  BY AppendProperties
<1>2. tasks' # <<>>
  BY <1>1
<1>3. 1 .. Len(tasks') = 1 .. Len(tasks) \cup {Len(tasks) + 1}
  BY <1>1
<1> QED BY <1>1, <1>2, <1>3 DEF Queued

LEMMA QueuedLess ==
  ASSUME tasks \in Seq(Tasks), tasks # <<>>, tasks' = Tail(tasks),
         \A i, j \in 1 .. Len(tasks) : tasks[i] = tasks[j] => i = j
  PROVE  /\ Head(tasks) \in Tasks /\ Queued(Head(tasks)) /\ tasks' \in Seq(Tasks)
         /\ \A j \in Tasks : Queued(j)' <=> Queued(j) /\ j # Head(tasks)
         /\ \A i, j \in 1 .. Len(tasks') : tasks'[i] = tasks'[j] => i = j
<1>1. /\ tasks' \in Seq(Tasks) /\ Len(tasks) \in Nat \ {0} /\ Len(tasks') = Len(tasks) - 1
      /\ \A i \in 1 .. Len(tasks) - 1 : tasks'[i] = tasks[i + 1]
      /\ Head(tasks) = tasks[1] /\ Head(tasks) \in Tasks
  BY HeadTailProperties, EmptySeq
<1>2. \A i \in 1 .. Len(tasks) : i = 1 \/ (i - 1 \in 1 .. Len(tasks) - 1 /\ tasks'[i - 1] = tasks[i])
  BY <1>1
<1>3. \A i \in 1 .. Len(tasks') : i + 1 \in 1 .. Len(tasks) /\ i + 1 # 1 /\ tasks'[i] = tasks[i + 1]
  BY <1>1
<1>4. Queued(Head(tasks))
  BY <1>1 DEF Queued
<1>5. \A j \in Tasks : Queued(j)' <=> Queued(j) /\ j # Head(tasks)
  <2>1. ASSUME NEW j \in Tasks, Queued(j)' PROVE Queued(j) /\ j # Head(tasks)
    <3>1. PICK i \in 1 .. Len(tasks') : tasks'[i] = j
      BY <2>1 DEF Queued
    <3>2. i + 1 \in 1 .. Len(tasks) /\ i + 1 # 1 /\ tasks[i + 1] = j
      BY <3>1, <1>3
    <3>3. 1 \in 1 .. Len(tasks) /\ tasks[1] = Head(tasks)
      BY <1>1
    <3> QED BY <3>2, <3>3 DEF Queued
  <2>2. ASSUME NEW j \in Tasks, Queued(j), j # Head(tasks) PROVE Queued(j)'
    <3>1. PICK i \in 1 .. Len(tasks) : tasks[i] = j
      BY <2>2 DEF Queued
    <3>2. i - 1 \in 1 .. Len(tasks') /\ tasks'[i - 1] = j
      BY <3>1, <2>2, <1>1, <1>2
    <3> QED BY <3>2 DEF Queued
  <2> QED BY <2>1, <2>2
<1>6. ASSUME NEW i \in 1 .. Len(tasks'), NEW j \in 1 .. Len(tasks'), tasks'[i] = tasks'[j]
      PROVE  i = j
  <2>1. i + 1 = j + 1
    BY <1>3, <1>6
  <2> QED BY <2>1, <1>1
<1> QED BY <1>1, <1>4, <1>5, <1>6

-----------------------------------------------------------------------------
(* A step that leaves every task where it is, and a step that leaves the   *)
(* adjustments of the thread count alone.                                  *)
TasksStay ==
  /\ UNCHANGED <<tasks, job, sub, fresh, accepted, ran, dropped>>
  /\ \A w \in Workers : WAt(w, "run")' <=> WAt(w, "run")
  /\ \A s \in Submitters : SAt(s, "idle")' <=> SAt(s, "idle")
LEMMA TasksStayInv ==
  ASSUME PoolInv, TasksStay, Types', Numbers'
  PROVE  PoolInv'
<1>1. Apart'
  BY DEF PoolInv, TasksStay, Apart
<1>2. Placed'
  BY DEF PoolInv, TasksStay, Placed, Queued, InHand
<1>3. Unaccepted'
  BY DEF PoolInv, TasksStay, Unaccepted
<1> QED BY <1>1, <1>2, <1>3 DEF PoolInv

LEMMA NumbersStay ==
  ASSUME Numbers, UNCHANGED <<count, cs, cpc, todo>>
  PROVE  Numbers'
BY DEF Numbers, Spawning

-----------------------------------------------------------------------------
(* DoSubmit, which takes the task or leaves it to the caller.              *)
LEMMA SubmitInv ==
  ASSUME PoolAssumption, PoolInv, NEW s \in Submitters, Submit(s)
  PROVE  PoolInv'
<1>1. Types
  BY DEF PoolInv
<1>2. PICK k \in fresh : sub' = [sub EXCEPT ![s] = k] /\ fresh' = fresh \ {k}
  BY DEF Submit
<1>3. /\ spc[s] = "idle" /\ spc' = [spc EXCEPT ![s] = "direct"]
      /\ UNCHANGED <<pool, tasks, worker, ctl, accepted, ran, freed, dropped, setup>>
  BY DEF Submit, SAt, SGoto
<1>4. k \in Tasks /\ k # NoTask
  BY <1>1, <1>2 DEF Types, PoolAssumption
<1>5. /\ sub'[s] = k /\ \A t \in Submitters : t # s => sub'[t] = sub[t] /\ spc'[t] = spc[t]
      /\ spc'[s] = "direct"
  BY <1>1, <1>2, <1>3 DEF Types
<1>6. Types'
  BY <1>1, <1>2, <1>3, <1>4 DEF Types, SPc, pool, worker, ctl, setup
<1>7. Numbers'
  BY <1>3, NumbersStay DEF PoolInv, pool, ctl
<1>8. \A t \in Submitters : sub[t] # k
  BY <1>2 DEF PoolInv, Unaccepted
<1>9. Apart'
  BY <1>3, <1>5, <1>8 DEF PoolInv, Apart, worker
<1>10. Placed'
  BY <1>3 DEF PoolInv, Placed, Queued, InHand, WAt, worker
<1>11. Unaccepted'
  BY <1>2, <1>3, <1>4, <1>5 DEF PoolInv, Unaccepted, SAt
<1> QED BY <1>6, <1>7, <1>9, <1>10, <1>11 DEF PoolInv

(* The task is queued and the caller returns.                              *)
LEMMA AcceptInv ==
  ASSUME PoolAssumption, PoolInv, NEW s \in Submitters, spc[s] # "idle", Accept(s), Return(s),
         UNCHANGED <<pool, job, ctl, fresh, ran, freed, dropped, setup>>
  PROVE  PoolInv'
<1>1. Types
  BY DEF PoolInv
<1>2. PICK k \in Tasks : k = sub[s] /\ k # NoTask
  BY <1>1 DEF PoolInv, Unaccepted, SAt, Types
<1>3. /\ tasks' = Append(tasks, k) /\ accepted' = accepted \cup {k}
      /\ wpc' \in WakeSome(wpc, "wait", "check", 1)
      /\ spc' = [spc EXCEPT ![s] = "idle"] /\ sub' = [sub EXCEPT ![s] = NoTask]
  BY <1>2 DEF Accept, Return, NotifyTask, SGoto
<1>4. /\ wpc' \in [Workers -> WPc]
      /\ \A w \in Workers : wpc'[w] = wpc[w] \/ (wpc[w] = "wait" /\ wpc'[w] = "check")
  BY <1>1, WorkersWake DEF Accept
<1>5. k \notin accepted \cup fresh /\ ~Queued(k) /\ ~InHand(k) /\ k \notin ran \cup dropped
  BY <1>2 DEF PoolInv, Unaccepted, Placed
<1>6. /\ tasks' \in Seq(Tasks) /\ \A j \in Tasks : Queued(j)' <=> Queued(j) \/ j = k
      /\ \A i, j \in 1 .. Len(tasks') : tasks'[i] = tasks'[j] => i = j
  BY <1>1, <1>3, <1>5, QueuedMore DEF Types, PoolInv, Apart
<1>7. /\ sub'[s] = NoTask /\ \A t \in Submitters : t # s => sub'[t] = sub[t] /\ spc'[t] = spc[t]
      /\ spc'[s] = "idle"
  BY <1>1, <1>3 DEF Types
<1>8. Types'
  BY <1>1, <1>2, <1>3, <1>4, <1>6 DEF Types, SPc, pool, ctl, setup
<1>9. Numbers'
  BY NumbersStay DEF PoolInv, pool, ctl
<1>10. Apart'
  BY <1>6, <1>7 DEF PoolInv, Apart
<1>11. Placed'
  <2>1. \A w \in Workers : wpc'[w] = "run" <=> wpc[w] = "run"
    BY <1>4
  <2>2. \A j \in Tasks : InHand(j)' <=> InHand(j)
    BY DEF InHand
  <2> QED BY <2>1, <2>2, <1>3, <1>5, <1>6 DEF PoolInv, Placed, WAt
<1>12. Unaccepted'
  <2>1. \A t \in Submitters : t # s => sub[t] # k
    BY <1>2 DEF PoolInv, Apart
  <2>2. NoTask \notin accepted' \cup fresh'
    BY <1>8 DEF Types, PoolAssumption
  <2> QED BY <2>1, <2>2, <1>3, <1>5, <1>7 DEF PoolInv, Unaccepted, SAt
<1> QED BY <1>8, <1>9, <1>10, <1>11, <1>12 DEF PoolInv

(* The caller returns, the task is its own again.                          *)
LEMMA ReturnInv ==
  ASSUME PoolAssumption, PoolInv, NEW s \in Submitters, Return(s),
         UNCHANGED <<pool, tasks, worker, ctl, ghost, setup>>
  PROVE  PoolInv'
<1>1. Types /\ spc' = [spc EXCEPT ![s] = "idle"] /\ sub' = [sub EXCEPT ![s] = NoTask]
  BY DEF PoolInv, Return, SGoto
<1>2. /\ sub'[s] = NoTask /\ \A t \in Submitters : t # s => sub'[t] = sub[t] /\ spc'[t] = spc[t]
      /\ spc'[s] = "idle"
  BY <1>1 DEF Types
<1>3. Types'
  BY <1>1 DEF Types, SPc, pool, ctl, setup, ghost, worker
<1>4. Numbers'
  BY NumbersStay DEF PoolInv, pool, ctl
<1>5. Apart'
  BY <1>2 DEF PoolInv, Apart, worker
<1>6. Placed'
  BY DEF PoolInv, Placed, Queued, InHand, WAt, worker, ghost
<1>7. Unaccepted'
  <2>1. NoTask \notin accepted \cup fresh
    BY <1>1 DEF Types, PoolAssumption
  <2> QED BY <2>1, <1>2 DEF PoolInv, Unaccepted, SAt, ghost
<1> QED BY <1>3, <1>4, <1>5, <1>6, <1>7 DEF PoolInv

(* The caller goes on with its task.                                       *)
LEMMA GoOnInv ==
  ASSUME PoolInv, NEW s \in Submitters, NEW p \in SPc \ {"idle"}, spc[s] # "idle", SGoto(s, p),
         UNCHANGED <<pool, tasks, worker, sub, ctl, ghost, setup>>
  PROVE  PoolInv'
<1>1. Types /\ spc' = [spc EXCEPT ![s] = p]
  BY DEF PoolInv, SGoto
<1>2. Types'
  BY <1>1 DEF Types, pool, ctl, setup, ghost, worker
<1>3. Numbers'
  BY NumbersStay DEF PoolInv, pool, ctl
<1>4. TasksStay
  BY <1>1 DEF TasksStay, Types, WAt, SAt, worker, ghost
<1> QED BY <1>2, <1>3, <1>4, TasksStayInv

LEMMA DirectInv ==
  ASSUME PoolAssumption, PoolInv, NEW s \in Submitters, Direct(s)
  PROVE  PoolInv'
<1>1. SAt(s, "direct") /\ UNCHANGED <<pool, job, ctl, fresh, ran, freed, dropped, setup>>
  BY DEF Direct
<1>2. CASE Return(s) /\ UNCHANGED <<tasks, wpc, accepted>>
  BY <1>1, <1>2, ReturnInv DEF worker, ghost
<1>3. CASE /\ SGoto(s, IF policy = "WAIT_FOR" THEN "cycle" ELSE "caller_run")
           /\ UNCHANGED <<tasks, wpc, accepted, sub>>
  BY <1>1, <1>3, GoOnInv DEF worker, ghost, SAt, SPc
<1>4. CASE Accept(s) /\ Return(s)
  BY <1>1, <1>4, AcceptInv DEF SAt
<1> QED BY <1>2, <1>3, <1>4 DEF Direct

LEMMA TryInv ==
  ASSUME PoolAssumption, PoolInv, NEW s \in Submitters, Try(s)
  PROVE  PoolInv'
<1>1. SAt(s, "try") /\ UNCHANGED <<pool, job, ctl, fresh, ran, freed, dropped, setup>>
  BY DEF Try
<1>2. CASE Return(s) /\ UNCHANGED <<tasks, wpc, accepted>>
  BY <1>1, <1>2, ReturnInv DEF worker, ghost
<1>3. CASE SGoto(s, "blocked") /\ UNCHANGED <<tasks, wpc, accepted, sub>>
  BY <1>1, <1>3, GoOnInv DEF worker, ghost, SAt, SPc
<1>4. CASE Accept(s) /\ Return(s)
  BY <1>1, <1>4, AcceptInv DEF SAt
<1> QED BY <1>2, <1>3, <1>4 DEF Try

LEMMA WaitInv ==
  ASSUME PoolAssumption, PoolInv, NEW s \in Submitters, Cycle(s) \/ Timeout(s) \/ Woken(s)
  PROVE  PoolInv'
<1>1. spc[s] # "idle" /\ UNCHANGED <<pool, tasks, worker, ctl, ghost, setup>>
  BY DEF Cycle, Timeout, Woken, SAt
<1>2. CASE Return(s)
  BY <1>1, <1>2, ReturnInv
<1>3. CASE SGoto(s, "try") /\ UNCHANGED sub
  BY <1>1, <1>3, GoOnInv DEF SPc
<1>4. CASE SGoto(s, "cycle") /\ UNCHANGED sub
  BY <1>1, <1>4, GoOnInv DEF SPc
<1> QED BY <1>2, <1>3, <1>4 DEF Cycle, Timeout, Woken

(* The caller runs its task itself.                                        *)
LEMMA CallerRunInv ==
  ASSUME PoolAssumption, PoolInv, NEW s \in Submitters, CallerRun(s)
  PROVE  PoolInv'
<1>1. Types
  BY DEF PoolInv
<1>2. PICK k \in Tasks : k = sub[s] /\ k # NoTask
  BY <1>1 DEF PoolInv, Unaccepted, SAt, Types, CallerRun
<1>3. /\ accepted' = accepted \cup {k} /\ ran' = ran \cup {k}
      /\ spc' = [spc EXCEPT ![s] = "idle"] /\ sub' = [sub EXCEPT ![s] = NoTask]
      /\ UNCHANGED <<pool, tasks, worker, ctl, fresh, freed, dropped, setup>>
  BY <1>2 DEF CallerRun, Return, SGoto
<1>4. k \notin accepted \cup fresh /\ ~Queued(k) /\ ~InHand(k) /\ k \notin ran \cup dropped
  BY <1>2 DEF PoolInv, Unaccepted, Placed
<1>5. /\ sub'[s] = NoTask /\ \A t \in Submitters : t # s => sub'[t] = sub[t] /\ spc'[t] = spc[t]
      /\ spc'[s] = "idle"
  BY <1>1, <1>3 DEF Types
<1>6. Types'
  BY <1>1, <1>2, <1>3 DEF Types, SPc, pool, ctl, setup, worker
<1>7. Numbers'
  BY <1>3, NumbersStay DEF PoolInv, pool, ctl
<1>8. Apart'
  BY <1>3, <1>5 DEF PoolInv, Apart, worker
<1>9. Placed'
  BY <1>3, <1>4 DEF PoolInv, Placed, Queued, InHand, WAt, worker
<1>10. Unaccepted'
  <2>1. \A t \in Submitters : t # s => sub[t] # k
    BY <1>2 DEF PoolInv, Apart
  <2>2. NoTask \notin accepted' \cup fresh'
    BY <1>6 DEF Types, PoolAssumption
  <2> QED BY <2>1, <2>2, <1>3, <1>4, <1>5 DEF PoolInv, Unaccepted, SAt
<1> QED BY <1>6, <1>7, <1>8, <1>9, <1>10 DEF PoolInv

-----------------------------------------------------------------------------
(* WorkerProc.                                                             *)
LEMMA CheckInv ==
  ASSUME PoolAssumption, PoolInv, NEW w \in Workers, Check(w)
  PROVE  PoolInv'
<1>1. Types
  BY DEF PoolInv
<1>2. WAt(w, "check") /\ UNCHANGED <<pool, sub, ctl, ghost, setup>>
  BY DEF Check
<1>3. Numbers'
  BY <1>2, NumbersStay DEF PoolInv, pool, ctl
<1>4. ASSUME UNCHANGED <<job, tasks, spc>>, NEW p \in {"leave", "wait"}, WGoto(w, p)
      PROVE  PoolInv'
  <2>1. wpc' = [wpc EXCEPT ![w] = p] /\ wpc[w] = "check"
    BY <1>2, <1>4 DEF WGoto, WAt
  <2>2. Types'
    BY <1>1, <1>2, <1>4, <2>1 DEF Types, WPc, pool, ctl, ghost, setup
  <2>3. TasksStay
    BY <1>1, <1>2, <1>4, <2>1 DEF TasksStay, Types, WAt, SAt, ghost
  <2> QED BY <1>3, <2>2, <2>3, TasksStayInv
<1>5. ASSUME tasks # <<>>, job' = [job EXCEPT ![w] = Head(tasks)], tasks' = Tail(tasks),
             WGoto(w, "run"),
             spc' \in WakeSome(spc, "blocked", "woken", 1) \/ UNCHANGED spc
      PROVE  PoolInv'
  <2>1. wpc' = [wpc EXCEPT ![w] = "run"] /\ wpc[w] = "check"
    BY <1>2, <1>5 DEF WGoto, WAt
  <2>2. PICK k \in Tasks : k = Head(tasks) /\ Queued(k) /\ k # NoTask
    BY <1>1, <1>5, QueuedLess DEF PoolInv, Apart, Types, PoolAssumption
  <2>3. /\ tasks' \in Seq(Tasks) /\ \A j \in Tasks : Queued(j)' <=> Queued(j) /\ j # k
        /\ \A i, j \in 1 .. Len(tasks') : tasks'[i] = tasks'[j] => i = j
    BY <1>1, <1>5, <2>2, QueuedLess DEF PoolInv, Apart, Types
  <2>4. /\ spc' \in [Submitters -> SPc]
        /\ \A s \in Submitters : spc'[s] = spc[s] \/ (spc[s] = "blocked" /\ spc'[s] = "woken")
    BY <1>1, <1>5, SubmittersWake DEF Types
  <2>5. /\ job'[w] = k /\ wpc'[w] = "run"
        /\ \A v \in Workers : v # w => job'[v] = job[v] /\ wpc'[v] = wpc[v]
    BY <1>1, <1>5, <2>1, <2>2 DEF Types
  <2>6. ~InHand(k) /\ k \in accepted /\ k \notin ran \cup dropped /\ job[w] = NoTask
    BY <2>1, <2>2 DEF PoolInv, Placed, WAt
  <2>7. Types'
    BY <1>1, <1>2, <1>5, <2>1, <2>2, <2>3, <2>4 DEF Types, WPc, pool, ctl, ghost, setup
  <2>8. Apart'
    BY <1>2, <2>3, <2>5, <2>6 DEF PoolInv, Apart, InHand
  <2>9. \A j \in Tasks : InHand(j)' <=> InHand(j) \/ j = k
    BY <2>2, <2>5, <2>6, <1>1 DEF InHand, PoolAssumption
  <2>10. Placed'
    <3>1. \A v \in Workers : wpc'[v] = "run" <=> job'[v] # NoTask
      BY <2>2, <2>5 DEF PoolInv, Placed, WAt
    <3> QED BY <1>2, <2>3, <2>6, <2>9, <3>1 DEF PoolInv, Placed, WAt, ghost
  <2>11. Unaccepted'
    BY <1>2, <2>4 DEF PoolInv, Unaccepted, SAt, ghost
  <2> QED BY <1>3, <2>7, <2>8, <2>10, <2>11 DEF PoolInv
<1>6. CASE tasks # <<>>
  BY <1>5, <1>6 DEF Check
<1>7. CASE tasks = <<>>
  BY <1>4, <1>7 DEF Check
<1> QED BY <1>6, <1>7

LEMMA RunInv ==
  ASSUME PoolAssumption, PoolInv, NEW w \in Workers, Run(w)
  PROVE  PoolInv'
<1>1. Types
  BY DEF PoolInv
<1>2. wpc[w] = "run" /\ job[w] # NoTask
  BY DEF Run, PoolInv, Placed, WAt
<1>3. PICK k \in Tasks : k = job[w] /\ k # NoTask
  BY <1>1, <1>2 DEF Types
<1>4. /\ ran' = ran \cup {k} /\ job' = [job EXCEPT ![w] = NoTask]
      /\ wpc' = [wpc EXCEPT ![w] = "check"]
      /\ UNCHANGED <<pool, tasks, submit, ctl, fresh, accepted, dropped, setup>>
  BY <1>3 DEF Run, WGoto
<1>5. /\ job'[w] = NoTask /\ wpc'[w] = "check"
      /\ \A v \in Workers : v # w => job'[v] = job[v] /\ wpc'[v] = wpc[v]
  BY <1>1, <1>4 DEF Types
<1>6. InHand(k) /\ k \in accepted /\ ~Queued(k) /\ k \notin ran \cup dropped
  <2>1. InHand(k)
    BY <1>3 DEF InHand
  <2> QED BY <2>1 DEF PoolInv, Placed
<1>7. Types'
  BY <1>1, <1>3, <1>4 DEF Types, WPc, pool, ctl, submit, setup
<1>8. Numbers'
  BY <1>4, NumbersStay DEF PoolInv, pool, ctl
<1>9. Apart'
  BY <1>4, <1>5 DEF PoolInv, Apart, submit
<1>10. Placed'
  <2>1. \A v \in Workers : wpc'[v] = "run" <=> job'[v] # NoTask
    BY <1>5 DEF PoolInv, Placed, WAt
  <2>2. \A v \in Workers : v # w => job[v] # k
    BY <1>3 DEF PoolInv, Apart
  <2>3. \A j \in Tasks : InHand(j)' <=> InHand(j) /\ j # k
    BY <1>3, <1>5, <2>2 DEF InHand, PoolAssumption
  <2>4. \A j \in Tasks : Queued(j)' <=> Queued(j)
    BY <1>4 DEF Queued
  <2> QED BY <1>4, <1>6, <2>1, <2>3, <2>4 DEF PoolInv, Placed, WAt
<1>11. Unaccepted'
  BY <1>4 DEF PoolInv, Unaccepted, SAt, submit
<1> QED BY <1>7, <1>8, <1>9, <1>10, <1>11 DEF PoolInv

LEMMA LeaveInv ==
  ASSUME PoolAssumption, PoolInv, NEW w \in Workers, Leave(w)
  PROVE  PoolInv'
<1>1. Types
  BY DEF PoolInv
<1>2. PICK p \in WPc \ {"run"} : wpc' = [wpc EXCEPT ![w] = p] /\ wpc[w] = "leave"
  BY DEF Leave, WPc, WGoto, WAt
<1>3. /\ threads' \subseteq Workers
      /\ UNCHANGED <<state, count, cs, tasks, job, submit, ctl, ghost, setup>>
  BY <1>1 DEF Leave, Types
<1>4. Types'
  BY <1>1, <1>2, <1>3 DEF Types, submit, ctl, ghost, setup
<1>5. Numbers'
  BY <1>3, NumbersStay DEF PoolInv, ctl
<1>6. TasksStay
  BY <1>1, <1>2, <1>3 DEF TasksStay, Types, WAt, SAt, submit, ghost
<1> QED BY <1>4, <1>5, <1>6, TasksStayInv

LEMMA NotifyInv ==
  ASSUME PoolAssumption, PoolInv, NEW w \in Workers, Notify(w)
  PROVE  PoolInv'
<1>1. Types
  BY DEF PoolInv
<1>2. /\ wpc' = [wpc EXCEPT ![w] = "none"] /\ wpc[w] = "notify"
      /\ cpc' = [cpc EXCEPT !["stop"] = IF @ = "sem_blocked" THEN "sem_test" ELSE @]
      /\ UNCHANGED <<pool, tasks, job, submit, want, todo, adjusts, ghost, setup>>
  BY DEF Notify, WGoto, WAt
<1>3. Types'
  BY <1>1, <1>2 DEF Types, WPc, CPc, Callers, pool, submit, ghost, setup
<1>4. Numbers'
  <2>1. \A c \in Callers : Spawning(c)' <=> Spawning(c)
    BY <1>1, <1>2 DEF Types, Spawning
  <2> QED BY <1>2, <2>1 DEF PoolInv, Numbers, pool
<1>5. TasksStay
  BY <1>1, <1>2 DEF TasksStay, Types, WAt, SAt, submit, ghost
<1> QED BY <1>3, <1>4, <1>5, TasksStayInv

-----------------------------------------------------------------------------
(* DoAdjustThreadCount.                                                    *)
LEMMA SizeOfPool == PoolAssumption => Most \in Nat
BY FS_CardinalityType DEF PoolAssumption, Most

LEMMA CallerSteps ==
  ASSUME Types, NEW c \in Callers, NEW p \in CPc, CGoto(c, p)
  PROVE  /\ cpc' \in [Callers -> CPc] /\ cpc'[c] = p
         /\ \A d \in Callers : d # c => cpc'[d] = cpc[d]
BY DEF Types, CGoto

LEMMA AfterIs ==
  ASSUME NEW c \in Callers
  PROVE  After(c) \in {"set", "sem_test", "idle"}
BY DEF After, Callers

LEMMA AdjEnterInv ==
  ASSUME PoolAssumption, PoolInv, NEW c \in Callers, AdjEnter(c)
  PROVE  PoolInv'
<1>1. Types /\ Most \in Nat
  BY SizeOfPool DEF PoolInv
<1>2. /\ cpc[c] = "adj_enter" /\ cs = "free"
      /\ UNCHANGED <<state, threads, tasks, worker, submit, want, adjusts, ghost, setup>>
  BY DEF AdjEnter, CAt
<1>3. \A d \in Callers : ~Spawning(d)
  BY <1>2 DEF PoolInv, Numbers, Callers
<1>4. TasksStay
  BY <1>2 DEF TasksStay, worker, submit, ghost, WAt, SAt
<1>5. /\ want[c] \in 0 .. Most /\ count \in Nat /\ todo \in [Callers -> 0 .. Most]
      /\ count <= Most
  BY <1>1 DEF Types, PoolInv, Numbers
<1>6. ASSUME NEW p \in CPc, CGoto(c, p), NEW n \in 0 .. Most, todo' = [todo EXCEPT ![c] = n],
             count' \in Nat, cs' \in Callers \cup {"free"}
      PROVE  Types'
  BY <1>1, <1>2, <1>6, CallerSteps DEF Types, worker, submit, ghost, setup
<1>7. CASE /\ want[c] > count
           /\ cs' = c /\ CGoto(c, "adj_spawn")
           /\ todo' = [todo EXCEPT ![c] = want[c] - count]
           /\ UNCHANGED count
  <2>1. want[c] - count \in 0 .. Most /\ want[c] - count > 0 /\ count + (want[c] - count) <= Most
    BY <1>1, <1>5, <1>7
  <2>2. Types'
    BY <1>5, <1>6, <1>7, <2>1 DEF CPc
  <2>3. cpc'[c] = "adj_spawn" /\ \A d \in Callers : d # c => cpc'[d] = cpc[d]
    BY <1>1, <1>7, CallerSteps DEF CPc
  <2>4. todo'[c] = want[c] - count
    BY <1>5, <1>7
  <2>5. Numbers'
    BY <1>3, <1>5, <1>7, <2>1, <2>3, <2>4 DEF Numbers, Spawning
  <2> QED BY <1>4, <2>2, <2>5, TasksStayInv
<1>8. CASE /\ want[c] < count
           /\ count' = want[c] /\ CGoto(c, "adj_notify")
           /\ todo' = [todo EXCEPT ![c] = count - want[c]]
           /\ UNCHANGED cs
  <2>1. count - want[c] \in 0 .. Most /\ want[c] \in Nat /\ want[c] <= Most
    BY <1>1, <1>5, <1>8
  <2>2. Types'
    BY <1>2, <1>6, <1>8, <2>1 DEF CPc
  <2>3. cpc'[c] = "adj_notify" /\ \A d \in Callers : d # c => cpc'[d] = cpc[d]
    BY <1>1, <1>8, CallerSteps DEF CPc
  <2>4. Numbers'
    BY <1>2, <1>3, <1>8, <2>1, <2>3 DEF Numbers, Spawning, Callers
  <2> QED BY <1>4, <2>2, <2>4, TasksStayInv
<1>9. CASE CGoto(c, After(c)) /\ UNCHANGED <<cs, count, todo>>
  <2>1. After(c) \in CPc /\ After(c) \notin {"adj_spawn", "adj_count"}
    BY AfterIs DEF CPc
  <2>2. Types'
    BY <1>1, <1>2, <1>9, <2>1, CallerSteps DEF Types, worker, submit, ghost, setup
  <2>3. cpc'[c] = After(c) /\ \A d \in Callers : d # c => cpc'[d] = cpc[d]
    BY <1>1, <1>9, <2>1, CallerSteps
  <2>4. Numbers'
    BY <1>2, <1>3, <1>5, <1>9, <2>1, <2>3 DEF Numbers, Spawning, Callers
  <2> QED BY <1>4, <2>2, <2>4, TasksStayInv
<1> QED BY <1>7, <1>8, <1>9 DEF AdjEnter

LEMMA AdjSpawnInv ==
  ASSUME PoolAssumption, PoolInv, NEW c \in Callers, AdjSpawn(c)
  PROVE  PoolInv'
<1>1. Types
  BY DEF PoolInv
<1>2. PICK w \in Workers : /\ wpc[w] = "none" /\ threads' = threads \cup {w}
                           /\ wpc' = [wpc EXCEPT ![w] = "check"]
  BY DEF AdjSpawn, WAt, WGoto
<1>3. /\ cpc[c] = "adj_spawn" /\ CGoto(c, "adj_count")
      /\ UNCHANGED <<state, count, cs, tasks, job, submit, want, todo, adjusts, ghost, setup>>
  BY DEF AdjSpawn, CAt
<1>4. /\ cpc' \in [Callers -> CPc] /\ cpc'[c] = "adj_count"
      /\ \A d \in Callers : d # c => cpc'[d] = cpc[d]
  BY <1>1, <1>3, CallerSteps DEF CPc
<1>5. Types'
  BY <1>1, <1>2, <1>3, <1>4 DEF Types, WPc, submit, ghost, setup
<1>6. Numbers'
  <2>1. \A d \in Callers : Spawning(d)' <=> Spawning(d)
    BY <1>3, <1>4 DEF Spawning
  <2> QED BY <1>3, <2>1 DEF PoolInv, Numbers
<1>7. TasksStay
  BY <1>1, <1>2, <1>3 DEF TasksStay, Types, WAt, SAt, submit, ghost
<1> QED BY <1>5, <1>6, <1>7, TasksStayInv

LEMMA AdjCountInv ==
  ASSUME PoolAssumption, PoolInv, NEW c \in Callers, AdjCount(c)
  PROVE  PoolInv'
<1>1. Types /\ Most \in Nat
  BY SizeOfPool DEF PoolInv
<1>2. /\ cpc[c] = "adj_count" /\ count' = count + 1 /\ todo' = [todo EXCEPT ![c] = @ - 1]
      /\ UNCHANGED <<state, threads, tasks, worker, submit, want, adjusts, ghost, setup>>
  BY DEF AdjCount, CAt
<1>3. /\ cs = c /\ todo[c] > 0 /\ count + todo[c] <= Most /\ \A d \in Callers : Spawning(d) => d = c
  BY <1>2 DEF PoolInv, Numbers, Spawning
<1>4. /\ count \in Nat /\ todo[c] \in 0 .. Most /\ todo[c] - 1 \in 0 .. Most
      /\ todo' \in [Callers -> 0 .. Most] /\ todo'[c] = todo[c] - 1
  <2>1. todo \in [Callers -> 0 .. Most] /\ count \in Nat
    BY <1>1 DEF Types
  <2>2. todo[c] - 1 \in 0 .. Most
    BY <2>1, <1>1, <1>3
  <2> QED BY <2>1, <2>2, <1>2
<1>5. TasksStay
  BY <1>2 DEF TasksStay, worker, submit, ghost, WAt, SAt
<1>6. CASE todo[c] = 1 /\ cs' = "free" /\ CGoto(c, After(c))
  <2>1. After(c) \in CPc /\ After(c) \notin {"adj_spawn", "adj_count"}
    BY AfterIs DEF CPc
  <2>2. /\ cpc' \in [Callers -> CPc] /\ cpc'[c] = After(c)
        /\ \A d \in Callers : d # c => cpc'[d] = cpc[d]
    BY <1>1, <1>6, <2>1, CallerSteps
  <2>3. Types'
    BY <1>1, <1>2, <1>4, <1>6, <2>2 DEF Types, worker, submit, ghost, setup
  <2>4. Numbers'
    BY <1>1, <1>2, <1>3, <1>4, <1>6, <2>1, <2>2 DEF Numbers, Spawning, Callers
  <2> QED BY <1>5, <2>3, <2>4, TasksStayInv
<1>7. CASE todo[c] # 1 /\ CGoto(c, "adj_spawn") /\ UNCHANGED cs
  <2>1. /\ cpc' \in [Callers -> CPc] /\ cpc'[c] = "adj_spawn"
        /\ \A d \in Callers : d # c => cpc'[d] = cpc[d]
    BY <1>1, <1>7, CallerSteps DEF CPc
  <2>2. Types'
    BY <1>1, <1>2, <1>4, <1>7, <2>1 DEF Types, worker, submit, ghost, setup
  <2>3. count' <= Most /\ todo'[c] > 0 /\ count' + todo'[c] <= Most
    BY <1>1, <1>2, <1>3, <1>4, <1>7
  <2>4. Numbers'
    BY <1>3, <1>7, <2>1, <2>3 DEF Numbers, Spawning
  <2> QED BY <1>5, <2>2, <2>4, TasksStayInv
<1> QED BY <1>6, <1>7 DEF AdjCount

LEMMA AdjNotifyInv ==
  ASSUME PoolAssumption, PoolInv, NEW c \in Callers, AdjNotify(c)
  PROVE  PoolInv'
<1>1. Types /\ Most \in Nat
  BY SizeOfPool DEF PoolInv
<1>2. /\ cpc[c] = "adj_notify" /\ NotifyTask(todo[c]) /\ todo' = [todo EXCEPT ![c] = 0]
      /\ CGoto(c, After(c))
      /\ UNCHANGED <<pool, tasks, job, submit, want, adjusts, ghost, setup>>
  BY DEF AdjNotify, CAt
<1>3. /\ wpc' \in [Workers -> WPc]
      /\ \A w \in Workers : wpc'[w] = wpc[w] \/ (wpc[w] = "wait" /\ wpc'[w] = "check")
  BY <1>1, <1>2, WorkersWake
<1>4. After(c) \in CPc /\ After(c) \notin {"adj_spawn", "adj_count"}
  BY AfterIs DEF CPc
<1>5. /\ cpc' \in [Callers -> CPc] /\ cpc'[c] = After(c)
      /\ \A d \in Callers : d # c => cpc'[d] = cpc[d]
  BY <1>1, <1>2, <1>4, CallerSteps
<1>6. Types'
  <2>1. todo' \in [Callers -> 0 .. Most]
    BY <1>1, <1>2 DEF Types
  <2> QED BY <1>1, <1>2, <1>3, <1>5, <2>1 DEF Types, pool, submit, ghost, setup
<1>7. Numbers'
  <2>1. \A d \in Callers : Spawning(d)' => Spawning(d) /\ d # c
    BY <1>4, <1>5 DEF Spawning
  <2>2. \A d \in Callers : d # c => todo'[d] = todo[d] /\ (Spawning(d) => Spawning(d)')
    BY <1>1, <1>2, <1>5 DEF Types, Spawning
  <2>3. ~Spawning(c)
    BY <1>2 DEF Spawning
  <2> QED BY <1>2, <2>1, <2>2, <2>3 DEF PoolInv, Numbers, pool
<1>8. TasksStay
  BY <1>2, <1>3 DEF TasksStay, WAt, SAt, submit, ghost
<1> QED BY <1>6, <1>7, <1>8, TasksStayInv

-----------------------------------------------------------------------------
(* Start, Stop and AdjustThreadCount leave the tasks alone until Stop()    *)
(* destructs what is left.                                                 *)
LEMMA ControlInv ==
  ASSUME PoolAssumption, PoolInv, NEW c \in Callers, NEW p \in CPc, CGoto(c, p),
         ~Spawning(c), p \notin {"adj_spawn", "adj_count"},
         state' \in {"STOPPED", "STARTING", "STARTED", "STOPPING"},
         policy' \in Policies \cup {"CALL_FAIL"}, maxQueue' \in {0, MaxQueue},
         want' \in [Callers -> 0 .. Most],
         spc' \in WakeSome(spc, "blocked", "woken", Cardinality(Submitters)) \/ UNCHANGED spc,
         UNCHANGED <<count, threads, cs, tasks, worker, sub, todo, ghost>>
  PROVE  PoolInv'
<1>1. Types
  BY DEF PoolInv
<1>2. /\ cpc' \in [Callers -> CPc] /\ cpc'[c] = p
      /\ \A d \in Callers : d # c => cpc'[d] = cpc[d]
  BY <1>1, CallerSteps
<1>3. /\ spc' \in [Submitters -> SPc]
      /\ \A s \in Submitters : spc'[s] = spc[s] \/ (spc[s] = "blocked" /\ spc'[s] = "woken")
  BY <1>1, SubmittersWake DEF Types
<1>4. Types'
  BY <1>1, <1>2, <1>3 DEF Types, worker, ghost
<1>5. \A d \in Callers : Spawning(d)' <=> Spawning(d)
  BY <1>2 DEF Spawning
<1>6. Numbers'
  BY <1>5 DEF PoolInv, Numbers
<1>7. TasksStay
  BY <1>3 DEF TasksStay, WAt, SAt, worker, ghost
<1> QED BY <1>4, <1>6, <1>7, TasksStayInv

LEMMA StartInv ==
  ASSUME PoolAssumption, PoolInv, Start \/ SetStarted \/ AdjustThreadCount
  PROVE  PoolInv'
<1>1. Types /\ Most \in Nat
  BY SizeOfPool DEF PoolInv
<1>2. /\ {"start", "adjust"} \subseteq Callers /\ {"adj_enter", "done"} \subseteq CPc
      /\ want \in [Callers -> 0 .. Most]
  BY <1>1 DEF Callers, CPc, Types
<1>3. CASE Start
  <2>1. /\ CGoto("start", "adj_enter") /\ cpc["start"] = "idle" /\ state' = "STARTING"
        /\ policy' \in Policies /\ maxQueue' = MaxQueue
        /\ want' = [want EXCEPT !["start"] = Threads0]
        /\ UNCHANGED <<count, threads, cs, tasks, worker, submit, todo, ghost>>
    BY <1>3 DEF Start, CAt
  <2>2. want' \in [Callers -> 0 .. Most]
    BY <1>1, <1>2, <2>1 DEF PoolAssumption, Most
  <2> QED BY <1>2, <2>1, <2>2, ControlInv DEF Spawning, submit
<1>4. CASE SetStarted
  BY <1>1, <1>2, <1>4, ControlInv DEF SetStarted, CAt, Spawning, submit, setup, Types
<1>5. CASE AdjustThreadCount
  <2>1. PICK n \in Targets : want' = [want EXCEPT !["adjust"] = n]
    BY <1>5 DEF AdjustThreadCount
  <2>2. want' \in [Callers -> 0 .. Most]
    BY <1>1, <1>2, <2>1 DEF PoolAssumption, Most
  <2> QED BY <1>1, <1>2, <1>5, <2>2, ControlInv
          DEF AdjustThreadCount, CAt, Spawning, submit, setup, pool, Types
<1> QED BY <1>3, <1>4, <1>5

LEMMA DrainInv ==
  ASSUME PoolAssumption, PoolInv, Drain
  PROVE  PoolInv'
<1>1. Types /\ Most \in Nat
  BY SizeOfPool DEF PoolInv
<1>2. /\ dropped' = dropped \cup {tasks[i] : i \in 1 .. Len(tasks)}
      /\ tasks' = <<>> /\ count' = 0 /\ state' = "STOPPED"
      /\ policy' = "CALL_FAIL" /\ maxQueue' = 0 /\ cpc["stop"] = "drain"
      /\ CGoto("stop", "done")
      /\ UNCHANGED <<threads, cs, worker, submit, want, todo, adjusts, fresh, accepted, ran, freed>>
  <2>1. DOMAIN tasks = 1 .. Len(tasks)
    BY <1>1 DEF Types
  <2> QED BY <2>1 DEF Drain, CAt
<1>3. /\ cpc' \in [Callers -> CPc] /\ cpc'["stop"] = "done"
      /\ \A d \in Callers : d # "stop" => cpc'[d] = cpc[d]
  BY <1>1, <1>2, CallerSteps DEF CPc, Callers
<1>4. \A i \in 1 .. Len(tasks) : tasks[i] \in Tasks
  BY <1>1, ElementOfSeq DEF Types
<1>5. \A k \in Tasks : k \in dropped' <=> k \in dropped \/ Queued(k)
  BY <1>2 DEF Queued
<1>6. tasks' \in Seq(Tasks) /\ Len(tasks') = 0 /\ \A k \in Tasks : ~Queued(k)'
  <2>1. tasks' \in Seq(Tasks) /\ Len(tasks') = 0
    BY <1>2, EmptySeq
  <2> QED BY <2>1 DEF Queued
<1>7. Types'
  BY <1>1, <1>2, <1>3, <1>4, <1>6 DEF Types, worker, submit
<1>8. Numbers'
  <2>1. \A d \in Callers : Spawning(d)' <=> Spawning(d)
    BY <1>2, <1>3 DEF Spawning
  <2>2. \A d \in Callers : Spawning(d) => count' + todo[d] <= Most
    BY <1>1, <1>2 DEF Types
  <2> QED BY <1>1, <1>2, <2>1, <2>2 DEF PoolInv, Numbers
<1>9. Apart'
  BY <1>2, <1>6 DEF PoolInv, Apart, worker, submit
<1>10. Placed'
  BY <1>2, <1>5, <1>6 DEF PoolInv, Placed, InHand, WAt, worker
<1>11. Unaccepted'
  BY <1>2 DEF PoolInv, Unaccepted, SAt, submit
<1> QED BY <1>7, <1>8, <1>9, <1>10, <1>11 DEF PoolInv

LEMMA ShutdownInv ==
  ASSUME PoolAssumption, PoolInv, Stop \/ StopSteps
  PROVE  PoolInv'
<1>1. Types /\ Most \in Nat
  BY SizeOfPool DEF PoolInv
<1>2. /\ "stop" \in Callers /\ CPc \ {"adj_spawn", "adj_count"} \subseteq CPc
      /\ {"release", "cas2", "spin", "done", "adj_enter", "drain", "sem_block", "sem_blocked"}
           \subseteq CPc \ {"adj_spawn", "adj_count"}
      /\ want \in [Callers -> 0 .. Most]
  BY <1>1 DEF Callers, CPc, Types
<1>3. ASSUME NEW p \in CPc \ {"adj_spawn", "adj_count"}, CGoto("stop", p), ~Spawning("stop"),
             state' \in {state, "STOPPING"},
             UNCHANGED <<count, threads, cs, tasks, worker, submit, want, todo, ghost, setup>>
      PROVE  PoolInv'
  BY <1>1, <1>2, <1>3, ControlInv DEF Types, submit, setup
<1>4. CASE Stop
  BY <1>2, <1>3, <1>4 DEF Stop, CAt, Spawning
<1>5. CASE StopCas2
  BY <1>2, <1>3, <1>5 DEF StopCas2, CAt, Spawning
<1>6. CASE StopSpin
  BY <1>2, <1>3, <1>6 DEF StopSpin, CAt, Spawning, pool
<1>7. CASE Release
  <2>1. want' \in [Callers -> 0 .. Most]
    BY <1>1, <1>2, <1>7 DEF Release
  <2>2. spc' \in WakeSome(spc, "blocked", "woken", Cardinality(Submitters)) \/ UNCHANGED spc
    BY <1>7 DEF Release
  <2> QED BY <1>1, <1>2, <1>7, <2>1, <2>2, ControlInv
          DEF Release, CAt, Spawning, pool, setup, Types
<1>8. CASE SemTest
  BY <1>2, <1>3, <1>8 DEF SemTest, CAt, Spawning, pool
<1>9. CASE SemBlock
  BY <1>2, <1>3, <1>9 DEF SemBlock, CAt, Spawning, pool
<1> QED BY <1>4, <1>5, <1>6, <1>7, <1>8, <1>9, DrainInv DEF StopSteps

-----------------------------------------------------------------------------
LEMMA InitPoolInv == PoolAssumption /\ Init => PoolInv
<1> SUFFICES ASSUME PoolAssumption, Init PROVE PoolInv
  OBVIOUS
<1>1. Most \in Nat /\ tasks \in Seq(Tasks) /\ Len(tasks) = 0
  BY SizeOfPool, EmptySeq DEF Init
<1>2. Types
  BY <1>1 DEF Types, Init, WPc, SPc, CPc
<1>3. Numbers
  BY <1>1 DEF Numbers, Init, Spawning, Callers
<1>4. Apart
  BY <1>1 DEF Apart, Init
<1>5. Placed
  BY <1>1 DEF Placed, Init, WAt, Queued, InHand, PoolAssumption
<1>6. Unaccepted
  BY DEF Unaccepted, Init, SAt, PoolAssumption
<1> QED BY <1>2, <1>3, <1>4, <1>5, <1>6 DEF PoolInv

LEMMA NextPoolInv == PoolAssumption /\ PoolInv /\ [Next]_vars => PoolInv'
<1> SUFFICES ASSUME PoolAssumption, PoolInv, [Next]_vars PROVE PoolInv'
  OBVIOUS
<1>1. ASSUME NEW s \in Submitters, Submit(s) \/ SubmitSteps(s) \/ Timeout(s) PROVE PoolInv'
  BY <1>1, SubmitInv, DirectInv, TryInv, WaitInv, CallerRunInv DEF SubmitSteps
<1>2. ASSUME NEW w \in Workers, WorkerSteps(w) PROVE PoolInv'
  BY <1>2, CheckInv, RunInv, LeaveInv, NotifyInv DEF WorkerSteps
<1>3. ASSUME NEW c \in Callers, Adjust(c) PROVE PoolInv'
  BY <1>3, AdjEnterInv, AdjSpawnInv, AdjCountInv, AdjNotifyInv DEF Adjust
<1>4. CASE UNCHANGED vars
  <2>1. Types' /\ Numbers'
    BY <1>4 DEF PoolInv, Types, Numbers, Spawning, vars, pool, setup, worker, submit, ctl, ghost
  <2>2. TasksStay
    BY <1>4 DEF TasksStay, vars, worker, submit, ghost, WAt, SAt
  <2> QED BY <2>1, <2>2, TasksStayInv
<1> QED BY <1>1, <1>2, <1>3, <1>4, StartInv, ShutdownInv DEF Next

-----------------------------------------------------------------------------
LEMMA One ==
  ASSUME NEW S, \A x, y \in S : x = y
  PROVE  Cardinality(S) = IF S = {} THEN 0 ELSE 1
<1>1. CASE S = {}
  BY <1>1, FS_EmptySet
<1>2. CASE S # {}
  <2>1. PICK x \in S : TRUE
    BY <1>2
  <2>2. S = {x}
    BY <2>1
  <2> QED BY <2>2, <1>2, FS_Singleton
<1> QED BY <1>1, <1>2

LEMMA AcceptedOnceHolds == PoolAssumption /\ PoolInv => AcceptedOnce
<1> SUFFICES ASSUME PoolAssumption, PoolInv, NEW k \in Tasks
             PROVE  Places(k) = IF k \in accepted THEN 1 ELSE 0
  BY DEF AcceptedOnce
<1>1. /\ Queued(k) => ~InHand(k) /\ k \notin ran \cup dropped
      /\ InHand(k) => k \notin ran \cup dropped
      /\ ~(k \in ran /\ k \in dropped)
      /\ k \in accepted <=> Queued(k) \/ InHand(k) \/ k \in ran \cup dropped
  BY DEF PoolInv, Placed
<1>2. Cardinality({i \in DOMAIN tasks : tasks[i] = k}) = IF Queued(k) THEN 1 ELSE 0
  <2> DEFINE S == {i \in DOMAIN tasks : tasks[i] = k}
  <2>1. DOMAIN tasks = 1 .. Len(tasks)
    BY DEF PoolInv, Types
  <2>2. (\A i, j \in S : i = j) /\ (S = {} <=> ~Queued(k))
    BY <2>1 DEF PoolInv, Apart, Queued
  <2> HIDE DEF S
  <2>3. Cardinality(S) = IF Queued(k) THEN 1 ELSE 0
    BY <2>2, One
  <2> QED BY <2>3 DEF S
<1>3. Cardinality({w \in Workers : job[w] = k}) = IF InHand(k) THEN 1 ELSE 0
  <2> DEFINE S == {w \in Workers : job[w] = k}
  <2>1. k # NoTask
    BY DEF PoolAssumption
  <2>2. (\A v, w \in S : v = w) /\ (S = {} <=> ~InHand(k))
    BY <2>1 DEF PoolInv, Apart, InHand
  <2> HIDE DEF S
  <2>3. Cardinality(S) = IF InHand(k) THEN 1 ELSE 0
    BY <2>2, One
  <2> QED BY <2>3 DEF S
<1>4. /\ Cardinality({1} \cap {IF k \in ran THEN 1 ELSE 0}) = IF k \in ran THEN 1 ELSE 0
      /\ Cardinality({1} \cap {IF k \in dropped THEN 1 ELSE 0}) = IF k \in dropped THEN 1 ELSE 0
  <2>1. {1} \cap {1} = {1} /\ {1} \cap {0} = {}
    OBVIOUS
  <2> QED BY <2>1, FS_EmptySet, FS_Singleton
<1> QED BY <1>1, <1>2, <1>3, <1>4 DEF Places

LEMMA TypeOKHolds == PoolAssumption /\ PoolInv => TypeOK
<1> SUFFICES ASSUME PoolAssumption, PoolInv PROVE TypeOK
  OBVIOUS
<1>1. Most \in Nat
  BY SizeOfPool
<1>2. Types /\ count <= Most
  BY DEF PoolInv, Numbers
<1> QED BY <1>1, <1>2 DEF Types, TypeOK, Most, WPc, SPc

(* A task that was accepted is queued, in a worker's hands, run or         *)
(* dropped, in one of these places only; a task that was not is in none    *)
(* (Submit, WorkerProc, Shutdown).                                         *)
THEOREM PoolAcceptedOnce ==
  ASSUME PoolAssumption PROVE Spec => [](TypeOK /\ AcceptedOnce)
<1>1. Init => PoolInv
  BY InitPoolInv
<1>2. PoolInv /\ [Next]_vars => PoolInv'
  BY NextPoolInv
<1>3. PoolInv => TypeOK /\ AcceptedOnce
  BY TypeOKHolds, AcceptedOnceHolds
<1> QED BY <1>1, <1>2, <1>3, PTL DEF Spec

-----------------------------------------------------------------------------
(* Where Stop() comes after Start() and sleeps long enough.                *)
LEMMA BusyFinite ==
  ASSUME PoolAssumption, Types
  PROVE  /\ IsFiniteSet(threads) /\ Cardinality(threads) \in Nat
         /\ IsFiniteSet(Busy) /\ Cardinality(Busy) \in Nat
         /\ \A c \in Callers : Owes(c) \in Nat
<1>1. IsFiniteSet(threads) /\ IsFiniteSet(Busy)
  BY FS_Subset DEF PoolAssumption, Types, Busy
<1>2. Most \in Nat
  BY SizeOfPool
<1> QED BY <1>1, <1>2, FS_CardinalityType DEF Types, Owes

LEMMA BusyFiniteNext ==
  ASSUME PoolAssumption, Types'
  PROVE  /\ IsFiniteSet(threads') /\ Cardinality(threads') \in Nat
         /\ IsFiniteSet(Busy') /\ Cardinality(Busy') \in Nat
         /\ \A c \in Callers : Owes(c)' \in Nat
<1>1. IsFiniteSet(threads') /\ IsFiniteSet(Busy')
  BY FS_Subset DEF PoolAssumption, Types, Busy
<1>2. Most \in Nat
  BY SizeOfPool
<1> QED BY <1>1, <1>2, FS_CardinalityType DEF Types, Owes, Most

(* More workers are busy, each of them a thread as before.                 *)
LEMMA SurplusStays ==
  ASSUME PoolAssumption, Types, Types', Surplus, UNCHANGED <<count, threads>>,
         \A w \in Workers :
           wpc'[w] = wpc[w] \/ (wpc[w] \notin {"none", "notify"} /\ wpc'[w] \in {"check", "run", "leave"})
             \/ (wpc[w] \in {"check", "run", "leave"} /\ wpc'[w] = "wait" /\ count >= Cardinality(threads))
             \/ (wpc[w] = "notify" /\ wpc'[w] = "none"),
         \A c \in Callers : CAt(c, "adj_count")' => CAt(c, "adj_count"),
         Owes("stop")' >= Owes("stop"), Owes("adjust")' >= Owes("adjust")
  PROVE  Surplus'
<1>1. /\ Cardinality(threads) \in Nat /\ Cardinality(Busy) \in Nat /\ IsFiniteSet(Busy')
      /\ Cardinality(Busy') \in Nat /\ count \in Nat
      /\ Owes("stop") \in Nat /\ Owes("stop")' \in Nat
      /\ Owes("adjust") \in Nat /\ Owes("adjust")' \in Nat
  BY BusyFinite, BusyFiniteNext DEF Callers, Types
<1>2. \A w \in Workers : w \in threads' <=> wpc'[w] \notin {"none", "notify"}
  BY DEF Surplus
<1>3. Cardinality(threads) <= count + Cardinality(Busy') + Owes("stop")' + Owes("adjust")'
  <2>1. CASE count >= Cardinality(threads)
    BY <1>1, <2>1
  <2>2. CASE ~(count >= Cardinality(threads))
    <3>1. Busy \subseteq Busy'
      BY <2>2 DEF Busy
    <3>2. Cardinality(Busy) <= Cardinality(Busy')
      BY <3>1, <1>1, FS_Subset
    <3>3. Cardinality(threads) <= count + Cardinality(Busy) + Owes("stop") + Owes("adjust")
      BY DEF Surplus
    <3> QED BY <3>2, <3>3, <1>1
  <2> QED BY <2>1, <2>2
<1> QED BY <1>2, <1>3 DEF Surplus

(* What a submitter does.                                                  *)
LEMMA SubmitterStop ==
  ASSUME PoolAssumption, PoolInv, PoolInv', StopInv,
         NEW s \in Submitters, Submit(s) \/ SubmitSteps(s) \/ Timeout(s)
  PROVE  StopInv'
<1>1. Types /\ Types'
  BY DEF PoolInv
<1>2. UNCHANGED <<state, count, threads, cs, cpc, want, todo, dropped>>
  BY DEF Submit, SubmitSteps, Direct, Cycle, Try, Woken, CallerRun, Timeout, pool, ctl, ghost
<1>3. \/ UNCHANGED <<wpc, tasks>>
      \/ state = "STARTED" /\ Accept(s)
  BY DEF Submit, SubmitSteps, Direct, Cycle, Try, Woken, CallerRun, Timeout, worker
<1>4. \A w \in Workers : wpc'[w] = wpc[w] \/ (wpc[w] = "wait" /\ wpc'[w] = "check")
  BY <1>1, <1>3, WorkersWake DEF Accept
<1>5. Phases' /\ Counts'
  BY <1>2 DEF StopInv, Phases, Counts, Starting, Shutting, Spawning, CAt
<1>6. Surplus'
  <2>1. /\ Owes("stop")' = Owes("stop") /\ Owes("adjust")' = Owes("adjust")
        /\ \A c \in Callers : CAt(c, "adj_count")' => CAt(c, "adj_count")
    BY <1>2 DEF Owes, CAt
  <2>2. Owes("stop") \in Nat /\ Owes("adjust") \in Nat
    BY <1>1, BusyFinite DEF Callers
  <2> QED BY <1>1, <1>2, <1>4, <2>1, <2>2, SurplusStays DEF StopInv
<1>7. Emptied'
  <2>1. CASE UNCHANGED <<wpc, tasks>>
    BY <2>1, <1>2 DEF StopInv, Emptied, Shutting, CAt, WAt
  <2>2. CASE state = "STARTED" /\ Accept(s)
    <3>1. ~Shutting /\ ~CAt("stop", "drain") /\ ~CAt("stop", "done")
      BY <2>2 DEF StopInv, Phases, CAt, Shutting
    <3> QED BY <3>1, <1>2 DEF StopInv, Emptied, Shutting, CAt
  <2> QED BY <2>1, <2>2, <1>3
<1> QED BY <1>5, <1>6, <1>7 DEF StopInv

(* What a worker does.                                                     *)
LEMMA CheckStop ==
  ASSUME PoolAssumption, PoolInv, PoolInv', StopInv, NEW w \in Workers, Check(w) \/ Run(w)
  PROVE  StopInv'
<1>1. Types /\ Types'
  BY DEF PoolInv
<1>2. UNCHANGED <<state, count, threads, cs, cpc, want, todo, dropped>>
  BY DEF Check, Run, pool, ctl, ghost
<1>3. /\ wpc[w] \in {"check", "run"} /\ wpc'[w] \in {"check", "run", "leave", "wait"}
      /\ \A v \in Workers : v # w => wpc'[v] = wpc[v]
      /\ wpc'[w] = "wait" => ~(count < Cardinality(threads))
      /\ wpc'[w] = "leave" => tasks = <<>> /\ tasks' = <<>>
      /\ tasks = <<>> => tasks' = <<>>
  BY <1>1 DEF Check, Run, WAt, WGoto, Types
<1>4. Phases' /\ Counts'
  BY <1>2 DEF StopInv, Phases, Counts, Starting, Shutting, Spawning, CAt
<1>5. Cardinality(threads) \in Nat /\ count \in Nat
  BY <1>1, BusyFinite DEF Types
<1>6. Surplus'
  <2>1. /\ Owes("stop")' = Owes("stop") /\ Owes("adjust")' = Owes("adjust")
        /\ \A c \in Callers : CAt(c, "adj_count")' => CAt(c, "adj_count")
    BY <1>2 DEF Owes, CAt
  <2>2. Owes("stop") \in Nat /\ Owes("adjust") \in Nat
    BY <1>1, BusyFinite DEF Callers
  <2>3. wpc'[w] = "wait" => count >= Cardinality(threads)
    BY <1>3, <1>5
  <2> QED BY <1>1, <1>2, <1>3, <2>1, <2>2, <2>3, SurplusStays DEF StopInv
<1>7. Emptied'
  BY <1>2, <1>3 DEF StopInv, Emptied, Shutting, CAt, WAt
<1> QED BY <1>4, <1>6, <1>7 DEF StopInv

LEMMA LeaveStop ==
  ASSUME PoolAssumption, PoolInv, PoolInv', StopInv, NEW w \in Workers, Leave(w)
  PROVE  StopInv'
<1>1. Types /\ Types'
  BY DEF PoolInv
<1>2. wpc[w] = "leave" /\ UNCHANGED <<state, count, cs, tasks, cpc, want, todo, dropped>>
  BY DEF Leave, WAt, ctl, ghost
<1>3. Phases' /\ Counts'
  BY <1>2 DEF StopInv, Phases, Counts, Starting, Shutting, Spawning, CAt
<1>4. /\ Cardinality(threads) \in Nat /\ Cardinality(Busy) \in Nat /\ count \in Nat
      /\ IsFiniteSet(threads) /\ IsFiniteSet(Busy)
      /\ Owes("stop") \in Nat /\ Owes("adjust") \in Nat
  BY <1>1, BusyFinite DEF Types, Callers
<1>5. Owes("stop")' = Owes("stop") /\ Owes("adjust")' = Owes("adjust")
  BY <1>2 DEF Owes, CAt
<1>6. CASE ~(count < Cardinality(threads))
  <2>1. wpc' = [wpc EXCEPT ![w] = "check"] /\ UNCHANGED threads
    BY <1>6 DEF Leave, WGoto
  <2>2. wpc'[w] = "check" /\ \A v \in Workers : v # w => wpc'[v] = wpc[v]
    BY <1>1, <2>1 DEF Types
  <2>3. \A c \in Callers : CAt(c, "adj_count")' => CAt(c, "adj_count")
    BY <1>2 DEF CAt
  <2>4. Surplus'
    BY <1>1, <1>2, <1>4, <1>5, <2>1, <2>2, <2>3, SurplusStays DEF StopInv
  <2>5. Emptied'
    BY <1>2, <2>1, <2>2 DEF StopInv, Emptied, Shutting, CAt, WAt
  <2> QED BY <1>3, <2>4, <2>5 DEF StopInv
<1>7. CASE count < Cardinality(threads)
  <2>1. /\ cs = "free" /\ threads' = threads \ {w}
        /\ wpc' = [wpc EXCEPT ![w] = IF threads = {w} THEN "notify" ELSE "none"]
    BY <1>7 DEF Leave, WGoto
  <2>2. wpc'[w] \in {"notify", "none"} /\ \A v \in Workers : v # w => wpc'[v] = wpc[v]
    BY <1>1, <2>1 DEF Types
  <2>3. w \in threads /\ w \in Busy
    BY <1>2 DEF StopInv, Surplus, Busy
  <2>4. Busy' = Busy \ {w}
    BY <2>2 DEF Busy
  <2>5. /\ Cardinality(threads') = Cardinality(threads) - 1
        /\ Cardinality(Busy') = Cardinality(Busy) - 1
    BY <1>4, <2>1, <2>3, <2>4, FS_RemoveElement
  <2>6. \A c \in Callers : ~CAt(c, "adj_count")
    BY <2>1 DEF PoolInv, Numbers, Spawning, CAt, Callers
  <2>7. Surplus'
    <3>1. \A v \in Workers : v \in threads' <=> wpc'[v] \notin {"none", "notify"}
      BY <2>1, <2>2 DEF StopInv, Surplus
    <3>2. \A c \in Callers : ~CAt(c, "adj_count")'
      BY <1>2, <2>6 DEF CAt
    <3>3. count' <= Cardinality(threads')
      BY <1>2, <1>4, <1>7, <2>5
    <3>4. Cardinality(threads) <= count + Cardinality(Busy) + Owes("stop") + Owes("adjust")
      BY DEF StopInv, Surplus
    <3>5. Cardinality(threads') <= count' + Cardinality(Busy') + Owes("stop")' + Owes("adjust")'
      BY <1>2, <1>4, <1>5, <2>5, <3>4
    <3> QED BY <3>1, <3>2, <3>3, <3>5 DEF Surplus
  <2>8. Emptied'
    <3>1. Shutting => tasks = <<>>
      BY <1>2 DEF StopInv, Emptied, WAt
    <3>2. Shutting' <=> Shutting
      BY <1>2 DEF Shutting
    <3>3. CAt("stop", "drain")' \/ CAt("stop", "done")' => threads' = {} /\ tasks' = <<>>
      BY <1>2, <2>1 DEF StopInv, Emptied, CAt
    <3>4. dropped' = {}
      BY <1>2 DEF StopInv, Emptied
    <3> QED BY <1>2, <3>1, <3>2, <3>3, <3>4 DEF Emptied
  <2> QED BY <1>3, <2>7, <2>8 DEF StopInv
<1> QED BY <1>6, <1>7

LEMMA NotifyStop ==
  ASSUME PoolAssumption, PoolInv, PoolInv', StopInv, NEW w \in Workers, Notify(w)
  PROVE  StopInv'
<1>1. Types /\ Types'
  BY DEF PoolInv
<1>2. /\ wpc' = [wpc EXCEPT ![w] = "none"] /\ wpc[w] = "notify"
      /\ cpc' = [cpc EXCEPT !["stop"] = IF @ = "sem_blocked" THEN "sem_test" ELSE @]
      /\ UNCHANGED <<state, count, threads, cs, tasks, want, todo, dropped>>
  BY DEF Notify, WGoto, WAt, pool, ghost
<1>3. wpc'[w] = "none" /\ \A v \in Workers : v # w => wpc'[v] = wpc[v]
  BY <1>1, <1>2 DEF Types
<1>4. /\ cpc'["start"] = cpc["start"] /\ cpc'["adjust"] = cpc["adjust"]
      /\ \/ cpc'["stop"] = cpc["stop"]
         \/ cpc["stop"] = "sem_blocked" /\ cpc'["stop"] = "sem_test"
  BY <1>1, <1>2 DEF Types, Callers
<1>5. Phases'
  BY <1>2, <1>4 DEF StopInv, Phases, Starting, Shutting, Spawning, CAt
<1>6. Counts'
  BY <1>2, <1>4 DEF StopInv, Counts, CAt
<1>7. Surplus'
  <2>1. Owes("stop")' = Owes("stop") /\ Owes("adjust")' = Owes("adjust")
    BY <1>2, <1>4 DEF Owes, CAt
  <2>2. \A c \in Callers : CAt(c, "adj_count")' => CAt(c, "adj_count")
    BY <1>4 DEF CAt, Callers
  <2>3. Owes("stop") \in Nat /\ Owes("adjust") \in Nat
    BY <1>1, BusyFinite DEF Callers
  <2> QED BY <1>1, <1>2, <1>3, <2>1, <2>2, <2>3, SurplusStays DEF StopInv
<1>8. Emptied'
  BY <1>2, <1>3, <1>4 DEF StopInv, Emptied, Shutting, CAt, WAt
<1> QED BY <1>5, <1>6, <1>7, <1>8 DEF StopInv

(* What DoAdjustThreadCount does.  Nobody spawns while Stop() shuts down.  *)
LEMMA Spawner ==
  ASSUME PoolInv, StopInv, NEW c \in Callers, Spawning(c)
  PROVE  /\ c \in {"start", "adjust"} /\ cs = c /\ ~Shutting /\ ~CAt("stop", "done")
         /\ \A d \in Callers : d # c => ~Spawning(d)
<1>1. cs = c /\ \A d \in Callers : d # c => ~Spawning(d)
  BY DEF PoolInv, Numbers
<1>2. c # "stop"
  BY DEF StopInv, Phases, Spawning, Shutting
<1>3. ~Shutting /\ ~CAt("stop", "done")
  BY <1>2 DEF StopInv, Phases, Spawning, Shutting, Starting, CAt, Callers
<1> QED BY <1>1, <1>2, <1>3 DEF Callers

LEMMA AdjEnterStop ==
  ASSUME PoolAssumption, PoolInv, PoolInv', StopInv, NEW c \in Callers, AdjEnter(c)
  PROVE  StopInv'
<1>1. Types /\ Types' /\ Most \in Nat
  BY SizeOfPool DEF PoolInv
<1>2. /\ cpc[c] = "adj_enter" /\ cs = "free"
      /\ UNCHANGED <<state, threads, tasks, wpc, want, dropped>>
  BY DEF AdjEnter, CAt, worker, ghost
<1>3. /\ count \in Nat /\ want[c] \in Nat /\ Cardinality(threads) \in Nat /\ Cardinality(Busy) \in Nat
      /\ Owes("stop") \in Nat /\ Owes("adjust") \in Nat
      /\ c \in {"start", "adjust"} => want[c] > 0
      /\ c = "start" => count = 0
      /\ c = "stop" => want[c] = 0
  BY <1>1, <1>2, BusyFinite, SMTT(60) DEF Types, StopInv, Counts, CAt, Callers
<1>4. PICK p \in {"adj_spawn", "adj_notify", "set", "sem_test", "idle"} :
        /\ cpc' = [cpc EXCEPT ![c] = p]
        /\ \/ /\ p = "adj_spawn" /\ want[c] > count /\ count' = count
              /\ todo' = [todo EXCEPT ![c] = want[c] - count]
           \/ /\ p = "adj_notify" /\ want[c] < count /\ count' = want[c]
              /\ todo' = [todo EXCEPT ![c] = count - want[c]]
           \/ /\ p = After(c) /\ want[c] = count /\ count' = count /\ todo' = todo
  BY AfterIs DEF AdjEnter, CGoto
<1>5. /\ cpc'[c] = p /\ \A d \in Callers : d # c => cpc'[d] = cpc[d] /\ todo'[d] = todo[d]
  BY <1>1, <1>4 DEF Types
<1>6. /\ c = "start" => p \in {"adj_spawn", "set"}
      /\ c = "stop" => p \in {"adj_notify", "sem_test"}
      /\ c = "adjust" => p \in {"adj_spawn", "adj_notify", "idle"}
  BY <1>3, <1>4 DEF After
<1>7. /\ c = "start" => p = "adj_spawn"
      /\ c = "adjust" => count' > 0
      /\ p = "adj_spawn" => count' = count
  <2>1. p = "adj_spawn" => count' = count
    BY <1>4, AfterIs
  <2>2. c = "start" => p = "adj_spawn"
    BY <1>3, <1>4, <1>6
  <2>3. c = "adjust" => count > 0
    <3>1. c = "adjust" => CAt("start", "done") /\ cpc["stop"] \in {"idle", "release"}
      BY <1>2 DEF StopInv, Phases, Shutting, CAt
    <3> QED BY <3>1 DEF StopInv, Counts
  <2>4. c = "adjust" => count' > 0
    BY <1>3, <1>4, <2>3
  <2> QED BY <2>1, <2>2, <2>4
<1>8. c = "start" \/ c = "stop" \/ c = "adjust"
  BY DEF Callers
<1>9. {"start", "stop", "adjust"} = Callers
  BY DEF Callers
<1>10. Phases'
  <2>1. CASE c = "start"
    BY <1>2, <1>5, <1>7, <1>9, <2>1 DEF StopInv, Phases, Starting, Shutting, Spawning, CAt
  <2>2. CASE c = "stop"
    BY <1>2, <1>5, <1>6, <1>9, <2>2 DEF StopInv, Phases, Starting, Shutting, Spawning, CAt
  <2>3. CASE c = "adjust"
    BY <1>2, <1>5, <1>6, <1>9, <2>3 DEF StopInv, Phases, Starting, Shutting, Spawning, CAt
  <2> QED BY <1>8, <2>1, <2>2, <2>3
<1>11. Counts'
  <2>1. CASE c = "start"
    BY <1>2, <1>3, <1>5, <1>7, <1>9, <2>1 DEF StopInv, Counts, Phases, CAt
  <2>2. CASE c = "stop"
    BY <1>2, <1>5, <1>6, <1>9, <2>2 DEF StopInv, Counts, Phases, CAt
  <2>3. CASE c = "adjust"
    BY <1>2, <1>5, <1>6, <1>7, <1>9, <2>3 DEF StopInv, Counts, Phases, CAt
  <2> QED BY <1>8, <2>1, <2>2, <2>3
<1>12. Surplus'
  <2>1. ~CAt(c, "adj_notify") /\ Owes(c) = 0
    BY <1>2 DEF CAt, Owes
  <2>2. \A d \in Callers : d # c => Owes(d)' = Owes(d)
    BY <1>5 DEF Owes, CAt
  <2>3. Owes(c)' = (IF p = "adj_notify" THEN todo'[c] ELSE 0)
    BY <1>5 DEF Owes, CAt
  <2>4. p = "adj_notify" => todo'[c] = count - want[c]
    <3>1. p = "adj_notify" => todo' = [todo EXCEPT ![c] = count - want[c]]
      BY <1>4, AfterIs
    <3>2. c \in DOMAIN todo
      BY <1>1 DEF Types
    <3> QED BY <3>1, <3>2
  <2>5. /\ Cardinality(threads) <= count + Cardinality(Busy) + Owes("stop") + Owes("adjust")
        /\ count <= Cardinality(threads)
    BY DEF StopInv, Surplus
  <2>6. Busy' = Busy
    BY <1>2 DEF Busy
  <2>7. count' <= Cardinality(threads)
    BY <1>3, <1>4, <2>5
  <2>8. Cardinality(threads) <= count' + Cardinality(Busy) + Owes("stop")' + Owes("adjust")'
    <3>1. CASE p = "adj_notify"
      <4>1. Owes(c)' = count - count' /\ count' \in Nat /\ c \in {"stop", "adjust"}
        BY <1>3, <1>4, <1>6, <1>8, <2>3, <2>4, <3>1
      <4>2. CASE c = "stop"
        BY <1>3, <1>9, <2>1, <2>2, <2>5, <4>1, <4>2
      <4>3. CASE c = "adjust"
        BY <1>3, <1>9, <2>1, <2>2, <2>5, <4>1, <4>3
      <4> QED BY <4>1, <4>2, <4>3
    <3>2. CASE p # "adj_notify"
      <4>1. count' = count /\ Owes(c)' = 0
        BY <1>4, <2>3, <3>2
      <4> QED BY <4>1, <1>9, <2>1, <2>2, <2>5
    <3> QED BY <3>1, <3>2
  <2>9. \A d \in Callers : CAt(d, "adj_count")' => CAt(d, "adj_count") /\ d # c
    BY <1>5 DEF CAt
  <2>10. \A d \in Callers : ~CAt(d, "adj_count")
    BY <1>2, <1>9 DEF PoolInv, Numbers, Spawning, CAt
  <2> QED BY <1>2, <2>6, <2>7, <2>8, <2>9, <2>10 DEF StopInv, Surplus
<1>13. Emptied'
  <2>1. CASE c = "stop"
    BY <1>2, <1>5, <1>6, <2>1 DEF StopInv, Emptied, Shutting, CAt, WAt
  <2>2. CASE c # "stop"
    BY <1>2, <1>5, <1>9, <2>2 DEF StopInv, Emptied, Shutting, CAt, WAt
  <2> QED BY <2>1, <2>2
<1> QED BY <1>10, <1>11, <1>12, <1>13 DEF StopInv

LEMMA AdjSpawnStop ==
  ASSUME PoolAssumption, PoolInv, PoolInv', StopInv, NEW c \in Callers, AdjSpawn(c)
  PROVE  StopInv'
<1>1. Types /\ Types'
  BY DEF PoolInv
<1>2. PICK w \in Workers : /\ wpc[w] = "none" /\ w \notin threads /\ threads' = threads \cup {w}
                           /\ wpc' = [wpc EXCEPT ![w] = "check"]
  BY DEF AdjSpawn, WAt, WGoto
<1>3. /\ cpc[c] = "adj_spawn" /\ cpc' = [cpc EXCEPT ![c] = "adj_count"]
      /\ UNCHANGED <<state, count, cs, tasks, want, todo, dropped>>
  BY DEF AdjSpawn, CAt, CGoto, ghost
<1>4. cpc'[c] = "adj_count" /\ \A d \in Callers : d # c => cpc'[d] = cpc[d]
  BY <1>1, <1>3 DEF Types
<1>5. /\ c \in {"start", "adjust"} /\ cs = c /\ ~Shutting /\ ~CAt("stop", "done")
      /\ \A d \in Callers : d # c => ~Spawning(d)
  BY <1>3, Spawner DEF Spawning
<1>6. wpc'[w] = "check" /\ \A v \in Workers : v # w => wpc'[v] = wpc[v]
  BY <1>1, <1>2 DEF Types
<1>7. {"start", "stop", "adjust"} = Callers
  BY DEF Callers
<1>8. Phases'
  BY <1>3, <1>4, <1>5, <1>7 DEF StopInv, Phases, Starting, Shutting, Spawning, CAt
<1>9. Counts'
  BY <1>3, <1>4, <1>5, <1>7 DEF StopInv, Counts, CAt
<1>10. Surplus'
  <2>1. /\ IsFiniteSet(threads) /\ IsFiniteSet(Busy) /\ w \notin Busy /\ Busy' = Busy \cup {w}
        /\ Cardinality(threads) \in Nat /\ Cardinality(Busy) \in Nat /\ count \in Nat
    BY <1>1, <1>2, <1>6, BusyFinite DEF Busy, Types
  <2>2. /\ Cardinality(threads') = Cardinality(threads) + 1
        /\ Cardinality(Busy') = Cardinality(Busy) + 1
    BY <1>2, <2>1, FS_AddElement
  <2>3. /\ Owes("stop")' = Owes("stop") /\ Owes("adjust")' = Owes("adjust")
        /\ Owes("stop") \in Nat /\ Owes("adjust") \in Nat
    BY <1>1, <1>3, <1>4, <1>7, BusyFinite DEF Owes, CAt
  <2>4. /\ count <= Cardinality(threads)
        /\ Cardinality(threads) <= count + Cardinality(Busy) + Owes("stop") + Owes("adjust")
    BY DEF StopInv, Surplus
  <2>5. /\ count' < Cardinality(threads')
        /\ Cardinality(threads') <= count' + Cardinality(Busy') + Owes("stop")' + Owes("adjust")'
    BY <1>3, <2>1, <2>2, <2>3, <2>4
  <2>6. \A v \in Workers : v \in threads' <=> wpc'[v] \notin {"none", "notify"}
    BY <1>2, <1>6 DEF StopInv, Surplus
  <2> QED BY <1>3, <2>1, <2>2, <2>5, <2>6 DEF Surplus
<1>11. Emptied'
  BY <1>3, <1>4, <1>5, <1>7 DEF StopInv, Emptied, Shutting, CAt
<1> QED BY <1>8, <1>9, <1>10, <1>11 DEF StopInv

LEMMA AdjCountStop ==
  ASSUME PoolAssumption, PoolInv, PoolInv', StopInv, NEW c \in Callers, AdjCount(c)
  PROVE  StopInv'
<1>1. Types /\ Types'
  BY DEF PoolInv
<1>2. /\ cpc[c] = "adj_count" /\ count' = count + 1 /\ todo' = [todo EXCEPT ![c] = @ - 1]
      /\ UNCHANGED <<state, threads, tasks, wpc, want, dropped>>
  BY DEF AdjCount, CAt, worker, ghost
<1>3. /\ c \in {"start", "adjust"} /\ ~Shutting /\ ~CAt("stop", "done")
      /\ \A d \in Callers : d # c => ~Spawning(d)
  BY <1>2, Spawner DEF Spawning
<1>4. PICK p \in {"adj_spawn", "set", "idle"} :
        cpc' = [cpc EXCEPT ![c] = p] /\ p \in {"adj_spawn", After(c)}
  BY <1>3 DEF AdjCount, CGoto, After
<1>5. cpc'[c] = p /\ \A d \in Callers : d # c => cpc'[d] = cpc[d] /\ todo'[d] = todo[d]
  BY <1>1, <1>2, <1>4 DEF Types
<1>6. /\ c = "start" => p \in {"adj_spawn", "set"}
      /\ c = "adjust" => p \in {"adj_spawn", "idle"}
  BY <1>4 DEF After
<1>7. {"start", "stop", "adjust"} = Callers
  BY DEF Callers
<1>8. /\ count \in Nat /\ Cardinality(threads) \in Nat /\ Cardinality(Busy) \in Nat
      /\ Owes("stop") \in Nat /\ Owes("adjust") \in Nat
  BY <1>1, <1>7, BusyFinite DEF Types
<1>9. Phases'
  BY <1>2, <1>3, <1>5, <1>6, <1>7 DEF StopInv, Phases, Starting, Shutting, Spawning, CAt
<1>10. Counts'
  <2>1. count' > 0
    BY <1>2, <1>8
  <2>2. ~CAt("start", "idle")' /\ ~CAt("start", "adj_enter")'
    <3>1. ~CAt("start", "idle") /\ ~CAt("start", "adj_enter")
      BY <1>2, <1>3 DEF StopInv, Phases, CAt
    <3> QED BY <3>1, <1>3, <1>5, <1>6, <1>7 DEF CAt
  <2> QED BY <1>2, <1>5, <1>6, <1>7, <2>1, <2>2 DEF StopInv, Counts, CAt
<1>11. Surplus'
  <2>1. \A d \in Callers : ~CAt(d, "adj_count")'
    BY <1>3, <1>4, <1>5 DEF Spawning, CAt
  <2>2. Owes("stop")' = Owes("stop") /\ Owes("adjust")' = Owes("adjust")
    <3>1. Owes(c)' = 0 /\ Owes(c) = 0
      BY <1>2, <1>4, <1>5 DEF Owes, CAt
    <3>2. \A d \in Callers : d # c => Owes(d)' = Owes(d)
      BY <1>5 DEF Owes, CAt
    <3> QED BY <3>1, <3>2, <1>7
  <2>3. /\ count < Cardinality(threads)
        /\ Cardinality(threads) <= count + Cardinality(Busy) + Owes("stop") + Owes("adjust")
    BY <1>2 DEF StopInv, Surplus, CAt
  <2>4. /\ count' <= Cardinality(threads)
        /\ Cardinality(threads) <= count' + Cardinality(Busy) + Owes("stop") + Owes("adjust")
    BY <1>2, <1>8, <2>3
  <2>5. Busy' = Busy
    BY <1>2 DEF Busy
  <2> QED BY <1>2, <2>1, <2>2, <2>4, <2>5 DEF StopInv, Surplus
<1>12. Emptied'
  BY <1>2, <1>3, <1>5, <1>7 DEF StopInv, Emptied, Shutting, CAt
<1> QED BY <1>9, <1>10, <1>11, <1>12 DEF StopInv

LEMMA AdjNotifyStop ==
  ASSUME PoolAssumption, PoolInv, PoolInv', StopInv, NEW c \in Callers, AdjNotify(c)
  PROVE  StopInv'
<1>1. Types /\ Types' /\ Most \in Nat
  BY SizeOfPool DEF PoolInv
<1>2. /\ cpc[c] = "adj_notify" /\ NotifyTask(todo[c]) /\ todo' = [todo EXCEPT ![c] = 0]
      /\ cpc' = [cpc EXCEPT ![c] = After(c)]
      /\ UNCHANGED <<state, count, threads, cs, tasks, want, dropped>>
  BY DEF AdjNotify, CAt, CGoto, pool, ghost
<1>3. \A w \in Workers : wpc'[w] = wpc[w] \/ (wpc[w] = "wait" /\ wpc'[w] = "check")
  BY <1>1, <1>2, WorkersWake
<1>4. {"start", "stop", "adjust"} = Callers
  BY DEF Callers
<1>5. c # "start" /\ (c = "stop" => After(c) = "sem_test") /\ (c = "adjust" => After(c) = "idle")
  BY <1>2 DEF StopInv, Phases, Starting, After
<1>6. cpc'[c] = After(c) /\ \A d \in Callers : d # c => cpc'[d] = cpc[d] /\ todo'[d] = todo[d]
  BY <1>1, <1>2 DEF Types
<1>7. Phases'
  BY <1>2, <1>4, <1>5, <1>6 DEF StopInv, Phases, Starting, Shutting, Spawning, CAt
<1>8. Counts'
  BY <1>2, <1>4, <1>5, <1>6 DEF StopInv, Counts, CAt
<1>9. /\ IsFiniteSet(threads) /\ Cardinality(threads) \in Nat /\ IsFiniteSet(Busy)
      /\ Cardinality(Busy) \in Nat /\ count \in Nat /\ todo[c] \in Nat
      /\ Owes("stop") \in Nat /\ Owes("adjust") \in Nat
  <2>1. count \in Nat /\ todo[c] \in 0 .. Most
    BY <1>1 DEF Types
  <2>2. todo[c] \in Nat
    BY <1>1, <2>1
  <2> QED BY <1>1, <1>4, <2>1, <2>2, BusyFinite
<1>10. Surplus'
  <2> DEFINE asleep == {w \in Workers : wpc[w] = "wait"}
             most   == IF todo[c] < Cardinality(asleep) THEN todo[c] ELSE Cardinality(asleep)
  <2>1. PICK up \in SUBSET asleep :
          /\ Cardinality(up) = most
          /\ wpc' = [w \in Workers |-> IF w \in up THEN "check" ELSE wpc[w]]
    <3>1. DOMAIN wpc = Workers
      BY <1>1 DEF Types
    <3> QED BY <1>2, <3>1 DEF NotifyTask, WakeSome
  <2>2. /\ IsFiniteSet(asleep) /\ IsFiniteSet(up)
        /\ Cardinality(asleep) \in Nat /\ Cardinality(up) \in Nat
    BY FS_Subset, FS_CardinalityType DEF PoolAssumption
  <2>3. Busy' = Busy \cup up /\ Busy \cap up = {}
    BY <1>1, <2>1 DEF Busy, Types
  <2>4. /\ IsFiniteSet(Busy') /\ Cardinality(Busy') = Cardinality(Busy) + Cardinality(up)
    <3>1. Cardinality(Busy \cap up) = 0
      BY <2>3, FS_EmptySet
    <3>2. Cardinality(Busy \cup up) = Cardinality(Busy) + Cardinality(up) - Cardinality(Busy \cap up)
      BY <1>9, <2>2, FS_Union
    <3> QED BY <1>9, <2>2, <2>3, <3>1, <3>2, FS_Union
  <2>5. threads = Busy \cup asleep
    BY <1>1 DEF StopInv, Surplus, Busy, Types, WPc
  <2>6. /\ Owes(c) = todo[c] /\ Owes(c)' = 0 /\ \A d \in Callers : d # c => Owes(d)' = Owes(d)
    BY <1>2, <1>5, <1>6, <1>4 DEF Owes, CAt
  <2>7. Cardinality(threads) <= count + Cardinality(Busy) + Owes("stop") + Owes("adjust")
    BY DEF StopInv, Surplus
  <2>8. Cardinality(threads) <= count + Cardinality(Busy') + Owes("stop")' + Owes("adjust")'
    <3> HIDE DEF asleep
    <3>1. CASE todo[c] < Cardinality(asleep)
      <4>1. Cardinality(Busy') = Cardinality(Busy) + Owes(c)
        BY <2>1, <2>4, <2>6, <3>1
      <4>2. CASE c = "stop"
        BY <1>4, <1>9, <2>6, <2>7, <4>1, <4>2
      <4>3. CASE c = "adjust"
        BY <1>4, <1>9, <2>6, <2>7, <4>1, <4>3
      <4> QED BY <1>4, <1>5, <4>2, <4>3
    <3>2. CASE ~(todo[c] < Cardinality(asleep))
      <4>1. up = asleep
        BY <2>1, <2>2, <3>2, FS_Subset
      <4>2. Busy' = threads
        BY <2>3, <2>5, <4>1
      <4>3. Owes("stop")' \in Nat /\ Owes("adjust")' \in Nat
        BY <1>4, <1>9, <2>6
      <4> QED BY <1>9, <4>2, <4>3
    <3> QED BY <3>1, <3>2
  <2>9. \A d \in Callers : CAt(d, "adj_count")' => CAt(d, "adj_count")
    BY <1>4, <1>5, <1>6 DEF CAt
  <2>10. \A w \in Workers : w \in threads' <=> wpc'[w] \notin {"none", "notify"}
    BY <1>2, <1>3 DEF StopInv, Surplus
  <2> QED BY <1>2, <2>8, <2>9, <2>10 DEF StopInv, Surplus
<1>11. Emptied'
  BY <1>2, <1>3, <1>4, <1>5, <1>6 DEF StopInv, Emptied, Shutting, CAt, WAt
<1> QED BY <1>7, <1>8, <1>10, <1>11 DEF StopInv

-----------------------------------------------------------------------------
(* Start(), the call of AdjustThreadCount() and Stop().                    *)
LEMMA StartStop ==
  ASSUME PoolAssumption, PoolInv, PoolInv', StopInv, Start \/ SetStarted \/ AdjustThreadCount
  PROVE  StopInv'
<1>1. Types /\ Types' /\ Most \in Nat
  BY SizeOfPool DEF PoolInv
<1>2. {"start", "stop", "adjust"} = Callers
  BY DEF Callers
<1>3. /\ UNCHANGED <<count, threads, cs, tasks, wpc, todo, dropped>>
      /\ \/ /\ cpc["start"] = "idle" /\ state = "STOPPED" /\ state' = "STARTING"
            /\ want' = [want EXCEPT !["start"] = Threads0]
            /\ cpc' = [cpc EXCEPT !["start"] = "adj_enter"]
         \/ /\ cpc["start"] = "set" /\ state' = "STARTED" /\ want' = want
            /\ cpc' = [cpc EXCEPT !["start"] = "done"]
         \/ /\ cpc["adjust"] = "idle" /\ state = "STARTED" /\ state' = state
            /\ \E n \in Targets : want' = [want EXCEPT !["adjust"] = n]
            /\ cpc' = [cpc EXCEPT !["adjust"] = "adj_enter"]
  BY DEF Start, SetStarted, AdjustThreadCount, CAt, CGoto, pool, worker, ghost
<1>4. Busy' = Busy
  BY <1>3 DEF Busy
<1>5. CASE /\ cpc["start"] = "idle" /\ state = "STOPPED" /\ state' = "STARTING"
           /\ want' = [want EXCEPT !["start"] = Threads0]
           /\ cpc' = [cpc EXCEPT !["start"] = "adj_enter"]
  <2>1. /\ cpc'["start"] = "adj_enter" /\ cpc'["stop"] = cpc["stop"] /\ cpc'["adjust"] = cpc["adjust"]
        /\ want'["start"] = Threads0 /\ Threads0 > 0
    BY <1>1, <1>2, <1>5 DEF Types, PoolAssumption
  <2>2. cpc["stop"] = "idle" /\ cpc["adjust"] = "idle" /\ count = 0
    BY <1>5 DEF StopInv, Phases, Counts, CAt
  <2>3. Phases' /\ Counts'
    BY <1>3, <1>5, <2>1, <2>2 DEF Phases, Counts, Starting, Shutting, Spawning, CAt
  <2>4. Surplus' /\ Emptied'
    BY <1>2, <1>3, <1>4, <2>1, <2>2 DEF StopInv, Surplus, Emptied, Shutting, Owes, CAt, WAt
  <2> QED BY <2>3, <2>4 DEF StopInv
<1>6. CASE /\ cpc["start"] = "set" /\ state' = "STARTED" /\ want' = want
           /\ cpc' = [cpc EXCEPT !["start"] = "done"]
  <2>1. cpc'["start"] = "done" /\ cpc'["stop"] = cpc["stop"] /\ cpc'["adjust"] = cpc["adjust"]
    BY <1>1, <1>2, <1>6 DEF Types
  <2>2. cpc["stop"] = "idle" /\ cpc["adjust"] = "idle" /\ count > 0
    BY <1>6 DEF StopInv, Phases, Counts, CAt
  <2>3. Phases' /\ Counts'
    BY <1>3, <1>6, <2>1, <2>2 DEF Phases, Counts, Starting, Shutting, Spawning, CAt
  <2>4. Surplus' /\ Emptied'
    BY <1>2, <1>3, <1>4, <2>1, <2>2 DEF StopInv, Surplus, Emptied, Shutting, Owes, CAt, WAt
  <2> QED BY <2>3, <2>4 DEF StopInv
<1>7. CASE /\ cpc["adjust"] = "idle" /\ state = "STARTED" /\ state' = state
           /\ \E n \in Targets : want' = [want EXCEPT !["adjust"] = n]
           /\ cpc' = [cpc EXCEPT !["adjust"] = "adj_enter"]
  <2>1. PICK n \in Targets : want' = [want EXCEPT !["adjust"] = n]
    BY <1>7
  <2>2. /\ cpc'["adjust"] = "adj_enter" /\ cpc'["stop"] = cpc["stop"] /\ cpc'["start"] = cpc["start"]
        /\ want'["adjust"] = n /\ want'["start"] = want["start"] /\ want'["stop"] = want["stop"]
    BY <1>1, <1>2, <1>7, <2>1 DEF Types
  <2>3. n > 0
    BY DEF PoolAssumption
  <2>4. cpc["stop"] = "idle" /\ cpc["start"] = "done"
    BY <1>7 DEF StopInv, Phases, Starting, Shutting, CAt
  <2>5. Phases' /\ Counts'
    BY <1>3, <1>7, <2>2, <2>3, <2>4 DEF StopInv, Phases, Counts, Starting, Shutting, Spawning, CAt
  <2>6. Surplus' /\ Emptied'
    BY <1>2, <1>3, <1>4, <1>7, <2>2, <2>4 DEF StopInv, Surplus, Emptied, Shutting, Owes, CAt, WAt
  <2> QED BY <2>5, <2>6 DEF StopInv
<1> QED BY <1>3, <1>5, <1>6, <1>7

(* Stop() finds the pool started, and sleeps.                              *)
LEMMA StopBegins ==
  ASSUME PoolAssumption, SleepEnough, StopFrom = {"done"}, PoolInv, PoolInv', StopInv,
         Stop \/ StopCas2 \/ StopSpin \/ Release
  PROVE  StopInv'
<1>1. Types /\ Types'
  BY DEF PoolInv
<1>2. {"start", "stop", "adjust"} = Callers
  BY DEF Callers
<1>3. cpc["stop"] # "cas2" /\ cpc["stop"] # "spin"
  BY DEF StopInv, Phases, Shutting
<1>4. /\ UNCHANGED <<count, threads, cs, tasks, wpc, todo, dropped>>
      /\ \/ /\ cpc["stop"] = "idle" /\ cpc["start"] = "done" /\ want' = want
            /\ state = "STARTED" => state' = "STOPPING" /\ cpc' = [cpc EXCEPT !["stop"] = "release"]
         \/ /\ cpc["stop"] = "release" /\ state' = state /\ Slept
            /\ want' = [want EXCEPT !["stop"] = 0]
            /\ cpc' = [cpc EXCEPT !["stop"] = "adj_enter"]
  BY <1>3 DEF Stop, StopCas2, StopSpin, Release, CAt, CGoto, pool, worker, ghost
<1>5. Busy' = Busy
  BY <1>4 DEF Busy
<1>6. CASE /\ cpc["stop"] = "idle" /\ cpc["start"] = "done" /\ want' = want
           /\ state = "STARTED" => state' = "STOPPING" /\ cpc' = [cpc EXCEPT !["stop"] = "release"]
  <2>1. state' = "STOPPING" /\ cpc' = [cpc EXCEPT !["stop"] = "release"]
    BY <1>6 DEF StopInv, Phases, CAt
  <2>2. cpc'["stop"] = "release" /\ cpc'["start"] = cpc["start"] /\ cpc'["adjust"] = cpc["adjust"]
    BY <1>1, <1>2, <2>1 DEF Types
  <2>3. Phases' /\ Counts'
    BY <1>4, <1>6, <2>1, <2>2 DEF StopInv, Phases, Counts, Starting, Shutting, Spawning, CAt
  <2>4. Surplus' /\ Emptied'
    BY <1>2, <1>4, <1>5, <1>6, <2>2 DEF StopInv, Surplus, Emptied, Shutting, Owes, CAt, WAt
  <2> QED BY <2>3, <2>4 DEF StopInv
<1>7. CASE /\ cpc["stop"] = "release" /\ state' = state /\ Slept
           /\ want' = [want EXCEPT !["stop"] = 0]
           /\ cpc' = [cpc EXCEPT !["stop"] = "adj_enter"]
  <2>1. /\ cpc'["stop"] = "adj_enter" /\ cpc'["start"] = cpc["start"] /\ cpc'["adjust"] = cpc["adjust"]
        /\ want'["stop"] = 0 /\ want'["start"] = want["start"] /\ want'["adjust"] = want["adjust"]
    BY <1>1, <1>2, <1>7 DEF Types
  <2>2. cpc["adjust"] = "idle" /\ \A w \in Workers : wpc[w] # "leave"
    BY <1>7 DEF Slept, CAt, WAt
  <2>3. Phases' /\ Counts'
    BY <1>4, <1>7, <2>1, <2>2 DEF StopInv, Phases, Counts, Starting, Shutting, Spawning, CAt
  <2>4. Surplus'
    BY <1>2, <1>4, <1>5, <1>7, <2>1 DEF StopInv, Surplus, Owes, CAt
  <2>5. threads # {}
    <3>1. cpc["start"] = "done"
      BY <1>7 DEF StopInv, Phases, CAt
    <3>2. count > 0 /\ count <= Cardinality(threads)
      BY <1>7, <3>1 DEF StopInv, Counts, Surplus, CAt
    <3>3. count \in Nat
      BY <1>1 DEF Types
    <3> QED BY <3>2, <3>3, FS_EmptySet
  <2>6. Emptied'
    BY <1>4, <1>7, <2>1, <2>2, <2>5 DEF StopInv, Emptied, CAt, WAt
  <2> QED BY <2>3, <2>4, <2>6 DEF StopInv
<1> QED BY <1>4, <1>6, <1>7

(* Stop() waits for the last thread, and tidies up.                        *)
LEMMA StopEnds ==
  ASSUME PoolAssumption, PoolInv, PoolInv', StopInv, SemTest \/ SemBlock \/ Drain
  PROVE  StopInv'
<1>1. Types /\ Types'
  BY DEF PoolInv
<1>2. {"start", "stop", "adjust"} = Callers
  BY DEF Callers
<1>3. /\ cpc["stop"] \in {"sem_test", "sem_block", "drain"} /\ UNCHANGED <<threads, wpc, want, todo>>
      /\ cpc["start"] = "done"
      /\ \E p \in {"drain", "sem_block", "sem_blocked", "done"} : cpc' = [cpc EXCEPT !["stop"] = p]
  BY DEF SemTest, SemBlock, Drain, CAt, CGoto, pool, worker, StopInv, Phases
<1>4. PICK p \in {"drain", "sem_block", "sem_blocked", "done"} : cpc' = [cpc EXCEPT !["stop"] = p]
  BY <1>3
<1>5. cpc'["stop"] = p /\ cpc'["start"] = cpc["start"] /\ cpc'["adjust"] = cpc["adjust"]
  BY <1>1, <1>2, <1>4 DEF Types
<1>6. Busy' = Busy
  BY <1>3 DEF Busy
<1>7. /\ Owes("stop")' = Owes("stop") /\ Owes("adjust")' = Owes("adjust")
      /\ \A c \in Callers : CAt(c, "adj_count")' => CAt(c, "adj_count")
  BY <1>2, <1>3, <1>5 DEF Owes, CAt
<1>8. CASE SemTest \/ SemBlock
  <2>1. /\ UNCHANGED <<state, count, cs, tasks, dropped>> /\ p # "done"
        /\ p = "drain" => threads = {}
    <3>1. /\ UNCHANGED <<state, count, cs, tasks, dropped>>
          /\ \/ cpc' = [cpc EXCEPT !["stop"] = "drain"] /\ threads = {}
             \/ cpc' = [cpc EXCEPT !["stop"] = "sem_block"]
             \/ cpc' = [cpc EXCEPT !["stop"] = "sem_blocked"]
      BY <1>8 DEF SemTest, SemBlock, CGoto, pool, ghost
    <3>2. "stop" \in DOMAIN cpc
      BY <1>1, <1>2 DEF Types
    <3> QED BY <1>5, <3>1, <3>2
  <2>2. Phases' /\ Counts'
    BY <1>3, <1>5, <2>1 DEF StopInv, Phases, Counts, Starting, Shutting, Spawning, CAt
  <2>3. Surplus'
    BY <1>3, <1>6, <1>7, <2>1 DEF StopInv, Surplus
  <2>4. Emptied'
    BY <1>3, <1>5, <2>1 DEF StopInv, Emptied, Shutting, CAt, WAt
  <2> QED BY <2>2, <2>3, <2>4 DEF StopInv
<1>9. CASE Drain
  <2>1. /\ cpc["stop"] = "drain" /\ p = "done" /\ state' = "STOPPED" /\ count' = 0 /\ tasks' = <<>>
        /\ dropped' = dropped \cup {tasks[i] : i \in DOMAIN tasks}
    BY <1>1, <1>2, <1>5, <1>9 DEF Drain, CAt, CGoto, Types
  <2>2. threads = {} /\ tasks = <<>> /\ dropped = {}
    BY <2>1 DEF StopInv, Emptied, CAt
  <2>3. dropped' = {}
    BY <2>1, <2>2
  <2>4. Phases' /\ Counts'
    BY <1>3, <1>5, <2>1 DEF StopInv, Phases, Counts, Starting, Shutting, Spawning, CAt
  <2>5. Surplus'
    <3>1. Cardinality(threads') = 0 /\ Cardinality(Busy') \in Nat
      BY <1>1, <1>3, <2>2, BusyFiniteNext, FS_EmptySet
    <3>2. Owes("stop")' \in Nat /\ Owes("adjust")' \in Nat
      BY <1>1, <1>2, BusyFiniteNext
    <3>3. \A c \in Callers : ~CAt(c, "adj_count")'
      BY <1>2, <1>3, <1>5, <2>1 DEF StopInv, Phases, CAt
    <3> QED BY <1>3, <2>1, <3>1, <3>2, <3>3 DEF StopInv, Surplus
  <2>6. Emptied'
    BY <1>3, <2>1, <2>2, <2>3 DEF Emptied
  <2> QED BY <2>4, <2>5, <2>6 DEF StopInv
<1> QED BY <1>8, <1>9

LEMMA InitStopInv ==
  ASSUME PoolAssumption, Init
  PROVE  StopInv
<1>1. /\ cpc = [c \in Callers |-> "idle"] /\ {"start", "stop", "adjust"} = Callers
      /\ wpc = [w \in Workers |-> "none"] /\ todo = [c \in Callers |-> 0]
      /\ state = "STOPPED" /\ count = 0 /\ threads = {} /\ tasks = <<>> /\ dropped = {}
  BY DEF Init, Callers
<1>2. Phases /\ Counts
  BY <1>1 DEF Phases, Counts, Starting, Shutting, Spawning, CAt
<1>3. Cardinality(threads) = 0 /\ Busy = {} /\ Cardinality(Busy) = 0
  <2>1. Busy = {}
    BY <1>1 DEF Busy
  <2> QED BY <1>1, <2>1, FS_EmptySet
<1>4. Surplus
  BY <1>1, <1>3 DEF Surplus, Owes, CAt
<1>5. Emptied
  BY <1>1 DEF Emptied, Shutting, CAt
<1> QED BY <1>2, <1>4, <1>5 DEF StopInv

LEMMA NextStopInv ==
  ASSUME PoolAssumption, SleepEnough, StopFrom = {"done"}, PoolInv, PoolInv', StopInv, [Next]_vars
  PROVE  StopInv'
<1>1. CASE \E s \in Submitters : Submit(s) \/ SubmitSteps(s) \/ Timeout(s)
  BY <1>1, SubmitterStop
<1>2. CASE \E w \in Workers : WorkerSteps(w)
  BY <1>2, CheckStop, LeaveStop, NotifyStop DEF WorkerSteps
<1>3. CASE \E c \in Callers : Adjust(c)
  BY <1>3, AdjEnterStop, AdjSpawnStop, AdjCountStop, AdjNotifyStop DEF Adjust
<1>4. CASE Start \/ SetStarted \/ AdjustThreadCount
  BY <1>4, StartStop
<1>5. CASE Stop \/ StopSteps
  BY <1>5, StopBegins, StopEnds DEF StopSteps
<1>6. CASE UNCHANGED vars
  <2>1. UNCHANGED <<state, count, threads, tasks, wpc, cpc, want, todo, dropped>>
    BY <1>6 DEF vars, pool, worker, ctl, ghost
  <2>2. Phases' /\ Counts'
    BY <2>1 DEF StopInv, Phases, Counts, Starting, Shutting, Spawning, CAt
  <2>3. Busy' = Busy /\ Owes("stop")' = Owes("stop") /\ Owes("adjust")' = Owes("adjust")
    BY <2>1 DEF Busy, Owes, CAt
  <2>4. Surplus' /\ Emptied'
    BY <2>1, <2>3 DEF StopInv, Surplus, Emptied, Shutting, CAt, WAt
  <2> QED BY <2>2, <2>4 DEF StopInv
<1> QED BY <1>1, <1>2, <1>3, <1>4, <1>5, <1>6 DEF Next

(* What StopInv means: nobody is left, and what was accepted has run.      *)
LEMMA CleanStopHolds ==
  ASSUME PoolAssumption, PoolInv, StopInv
  PROVE  CleanStop
<1> SUFFICES ASSUME CAt("stop", "drain") \/ CAt("stop", "done") PROVE CleanStop
  BY DEF CleanStop
<1>1. threads = {} /\ tasks = <<>> /\ dropped = {}
  BY DEF StopInv, Emptied
<1>2. \A k \in Tasks : ~Queued(k) /\ ~InHand(k)
  <2>1. \A w \in Workers : ~WAt(w, "run")
    BY <1>1 DEF StopInv, Surplus, WAt
  <2>2. \A w \in Workers : job[w] = NoTask
    BY <2>1 DEF PoolInv, Placed
  <2>3. \A k \in Tasks : ~InHand(k)
    BY <2>2 DEF InHand, PoolAssumption
  <2>4. Len(tasks) = 0
    BY <1>1
  <2>5. \A k \in Tasks : ~Queued(k)
    BY <2>4 DEF Queued
  <2> QED BY <2>3, <2>5
<1>3. accepted = ran
  BY <1>1, <1>2 DEF PoolInv, Placed, Types
<1> QED BY <1>1, <1>3 DEF CleanStop

(* The threads that are not in m_stThreads are gone, and once nothing is   *)
(* under way there is one thread per count.                                *)
LEMMA ThreadsMatchHolds ==
  ASSUME PoolAssumption, PoolInv, StopInv
  PROVE  ThreadsMatch
<1>1. Types
  BY DEF PoolInv
<1>2. /\ \A w \in Workers : w \in threads <=> wpc[w] \notin {"none", "notify"}
      /\ count <= Cardinality(threads)
      /\ Cardinality(threads) <= count + Cardinality(Busy) + Owes("stop") + Owes("adjust")
  BY DEF StopInv, Surplus
<1>3. ASSUME ~Adjusting, \A c \in Callers : ~CAt(c, "adj_notify")
      PROVE  count = Cardinality(threads)
  <2>1. Busy = {}
    BY <1>3 DEF Adjusting, Busy
  <2>2. Cardinality(Busy) = 0
    BY <2>1, FS_EmptySet
  <2>3. Owes("stop") = 0 /\ Owes("adjust") = 0
    BY <1>3 DEF Owes, Callers
  <2>4. count \in Nat /\ Cardinality(threads) \in Nat
    BY <1>1, BusyFinite DEF Types
  <2> QED BY <1>2, <2>2, <2>3, <2>4
<1> QED BY <1>2, <1>3 DEF ThreadsMatch

(* Where Stop() comes after Start() and its sleep outlasts what it waits   *)
(* for, it leaves no task and no thread, and what was accepted has run.    *)
THEOREM PoolCleanStop ==
  ASSUME PoolAssumption, SleepEnough, StopFrom = {"done"}
  PROVE  Spec => [](TypeOK /\ ThreadsMatch /\ CleanStop)
<1>1. Init => PoolInv /\ StopInv
  BY InitPoolInv, InitStopInv
<1>2. PoolInv /\ StopInv /\ [Next]_vars => PoolInv' /\ StopInv'
  BY NextPoolInv, NextStopInv
<1>3. PoolInv /\ StopInv => TypeOK /\ ThreadsMatch /\ CleanStop
  BY TypeOKHolds, ThreadsMatchHolds, CleanStopHolds
<1> QED BY <1>1, <1>2, <1>3, PTL DEF Spec
=============================================================================
