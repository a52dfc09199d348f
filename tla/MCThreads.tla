----------------------------- MODULE MCThreads -----------------------------
(* CSEMRWLock, CHPThreadPool, CIODispatcher, CUdpServer and CUdpNode for   *)
(* TLC.  They share nothing: Init chooses which of them runs, the others   *)
(* rest.  Each budget is run by itself.                                    *)
EXTENDS SemRWLock, TLC

CONSTANTS Workers, Submitters, Finite, Tasks, NoTask, MaxQueue, Policies, Threads0,
          Targets, MaxAdjust, StopFrom, SleepEnough
VARIABLES part, state, policy, maxQueue, count, threads, cs, tasks, wpc, job, spc, sub,
          cpc, want, todo, adjusts, fresh, accepted, ran, freed, dropped
P == INSTANCE ThreadPool
ASSUME PoolAssumption == P!PoolAssumption
pvars == <<state, policy, maxQueue, count, threads, cs, tasks, wpc, job, spc, sub, cpc,
           want, todo, adjusts, fresh, accepted, ran, freed, dropped>>

CONSTANTS Apps, Cmds, NoCmd, PipeCap, Stops
VARIABLES q, size, owe, got, pipe, exits, reports, dpc, batch, run, cmd,
          unsent, sent, handled, lost, stop, left
ASSUME CmdsAssumption == IsFiniteSet(Workers \cup Apps) /\ NoCmd \notin Cmds /\ PipeCap \in Nat
D == INSTANCE IODispatcher WITH active <- reports, pc <- dpc, dropped <- lost
dvars == <<q, size, owe, got, pipe, exits, reports, dpc, batch, run, cmd,
           unsent, sent, handled, lost, stop, left>>

CONSTANTS None, Addrs, Ids, UdpBudgets, UdpAttempts, MaxReads
VARIABLES inbox, ulsn, uobj, uids, addrMap, accepting, ucmds, uwk, uend, ubudget, notes,
          failed
U == INSTANCE UdpServer WITH
       Budgets <- UdpBudgets, Attempts <- UdpAttempts, lsn <- ulsn, obj <- uobj,
       active <- uids, cmds <- ucmds, wk <- uwk, stop <- uend, budget <- ubudget,
       fired <- notes
ASSUME UdpAssumption == /\ None \notin Addrs \cup Ids \cup Workers
                        /\ UdpAttempts \in Nat /\ UdpBudgets \subseteq [U!Events -> Nat]
uvars == <<inbox, ulsn, uobj, uids, addrMap, accepting, ucmds, uwk, uend, ubudget, notes,
           failed>>

CONSTANTS Out, Empty, NodeBudgets
VARIABLES nstate, sock, mail, recvQueue, sndBuff, extra, ncmds, nwk, sending, nend,
          nbudget, told
ASSUME OutAssumption == IsFiniteSet(Out) /\ Empty \subseteq Out /\ None \notin Out /\ MaxReads \in Nat
N == INSTANCE UdpNode WITH
       Budgets <- NodeBudgets, state <- nstate, inbox <- mail, cmds <- ncmds, wk <- nwk,
       stop <- nend, budget <- nbudget
ASSUME BudgetAssumption == NodeBudgets \subseteq [N!Events -> Nat]
nvars == <<nstate, sock, mail, recvQueue, sndBuff, extra, ncmds, nwk, sending, nend,
           nbudget, told>>

\* What a budget does not name does not happen.
Total(budgets) ==
  LET all == UNION {DOMAIN b : b \in budgets}
  IN  {[e \in all |-> IF e \in DOMAIN b THEN b[e] ELSE 0] : b \in budgets}
MCUdpBudgets == Total(
  { [data |-> 2, disconnect |-> 1],
    [data |-> 2, close |-> 1],
    [data |-> 2, stop |-> 1],
    [data |-> 2, send |-> 1, block |-> 1],
    [data |-> 1, send |-> 1, block |-> 1, stop |-> 1],
    [data |-> 1, send |-> 1, fail |-> 1, stop |-> 1],
    [data |-> 1, zero |-> 1, tick |-> 1],
    [data |-> 1, long |-> 1] })
MCNodeBudgets == Total(
  { [start |-> 1, data |-> 2, long |-> 1, error |-> 1, stop |-> 1],
    [start |-> 1, data |-> 2, send |-> 1, block |-> 1],
    [start |-> 1, send |-> 2, block |-> 2],
    [start |-> 1, send |-> 3],
    [start |-> 1, send |-> 2, fail |-> 1, stop |-> 1],
    [start |-> 2, send |-> 1, data |-> 1, stop |-> 1] })

MCInit == /\ part \in {"lock", "threads", "dispatcher", "udp", "node"}
          /\ Init /\ P!Init /\ D!Init /\ U!Init /\ N!Init
          /\ part # "udp" => ubudget = CHOOSE b \in UdpBudgets : TRUE
          /\ part # "node" => nbudget = CHOOSE b \in NodeBudgets : TRUE
MCNext ==
  \/ part = "lock" /\ Next /\ UNCHANGED <<part, pvars, dvars, uvars, nvars>>
  \/ part = "threads" /\ P!Next /\ UNCHANGED <<part, vars, dvars, uvars, nvars>>
  \/ part = "dispatcher" /\ D!Next /\ UNCHANGED <<part, vars, pvars, uvars, nvars>>
  \/ part = "udp" /\ U!Next /\ UNCHANGED <<part, vars, pvars, dvars, nvars>>
  \/ part = "node" /\ N!Next /\ UNCHANGED <<part, vars, pvars, dvars, uvars>>

(* The fairness of each, for the one that runs.                            *)
MCFairness ==
  /\ \A t \in Threads :
       /\ WF_vars(part = "lock" /\ (ReadWoken(t) \/ WriteWoken(t)))
       /\ WF_vars(part = "lock" /\ (ReadDone(t) \/ WriteDone(t)))
  /\ \A s \in Submitters : WF_pvars(part = "threads" /\ P!SubmitSteps(s))
  /\ \A w \in Workers : WF_pvars(part = "threads" /\ P!WorkerSteps(w))
  /\ \A c \in P!Callers : WF_pvars(part = "threads" /\ P!Adjust(c))
  /\ WF_pvars(part = "threads" /\ P!SetStarted)
  /\ WF_pvars(part = "threads" /\ P!StopSteps)
  /\ \A t \in D!Senders : WF_dvars(part = "dispatcher" /\ D!Send(t))
  /\ \A w \in Workers : WF_dvars(part = "dispatcher" /\ D!Work(w))
  /\ WF_dvars(part = "dispatcher" /\ D!Stop)
  /\ \A w \in Workers : WF_uvars(part = "udp" /\ U!Work(w))
  /\ WF_uvars(part = "udp" /\ \E w \in Workers : U!Take(w))
  /\ WF_uvars(part = "udp" /\ U!StopDisconnect)
  /\ \A w \in Workers : WF_nvars(part = "node" /\ N!Work(w))
  /\ WF_nvars(part = "node" /\ \E w \in Workers : N!Take(w))
  /\ \A o \in Out : WF_nvars(part = "node" /\ N!AskToSend(o))
  /\ WF_nvars(part = "node" /\ N!SetStarted)
  /\ WF_nvars(part = "node" /\ N!StopSteps)

MCSpec == MCInit /\ [][MCNext]_<<part, vars, pvars, dvars, uvars, nvars>>
          /\ MCFairness

(* Stop of the thread pool leaves nothing behind.                          *)
CleanStop == P!TypeOK /\ P!ThreadsMatch /\ P!CleanStop
(* A task that was accepted runs; a wait for room in the queue returns.    *)
AcceptedRuns   == P!AcceptedRuns
WaitForReturns == P!WaitForReturns

(* A worker told of a pipe finds a byte in it, and Stop() drains the       *)
(* queue; a datagram the node took is sent once, and Stop() of the node    *)
(* leaves nothing.                                                         *)
StopIsClean == /\ D!TypeOK /\ D!ByteForEvent /\ D!StopDrains
               /\ N!TypeOK /\ N!SentOnce /\ N!StopIsClean
(* A command of the dispatcher that was sent is handled, and so is what    *)
(* Send() of the node took.                                                *)
SentIsHandled == D!SentIsHandled /\ N!SentIsHandled

(* OnClose of a connection of the UDP server comes once and last; what the *)
(* server or the node receives is handled, and Stop() of each returns but  *)
(* for the join of its dispatcher (run dispatcher_exit).                   *)
UdpCloseIsLast    == U!TypeOK /\ U!OneConnection /\ U!CloseIsLast
ReceivedIsHandled == U!ReceivedIsHandled /\ N!ReceivedIsHandled
UdpStopReturns    == U!StopReturns /\ N!StopReturns
=============================================================================
