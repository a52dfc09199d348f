---------------------------- MODULE IODispatcher ----------------------------
(***************************************************************************)
(* CIODispatcher (common/IODispatcher.cpp): worker threads that sleep in   *)
(* kevent(), and the commands other threads hand them.  SendCommand pushes *)
(* the command on a CCASQueue (here what FifoQueue promises of it) and     *)
(* writes one byte to the pipe m_evCmd; a worker woken by the pipe reads   *)
(* one byte and empties the queue.  Both pipes are registered with         *)
(* EV_CLEAR: kevent() reports a write once, to one worker, and writes made *)
(* before a worker fetched the report are reported together (kqueue(2)).   *)
(***************************************************************************)
EXTENDS Integers, Sequences, FiniteSets

CONSTANTS
  Workers,    (* m_pWorkers                                                *)
  Apps,       (* the other threads that call SendCommand, no workers       *)
  Cmds,       (* the commands sent: bounds the run                         *)
  NoCmd,
  PipeCap,    (* bytes the pipe m_evCmd holds before write() blocks, > 0   *)
  Stops       (* whether Stop() is ever called                             *)

Senders == Workers \cup Apps

VARIABLES
  q, size, owe, got,    (* m_queue                                         *)
  pipe,       (* bytes in m_evCmd                                          *)
  exits,      (* bytes in m_evExit                                         *)
  active,     (* the pipes kevent() has a report for: "cmd", "exit"        *)
  pc,
  batch,      (* the reports a worker fetched and has not looked at        *)
  run,        (* bRun                                                      *)
  cmd,        (* pCmd: the command a thread sends or handles               *)
  unsent,     (* commands nobody constructed yet                           *)
  sent,       (* commands whose SendCommand returned                       *)
  handled,    (* commands given to OnCommand                               *)
  dropped,    (* commands Stop() destructed                                *)
  stop,       (* where Stop() is                                           *)
  left        (* bytes it has still to write to m_evExit                   *)

queue == <<q, size, owe, got>>
pipes == <<pipe, exits, active>>
ghost == <<unsent, sent, handled, dropped>>
vars  == <<queue, pipes, pc, batch, run, cmd, ghost, stop, left>>

Queue == INSTANCE FifoQueue WITH Threads <- Senders, Values <- Cmds, NoValue <- NoCmd

SendSteps == {"push", "link", "count_up", "write"}
PopSteps  == {"pop", "take", "count_down", "handle"}
Pc == SendSteps \cup PopSteps \cup {"idle", "wait", "events", "exited"}
StopPc == {"running", "set", "join", "drain", "stopped"}

At(t, p)   == pc[t] = p
Goto(t, p) == pc' = [pc EXCEPT ![t] = p]
Home(t)    == IF t \in Workers THEN "wait" ELSE "idle"
Events     == {"cmd", "exit", "io"}

Init ==
  /\ Queue!QInit
  /\ pipe = 0 /\ exits = 0 /\ active = {}
  /\ pc    = [t \in Senders |-> Home(t)]
  /\ batch = [w \in Workers |-> {}]
  /\ run   = [w \in Workers |-> TRUE]
  /\ cmd   = [t \in Senders |-> NoCmd]
  /\ unsent = Cmds /\ sent = {} /\ handled = {} /\ dropped = {}
  /\ stop = "running" /\ left = 0

-----------------------------------------------------------------------------
(* SendCommand(pCmd) by another thread.  When Stop() is called none of     *)
(* them sends any more.                                                    *)
Construct(t) ==
  /\ \E c \in unsent :
       /\ cmd'    = [cmd EXCEPT ![t] = c]
       /\ unsent' = unsent \ {c}
  /\ Goto(t, "push")

StartSend(t) ==
  /\ At(t, "idle") /\ stop = "running"
  /\ Construct(t)
  /\ UNCHANGED <<queue, pipes, batch, run, sent, handled, dropped, stop, left>>

Push(t) ==
  /\ At(t, "push")
  /\ Queue!Enqueue(t, cmd[t])
  /\ Goto(t, "link")
  /\ UNCHANGED <<pipes, batch, run, cmd, ghost, stop, left>>

Link(t) ==
  /\ At(t, "link")
  /\ Queue!Link(cmd[t])
  /\ Goto(t, "count_up")
  /\ UNCHANGED <<pipes, batch, run, cmd, ghost, stop, left>>

CountUp(t) ==
  /\ At(t, "count_up")
  /\ Queue!CountUp(t)
  /\ Goto(t, "write")
  /\ UNCHANGED <<pipes, batch, run, cmd, ghost, stop, left>>

(* m_evCmd->Write(&cTmp, 1): the write end is a blocking descriptor.       *)
WriteByte(t) ==
  /\ At(t, "write") /\ pipe < PipeCap
  /\ pipe'   = pipe + 1
  /\ active' = active \cup {"cmd"}
  /\ sent'   = sent \cup {cmd[t]}
  /\ cmd'    = [cmd EXCEPT ![t] = NoCmd]
  /\ Goto(t, IF t \in Workers THEN "events" ELSE "idle")
  /\ UNCHANGED <<queue, exits, batch, run, unsent, handled, dropped, stop, left>>

-----------------------------------------------------------------------------
(* WorkerProc: kevent() fetches every report there is, with those of       *)
(* sockets ("io"), which matter here only when their callbacks may send.   *)
Wait(w) ==
  /\ At(w, "wait")
  /\ \E io \in SUBSET {"io"} :
       /\ io # {} => unsent # {}
       /\ active \cup io # {}
       /\ batch' = [batch EXCEPT ![w] = active \cup io]
  /\ active' = {}
  /\ Goto(w, "events")
  /\ UNCHANGED <<queue, pipe, exits, run, cmd, ghost, stop, left>>

EndBatch(w) ==
  /\ At(w, "events") /\ batch[w] = {}
  /\ Goto(w, IF run[w] THEN "wait" ELSE "exited")
  /\ UNCHANGED <<queue, pipes, batch, run, cmd, ghost, stop, left>>

(* ProcessIo: a callback of the handler, which may call SendCommand.       *)
ProcessIo(w) ==
  /\ At(w, "events") /\ "io" \in batch[w]
  /\ batch' = [batch EXCEPT ![w] = @ \ {"io"}]
  /\ Construct(w) \/ UNCHANGED <<cmd, unsent, pc>>
  /\ UNCHANGED <<queue, pipes, run, sent, handled, dropped, stop, left>>

(* ProcessCommand: read one byte, then empty the queue.                    *)
ReadByte(w) ==
  /\ At(w, "events") /\ "cmd" \in batch[w]
  /\ batch' = [batch EXCEPT ![w] = @ \ {"cmd"}]
  /\ IF pipe > 0
     THEN pipe' = pipe - 1 /\ Goto(w, "pop")
     ELSE UNCHANGED <<pipe, pc>>
  /\ UNCHANGED <<queue, exits, active, run, cmd, ghost, stop, left>>

(* PopFront: IsEmpty(), the front, the decrement.                          *)
PopCheck(w) ==
  /\ At(w, "pop")
  /\ Goto(w, IF size = 0 THEN "events" ELSE "take")
  /\ UNCHANGED <<queue, pipes, batch, run, cmd, ghost, stop, left>>

Take(w) ==
  /\ At(w, "take")
  /\ IF q # <<>> /\ Head(q).linked
     THEN /\ Queue!Dequeue(w)
          /\ cmd' = [cmd EXCEPT ![w] = Head(q).val]
          /\ Goto(w, "count_down")
     ELSE Goto(w, "events") /\ UNCHANGED <<queue, cmd>>
  /\ UNCHANGED <<pipes, batch, run, ghost, stop, left>>

CountDown(w) ==
  /\ At(w, "count_down")
  /\ Queue!CountDown(w)
  /\ Goto(w, "handle")
  /\ UNCHANGED <<pipes, batch, run, cmd, ghost, stop, left>>

(* A bug to be caught: one command per byte, not all there are.            *)
HandleOne(w) ==
  /\ At(w, "handle")
  /\ handled' = handled \cup {cmd[w]}
  /\ cmd'     = [cmd EXCEPT ![w] = NoCmd]
  /\ Goto(w, "events")
  /\ UNCHANGED <<queue, pipes, batch, run, unsent, sent, dropped, stop, left>>

Handle(w) ==
  /\ At(w, "handle")
  /\ handled' = handled \cup {cmd[w]}
  /\ cmd'     = [cmd EXCEPT ![w] = NoCmd]
  /\ Goto(w, "pop")
  /\ UNCHANGED <<queue, pipes, batch, run, unsent, sent, dropped, stop, left>>

(* ProcessExit: bRun = FALSE once a byte is read; the rest of the batch is *)
(* still processed.  Without a byte Get() hands out the uninitialised cTmp *)
(* and returns TRUE, which ProcessExit takes for a byte.                   *)
ReadExit(w) ==
  /\ At(w, "events") /\ "exit" \in batch[w]
  /\ batch' = [batch EXCEPT ![w] = @ \ {"exit"}]
  /\ exits' = IF exits > 0 THEN exits - 1 ELSE exits
  /\ run'   = [run EXCEPT ![w] = FALSE]
  /\ UNCHANGED <<queue, pipe, active, pc, cmd, ghost, stop, left>>

-----------------------------------------------------------------------------
(* Stop(): one byte per worker to m_evExit, join, destruct what is queued. *)
StartStop ==
  /\ Stops /\ stop = "running"
  /\ \A a \in Apps : At(a, "idle")
  /\ stop' = "set" /\ left' = Cardinality(Workers)
  /\ UNCHANGED <<queue, pipes, pc, batch, run, cmd, ghost>>

SetExit ==
  /\ stop = "set" /\ left > 0
  /\ exits'  = exits + 1
  /\ active' = active \cup {"exit"}
  /\ left'   = left - 1
  /\ stop'   = IF left = 1 THEN "join" ELSE "set"
  /\ UNCHANGED <<queue, pipe, pc, batch, run, cmd, ghost>>

Join ==
  /\ stop = "join"
  /\ \A w \in Workers : At(w, "exited")
  /\ stop' = "drain"
  /\ UNCHANGED <<queue, pipes, pc, batch, run, cmd, ghost, left>>

(* A bug to be caught: the commands left over not destructed.              *)
DrainNone ==
  /\ stop = "drain" /\ stop' = "stopped"
  /\ UNCHANGED <<queue, pipes, pc, batch, run, cmd, ghost, left>>

Drain ==
  /\ stop = "drain"
  /\ IF size # 0 /\ q # <<>> /\ Head(q).linked
     THEN /\ dropped' = dropped \cup {Head(q).val}
          /\ q' = Tail(q) /\ size' = size - 1
          /\ UNCHANGED stop
     ELSE stop' = "stopped" /\ UNCHANGED <<q, size, dropped>>
  /\ UNCHANGED <<owe, got, pipes, pc, batch, run, cmd, unsent, sent, handled, left>>

Send(t) == Push(t) \/ Link(t) \/ CountUp(t) \/ WriteByte(t)

Work(w) ==
  \/ Wait(w) \/ EndBatch(w) \/ ProcessIo(w) \/ ReadByte(w) \/ ReadExit(w)
  \/ PopCheck(w) \/ Take(w) \/ CountDown(w) \/ Handle(w)

Stop == SetExit \/ Join \/ Drain

Next ==
  \/ \E a \in Apps : StartSend(a)
  \/ \E t \in Senders : Send(t)
  \/ \E w \in Workers : Work(w)
  \/ StartStop \/ Stop

(* A thread that can take its next step is eventually scheduled; nothing   *)
(* makes a thread start a call.                                            *)
Fairness ==
  /\ \A t \in Senders : WF_vars(Send(t))
  /\ \A w \in Workers : WF_vars(Work(w))
  /\ WF_vars(Stop)

Spec == Init /\ [][Next]_vars /\ Fairness

-----------------------------------------------------------------------------
(* The types of m_queue, the pipes and the workers' locals.                *)
TypeOK ==
  /\ pipe \in 0 .. PipeCap /\ exits \in 0 .. Cardinality(Workers)
  /\ active \subseteq {"cmd", "exit"}
  /\ pc \in [Senders -> Pc] /\ stop \in StopPc
  /\ batch \in [Workers -> SUBSET Events]
  /\ run \in [Workers -> BOOLEAN]
  /\ cmd \in [Senders -> Cmds \cup {NoCmd}]
  /\ size \in Int /\ left \in 0 .. Cardinality(Workers)

(* A worker told that a pipe is readable finds a byte in it, whatever the  *)
(* other workers read meanwhile: the branches of ProcessCommand and of     *)
(* ProcessExit for an empty pipe are never taken.                          *)
Told(e) == Cardinality({w \in Workers : e \in batch[w]})
             + (IF e \in active THEN 1 ELSE 0)
ByteForEvent == Told("cmd") <= pipe /\ Told("exit") <= exits

(* A command is handled or destructed once, and never both; none that was  *)
(* queued is left when Stop() returns (VERIFY(m_queue.IsEmpty())).         *)
StopDrains ==
  /\ handled \cap dropped = {}
  /\ stop = "stopped" =>
       /\ q = <<>> /\ size = 0
       /\ unsent \cup handled \cup dropped = Cmds

(* Every command whose SendCommand returned reaches OnCommand, unless      *)
(* Stop() destructs it: although a pop gives up while an earlier push is   *)
(* half done, that push still has its byte to write.                       *)
SentIsHandled == []<>(sent \subseteq handled \cup dropped)

(* Stop() returns.                                                         *)
StopReturns == stop = "set" ~> stop = "stopped"

(* What a counting event in place of EFD_SEMAPHORE would give: one report *)
(* per byte, so that with everybody at rest and nothing left to report the *)
(* pipe is empty.  EV_CLEAR merges reports; the bytes stay, and a pipe     *)
(* that filled up blocks every later SendCommand.                          *)
AtRest == active = {} /\ \A t \in Senders : At(t, Home(t))
PipeDrains == AtRest => pipe = 0
=============================================================================
