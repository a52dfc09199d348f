---------------------------- MODULE HttpRelease ----------------------------
(***************************************************************************)
(* Release() of the HTTP server (HttpServer.cpp): the application puts a   *)
(* connection into m_lsDyingQueue, and the cleaner thread disconnects it   *)
(* once the delay is over and nothing is pending.  The queue is CASQueue's *)
(* CCASQueueX, so a step on it is one step here; the server's sockets are  *)
(* TcpServer's.  An entry is known by its number, as by its address.       *)
(***************************************************************************)
EXTENDS Integers, Sequences, FiniteSets

CONSTANTS Conns, Apps, None,
          MaxPending,  (* bound: what is pending of a connection           *)
          MaxReleases  (* bound: calls of Release()                        *)

VARIABLES
  server,    (* "started", "stopping", "shutdown" or "stopped"             *)
  evCleaner, (* m_evCleaner is set                                         *)
  open,      (* the connections the server has                             *)
  pending,   (* [Conns -> what was sent before Release() and is pending]    *)
  released,  (* the connections whose THttpObj has m_bReleased             *)
  queue,     (* m_lsDyingQueue: sequence of [id, conn]                     *)
  due,       (* the entries whose release delay is over                    *)
  cmds,      (* the connections with a DISP_CMD_DISCONNECT                 *)
  app,       (* [Apps -> [pc, conn]]                                       *)
  cl,        (* the cleaner: [pc, cur, first]                              *)
  made,      (* history: how many entries were constructed                 *)
  freed      (* history: the entries destructed                            *)

hrVars == <<server, evCleaner, open, pending, released, queue, due, cmds, app, cl, made, freed>>
srv == <<server, evCleaner>>
conns == <<open, pending, released>>
entries == <<queue, due, made, freed>>

NoEntry == [id |-> 0, conn |-> None]
Goto(a, p) == app' = [app EXCEPT ![a].pc = p]

-----------------------------------------------------------------------------
(* The application: Release(), in the steps in which two threads meet.     *)

Call(a) ==
  /\ app[a].pc = "idle" /\ server = "started"
  /\ made + Cardinality({b \in Apps : app[b].pc # "idle"}) < MaxReleases
  /\ \E c \in open \ released : app' = [app EXCEPT ![a] = [pc |-> "mark", conn |-> c]]
  /\ UNCHANGED <<srv, conns, entries, cmds, cl>>

Mark(a) ==
  /\ app[a].pc = "mark"
  /\ released' = released \cup {app[a].conn}
  /\ Goto(a, "push")
  /\ UNCHANGED <<srv, open, pending, entries, cmds, cl>>

Push(a) ==
  /\ app[a].pc = "push"
  /\ made' = made + 1
  /\ queue' = Append(queue, [id |-> made', conn |-> app[a].conn])
  /\ Goto(a, "idle")
  /\ UNCHANGED <<srv, conns, due, cmds, cl, freed>>

-----------------------------------------------------------------------------
(* The connections.                                                        *)

Sent(c) ==
  /\ c \in open /\ pending[c] > 0
  /\ pending' = [pending EXCEPT ![c] = @ - 1]
  /\ UNCHANGED <<srv, open, released, entries, cmds, app, cl>>

\* The peer closes, or sends after Release(): DoFireReceive() is HR_ERROR.
PeerCloses(c) ==
  /\ c \in open
  /\ open' = open \ {c}
  /\ UNCHANGED <<srv, pending, released, entries, cmds, app, cl>>

Disconnected(c) ==
  /\ c \in cmds
  /\ cmds' = cmds \ {c}
  /\ open' = open \ {c}
  /\ UNCHANGED <<srv, pending, released, entries, app, cl>>

\* The delay is over; entries of one delay are due in their order.
TimePasses ==
  /\ \E n \in DOMAIN queue :
       /\ queue[n].id \notin due
       /\ due' = due \cup {queue[i].id : i \in 1 .. n}
  /\ UNCHANGED <<srv, conns, queue, made, freed, cmds, app, cl>>

-----------------------------------------------------------------------------
(* The cleaner: CleanerThreadProc(), KillDyingConnection() and             *)
(* ReleaseDyingConnection().                                               *)

Destruct(e) == freed' = freed \cup {e.id} /\ due' = due \ {e.id}

\* HasStarted(), which the loop tests.
Wait ==
  /\ cl.pc = "wait"
  /\ cl' = [cl EXCEPT !.pc = IF server = "started" THEN "poll" ELSE "clear"]
  /\ UNCHANGED <<srv, conns, entries, cmds, app>>

\* m_evCleaner is seen, or the wait times out and a round begins, though Stop()
\* may have come meanwhile; a round for nothing is left out.
Poll ==
  /\ cl.pc = "poll"
  /\ IF evCleaner
     THEN evCleaner' = FALSE /\ cl' = [cl EXCEPT !.pc = "clear"]
     ELSE /\ queue # <<>> \/ server # "started"
          /\ cl' = [cl EXCEPT !.pc = "peek", !.first = 0]
          /\ evCleaner' = evCleaner
  /\ UNCHANGED <<server, conns, entries, cmds, app>>

PeekAndPop ==
  /\ cl.pc = "peek"
  /\ IF queue = <<>> \/ Head(queue).id \notin due
     THEN cl' = [cl EXCEPT !.pc = "wait", !.first = 0] /\ queue' = queue
     ELSE /\ cl' = [cl EXCEPT !.pc = "look", !.cur = Head(queue)]
          /\ queue' = Tail(queue)
  /\ UNCHANGED <<srv, conns, due, made, freed, cmds, app>>

\* After Destruct(): an entry that began the round does not end it any more.
Round == [cl EXCEPT !.pc = "peek", !.cur = NoEntry,
                    !.first = IF @ = cl.cur.id THEN 0 ELSE @]

\* A bug to be caught: what is pending ends the care for the connection.
LookOnce ==
  LET e == cl.cur
  IN  /\ cl.pc = "look"
      /\ IF e.conn \notin open \/ pending[e.conn] > 0
         THEN Destruct(e) /\ cl' = Round /\ queue' = queue
         ELSE cl' = [cl EXCEPT !.pc = "disconnect"] /\ UNCHANGED <<queue, due, freed>>
      /\ UNCHANGED <<srv, conns, made, cmds, app>>

\* GetPendingDataLength() and what follows from it.
Look ==
  LET e == cl.cur
  IN  /\ cl.pc = "look"
      /\ CASE e.conn \notin open ->
                Destruct(e) /\ cl' = Round /\ queue' = queue
           [] e.conn \in open /\ pending[e.conn] > 0 ->
                /\ queue' = Append(queue, e) /\ UNCHANGED <<due, freed>>
                /\ cl' = CASE cl.first = e.id -> [pc |-> "wait", cur |-> NoEntry, first |-> 0]
                           [] cl.first = 0    -> [pc |-> "peek", cur |-> NoEntry, first |-> e.id]
                           [] OTHER           -> [cl EXCEPT !.pc = "peek", !.cur = NoEntry]
           [] OTHER ->
                cl' = [cl EXCEPT !.pc = "disconnect"] /\ UNCHANGED <<queue, due, freed>>
      /\ UNCHANGED <<srv, conns, made, cmds, app>>

Disconnect ==
  /\ cl.pc = "disconnect"
  /\ cmds' = cmds \cup ({cl.cur.conn} \cap open)
  /\ Destruct(cl.cur)
  /\ cl' = Round
  /\ UNCHANGED <<srv, conns, queue, made, app>>

Clear ==
  /\ cl.pc = "clear"
  /\ IF queue = <<>> THEN cl' = [cl EXCEPT !.pc = "ended"] /\ UNCHANGED <<queue, due, freed>>
     ELSE Destruct(Head(queue)) /\ queue' = Tail(queue) /\ cl' = cl
  /\ UNCHANGED <<srv, conns, made, cmds, app>>

-----------------------------------------------------------------------------
(* Stop(): the connections are closed, then DoFireShutdown() waits for the *)
(* cleaner.                                                                *)

Stop ==
  /\ server = "started"
  /\ server' = "stopping"
  /\ UNCHANGED <<evCleaner, conns, entries, cmds, app, cl>>

Shutdown ==
  /\ server = "stopping"
  /\ server' = "shutdown" /\ evCleaner' = TRUE
  /\ open' = {} /\ cmds' = {}
  /\ UNCHANGED <<pending, released, entries, app, cl>>

Join ==
  /\ server = "shutdown" /\ cl.pc = "ended"
  /\ server' = "stopped" /\ evCleaner' = FALSE
  /\ UNCHANGED <<conns, entries, cmds, app, cl>>

-----------------------------------------------------------------------------
Init ==
  /\ server = "started" /\ evCleaner = FALSE
  /\ open = Conns /\ pending \in [Conns -> 0 .. MaxPending] /\ released = {}
  /\ queue = <<>> /\ due = {} /\ cmds = {}
  /\ app = [a \in Apps |-> [pc |-> "idle", conn |-> None]]
  /\ cl = [pc |-> "wait", cur |-> NoEntry, first |-> 0]
  /\ made = 0 /\ freed = {}

Cleaner == Wait \/ Poll \/ PeekAndPop \/ Look \/ Disconnect \/ Clear
Ends == Shutdown \/ Join

Next ==
  \/ Cleaner \/ Ends \/ Stop \/ TimePasses
  \/ \E a \in Apps : Call(a) \/ Mark(a) \/ Push(a)
  \/ \E c \in Conns : Sent(c) \/ PeerCloses(c) \/ Disconnected(c)

\* Threads run, time passes, peers read and workers handle commands.
Fairness ==
  /\ WF_hrVars(Cleaner) /\ WF_hrVars(Ends) /\ WF_hrVars(TimePasses)
  /\ \A a \in Apps : WF_hrVars(Mark(a) \/ Push(a))
  /\ \A c \in Conns : WF_hrVars(Sent(c)) /\ WF_hrVars(Disconnected(c))

Spec == Init /\ [][Next]_hrVars /\ Fairness

-----------------------------------------------------------------------------
(* What the component promises.                                            *)

Kept == {queue[n].id : n \in DOMAIN queue} \cup (IF cl.cur = NoEntry THEN {} ELSE {cl.cur.id})

\* Type invariant.
HrTypeOK ==
  /\ server \in {"started", "stopping", "shutdown", "stopped"}
  /\ cl.pc \in {"wait", "poll", "peek", "look", "disconnect", "clear", "ended"}
  /\ open \subseteq Conns /\ released \subseteq Conns /\ cmds \subseteq Conns

\* Every TDyingConnection is in one place, and is destructed once, however
\* often two threads release a connection at once and the cleaner goes round.
EntriesAccounted ==
  /\ Kept \cup freed = 1 .. made /\ Kept \cap freed = {}
  /\ \A i, j \in DOMAIN queue : queue[i].id = queue[j].id => i = j

\* A connection that was released is closed, once its peer has read what was
\* sent, and Stop() returns, wherever the cleaner is.
ReleasedIsClosed == []<>(released \cap open = {} /\ server \in {"started", "stopped"})
=============================================================================
