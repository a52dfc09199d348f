----------------------------- MODULE MCStreams -----------------------------
(* CTcpServer and CTcpAgent, with what must eventually happen in them, and *)
(* what is built on a connection: SSL, packets, WebSocket, Release() and   *)
(* the synchronous client of HTTP, for TLC.  They share nothing: Init      *)
(* chooses which of them runs, the others rest.  Each budget and story is  *)
(* run by itself.                                                          *)
EXTENDS TcpServer, TLC

\* The server once more, for Stop() and one call at any time.
Z == INSTANCE TcpServer WITH MaxOps <- 1, Stops <- TRUE

CONSTANTS Targets, Connectors, AgentBudgets
VARIABLES part, async, asock, aobj, aids, acmds, ath, aend, abudget, told, heard
G == INSTANCE TcpAgent WITH
       Conns <- Targets, Apps <- Connectors, Budgets <- AgentBudgets, sock <- asock,
       obj <- aobj, active <- aids, cmds <- acmds, th <- ath, stop <- aend,
       budget <- abudget, fired <- heard
ASSUME AgentAssumption ==
  /\ None \notin Targets \cup Workers \cup Connectors
  /\ Workers \cap Connectors = {} /\ AgentBudgets \subseteq [G!Events -> Nat]
gvars == <<async, asock, aobj, aids, acmds, ath, aend, abudget, told, heard>>

CONSTANTS W, Stories  \* W: the worker of an SSL session, and of an HTTP client
VARIABLES role, auto, opened, valid, status, step, in, out, buf, mutex, csSend, carried,
          arriving, flights, left, tasks, made, fired2
S == INSTANCE SslSession WITH
       kind <- role, lock <- mutex, wire <- carried, net <- arriving, budget <- left,
       th <- tasks, fired <- fired2
svars == <<role, auto, opened, valid, status, step, in, out, buf, mutex, csSend, carried,
           arriving, flights, left, tasks, made, fired2>>

CONSTANTS HeaderLen, MaxPackSize, Sizes, MaxPauses
VARIABLES packs, toSend, stream, buffer, info, reads, held, free, csIo, unpauses, asking,
          pauses, readers, received, failed
K == INSTANCE Pack WITH armed <- reads, paused <- held, valid <- free, cmds <- unpauses,
                        wk <- readers
kvars == <<packs, toSend, stream, buffer, info, reads, held, free, csIo, unpauses, asking,
           pauses, readers, received, failed>>

CONSTANTS Streams
VARIABLES request, items, unread, data, at, upgrade, frame, messages, refused
H == INSTANCE WebSocket WITH net <- unread, pc <- at, ctx <- frame, heard <- messages,
                             failed <- refused
hvars == <<request, items, unread, data, at, upgrade, frame, messages, refused>>

CONSTANTS HttpConns, MaxPending, MaxReleases
VARIABLES server, evCleaner, open, pending, released, queue, due, orders, app, cl,
          entries, freed
R == INSTANCE HttpRelease WITH Conns <- HttpConns, cmds <- orders, made <- entries
rvars == <<server, evCleaner, open, pending, released, queue, due, orders, app, cl,
           entries, freed>>

CONSTANTS A, Patient, SyncBudgets
VARIABLES ystate, online, fire, answers, httpd, untilEof, progress, event, body, result,
          yth, op, ybudget
Y == INSTANCE HttpSync WITH
       Budgets <- SyncBudgets, state <- ystate, connected <- online, net <- answers,
       server <- httpd, th <- yth, budget <- ybudget
yvars == <<ystate, online, fire, answers, httpd, untilEof, progress, event, body, result,
           yth, op, ybudget>>

\* What a budget does not name does not happen.
Total(budgets) ==
  LET all == UNION {DOMAIN b : b \in budgets}
  IN  {[e \in all |-> IF e \in DOMAIN b THEN b[e] ELSE 0] : b \in budgets}
MCAgentBudgets == Total(
  { [connect |-> 1, data |-> 1, eof |-> 1, disconnect |-> 1],
    [connect |-> 1, send |-> 2, eof |-> 1],
    [connect |-> 1, data |-> 1, pause |-> 2],
    [connect |-> 2, disconnect |-> 1, stop |-> 1] })
MCSyncBudgets == Total(
  { [start |-> 2, request |-> 3, timeout |-> 1, close |-> 1, fail |-> 1],
    [open |-> 2, request |-> 1, timeout |-> 1, close |-> 1, fail |-> 1],
    [open |-> 3, bad |-> 1, close |-> 1, timeout |-> 1],
    [start |-> 2, request |-> 1, cancel |-> 1, timeout |-> 1] })

Story(k, a, s, d, b, e) ==
  [kind |-> k, auto |-> a, send |-> s, data |-> d, bad |-> b, eof |-> e]
MCStories == { Story("server", TRUE, 3, 2, 0, 1), Story("agent", TRUE, 3, 2, 1, 0),
               Story("client", TRUE, 2, 2, 1, 1), Story("agent", FALSE, 2, 1, 0, 1) }
MCSizes == {<<1, 2, 1>>, <<2, 0>>, <<1, 3>>}
Http(k, h, n) == [kind |-> k, head |-> h, size |-> n]
Frame(m, e, b) == [kind |-> "frame", mask |-> m, ext |-> e, body |-> b]
MCStreamsRead == {
  [request |-> TRUE,
   items |-> <<Http("get", 1, 2), Http("upgrade", 2, 2), Frame(TRUE, 0, 6), Frame(TRUE, 2, 1)>>],
  [request |-> FALSE,
   items |-> <<Http("upgrade", 1, 1), Frame(FALSE, 0, 0), Frame(FALSE, 8, 2), Frame(TRUE, 0, 1)>>],
  [request |-> TRUE, items |-> <<Http("get", 1, 1), Http("tunnel", 1, 1), Http("raw", 1, 2)>>],
  [request |-> TRUE, items |-> <<Http("upgrade", 1, 3), Frame(TRUE, 0, 1)>>],
  [request |-> TRUE, items |-> <<Http("get", 1, 1), Http("bad", 1, 1)>>] }

MCInit ==
  /\ part \in {"server", "stopping", "agent", "ssl", "pack", "websocket", "release", "sync"}
  /\ Init /\ G!Init /\ S!Init /\ K!Init /\ H!Init /\ R!Init /\ Y!Init
  /\ part # "agent" => async /\ abudget = CHOOSE b \in AgentBudgets : TRUE
  /\ part # "ssl" => role = "server"
  /\ part # "pack" => toSend = CHOOSE s \in Sizes : TRUE
  /\ part # "websocket" => items = (CHOOSE s \in Streams : TRUE).items
  /\ part # "release" => \A c \in HttpConns : pending[c] = 0
  /\ part # "sync" => ybudget = CHOOSE b \in SyncBudgets : TRUE
MCNext ==
  \/ part = "server" /\ Next
     /\ UNCHANGED <<part, gvars, svars, kvars, hvars, rvars, yvars>>
  \/ part = "stopping" /\ Z!Next
     /\ UNCHANGED <<part, gvars, svars, kvars, hvars, rvars, yvars>>
  \/ part = "agent" /\ G!Next
     /\ UNCHANGED <<part, vars, svars, kvars, hvars, rvars, yvars>>
  \/ part = "ssl" /\ S!Next
     /\ UNCHANGED <<part, vars, gvars, kvars, hvars, rvars, yvars>>
  \/ part = "pack" /\ K!Next
     /\ UNCHANGED <<part, vars, gvars, svars, hvars, rvars, yvars>>
  \/ part = "websocket" /\ H!Next
     /\ UNCHANGED <<part, vars, gvars, svars, kvars, rvars, yvars>>
  \/ part = "release" /\ R!Next
     /\ UNCHANGED <<part, vars, gvars, svars, kvars, hvars, yvars>>
  \/ part = "sync" /\ Y!Next
     /\ UNCHANGED <<part, vars, gvars, svars, kvars, hvars, rvars>>

(* The fairness of each, for the one that runs.                            *)
Serves == part \in {"server", "stopping"}
ServerFairness ==
  /\ \A w \in Workers : WF_vars(Serves /\ stop.pc # "stopped" /\ Work(w))
  /\ \A a \in Apps : WF_vars(Serves /\ Call(a))
  /\ \A c \in Conns : WF_vars(Serves /\ PeerRead(c))
  /\ WF_vars(part = "stopping" /\ (Z!Snapshot \/ Z!DisconnectOne \/ Z!WaitClosed))
AgentFairness ==
  /\ \A w \in Workers : WF_gvars(part = "agent" /\ G!Work(w))
  /\ WF_gvars(part = "agent" /\ \E w \in Workers : G!Take(w))
  /\ \A a \in Connectors : WF_gvars(part = "agent" /\ G!Call(a))
  /\ \A t \in G!Threads : WF_gvars(part = "agent" /\ G!Free(t))
  /\ \A c \in Targets : WF_gvars(part = "agent" /\ G!Kernel(c))
  /\ WF_gvars(part = "agent" /\ G!StopDisconnect)
LayerFairness ==
  /\ WF_svars(part = "ssl" /\ S!Works) /\ WF_svars(part = "ssl" /\ S!PeerFlight)
  /\ \A t \in S!Threads : WF_svars(part = "ssl" /\ S!Carry(t))
  /\ WF_svars(part = "ssl" /\ \E t \in Apps : S!Start(t))
  /\ \A w \in Workers : WF_kvars(part = "pack" /\ K!Work(w))
  /\ WF_kvars(part = "pack" /\ \E w \in Workers : K!Ready(w))
  /\ WF_kvars(part = "pack" /\ \E w \in Workers : K!TakeCommand(w))
  /\ \A a \in Apps : WF_kvars(part = "pack" /\ K!SendCommand(a))
  /\ WF_rvars(part = "release" /\ R!Cleaner)
  /\ WF_rvars(part = "release" /\ R!Ends)
  /\ WF_rvars(part = "release" /\ R!TimePasses)
  /\ \A a \in Apps : WF_rvars(part = "release" /\ (R!Mark(a) \/ R!Push(a)))
  /\ \A c \in HttpConns : /\ WF_rvars(part = "release" /\ R!Sent(c))
                           /\ WF_rvars(part = "release" /\ R!Disconnected(c))
  /\ WF_yvars(part = "sync" /\ Y!App) /\ WF_yvars(part = "sync" /\ Y!Worker)
  /\ WF_yvars(part = "sync" /\ Y!Answer)
  /\ \A t \in Y!Threads : WF_yvars(part = "sync" /\ (Y!Stop(t) \/ Y!SetRequestEvent(t)))

MCSpec == /\ MCInit
          /\ [][MCNext]_<<part, vars, gvars, svars, kvars, hvars, rvars, yvars>>
          /\ ServerFairness /\ AgentFairness /\ LayerFairness

(* The agent's listener hears of OnConnect first, and of each connection   *)
(* what Connect() said of it; every attempt to connect ends, and Stop()    *)
(* returns but for the join of the dispatcher (run dispatcher_exit).       *)
ConnectIsTold   == G!TypeOK /\ G!ConnectIsFirst /\ G!Accounted
ConnectResolved == G!ConnectResolved

(* What a layer makes of the bytes of a connection: records, packets and   *)
(* frames stay whole and in order, however they are cut and whoever sends; *)
(* every connection to be released is accounted for; and a synchronous     *)
(* request of HTTP gets its own answer.                                    *)
LayersInOrder == /\ S!SslTypeOK /\ S!WireInOrder /\ S!HandshakeFirst
                 /\ K!PackTypeOK /\ K!PacksInOrder
                 /\ H!WsTypeOK /\ H!FramesInOrder
                 /\ R!HrTypeOK /\ R!EntriesAccounted
                 /\ Y!TypeOK /\ Y!OwnAnswer
(* The handshake ends, no packet is held back, and of HTTP what is to be   *)
(* released is closed and a synchronous request returns.                   *)
Settles          == []<>(part = "ssl" => S!Settled)
NothingHeldBack  == []<>(part = "pack" => K!HandedOver)
HttpSettles      == R!ReleasedIsClosed /\ Y!RequestReturns
=============================================================================
