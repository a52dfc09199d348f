--------------------------- MODULE MCConnections ---------------------------
(* CRingPool, CTcpServer and the buffers of the pull components for TLC,   *)
(* where symmetry may be used.  They share nothing: Init chooses which of  *)
(* them runs, the others rest.  The ring is the smallest that fills up and *)
(* in which a put meets a locked slot.  Of the server there are two        *)
(* instances: two connections go through accept, read, disconnect and      *)
(* close and share objects; one connection is sent on, paused and resumed  *)
(* by two threads.  Of three connections that pull the third uses the slot *)
(* and the buffers of the others again.                                    *)
EXTENDS RingPool, TLC

CONSTANTS None, Workers, Conns, Objs, Apps, AppOps, MaxOps, MaxIn, Room, MaxWrites, PoolCap,
          FlowConns, FlowObjs, FlowApps, FlowOps, FlowMaxOps, FlowMaxWrites, FlowPoolCap
VARIABLES part, net, lsn, active, obj, cmds, wk, ap, ops, stop, fired, queued
L == INSTANCE TcpServer WITH Stops <- FALSE
F == INSTANCE TcpServer WITH
       Conns <- FlowConns, Objs <- FlowObjs, Apps <- FlowApps, AppOps <- FlowOps,
       MaxOps <- FlowMaxOps, MaxWrites <- FlowMaxWrites, PoolCap <- FlowPoolCap,
       Stops <- FALSE
ASSUME LifeAssumption ==
  /\ AppOps \subseteq {"send", "pause", "resume", "disconnect"}
  /\ None \notin Objs \cup Conns \cup Workers /\ MaxIn \in Nat /\ Room \in Nat
ASSUME FlowAssumption ==
  /\ FlowOps \subseteq {"send", "pause", "resume", "disconnect"}
  /\ None \notin FlowObjs \cup FlowConns
svars == <<net, lsn, active, obj, cmds, wk, ap, ops, stop, fired, queued>>

CONSTANTS PullBufs, PullSize, PullConns, PullIn, Capacity, PullPoolSize, Remembers
VARIABLES bconns, reserved, cache, buf, bfree, gc, bwk, sent, got
B == INSTANCE PullServer WITH
       Bufs <- PullBufs, Size <- PullSize, MaxConns <- PullConns, MaxIn <- PullIn,
       PoolSize <- PullPoolSize, conns <- bconns, free <- bfree, wk <- bwk
\* The application does not fetch by the id of a connection that is closed.
ASSUME PullAssumption ==
  /\ None \notin PullBufs /\ PullSize \in Nat \ {0} /\ PullConns \in Nat /\ PullIn \in Nat
  /\ Capacity \in Nat \ {0} /\ ~Remembers
bvars == <<bconns, reserved, cache, buf, bfree, gc, bwk, sent, got>>

\* A ring at rest is one whose objects were all destructed.
Cleared == INSTANCE RingPool WITH Elems <- {}, gone <- {}

MCInit ==
  /\ part \in {"ring", "life", "flow", "pull"}
  /\ IF part = "ring" THEN Init ELSE Cleared!Init /\ gone = Elems
  /\ IF part = "flow" THEN F!Init ELSE L!Init
  /\ B!Init
MCNext ==
  \/ part = "ring" /\ Next /\ UNCHANGED <<part, svars, bvars>>
  \/ part = "life" /\ L!Next /\ UNCHANGED <<part, vars, bvars>>
  \/ part = "flow" /\ F!Next /\ UNCHANGED <<part, vars, bvars>>
  \/ part = "pull" /\ B!Next /\ UNCHANGED <<part, vars, svars>>
MCSpec == MCInit /\ [][MCNext]_<<part, vars, svars, bvars>>

(* The threads of the ring and the workers are the same model values, so   *)
(* are the pooled objects and the socket objects: the group stays small.   *)
Symm == Permutations(Workers) \cup Permutations(Objs) \cup Permutations(FlowApps)

(* The life of the two connections: each has an object of its own, its     *)
(* OnClose comes last, and comes whenever the listener knew of it.  The    *)
(* same of pulled buffers: each connection has one of its own, those that  *)
(* wait to be used again are empty.                                        *)
LifeOwnObject ==
  /\ part = "life" => L!TypeOK /\ L!OwnObject
  /\ part = "pull" => B!PullTypeOK /\ B!BufferIsOwn /\ B!FreeIsEmpty
LifeCloseIsLast == part = "life" => L!CloseIsLast /\ L!GoneWasClosed

(* The data: the connection is armed for reading unless it is paused; what *)
(* it sent is on the wire in order, and what was pulled came in order.     *)
FlowReadIsArmed == part = "flow" => F!ReadIsArmed
FlowSentInOrder ==
  /\ part = "flow" => F!SentInOrder
  /\ part = "pull" => B!FetchedInOrder
=============================================================================
