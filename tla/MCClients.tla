------------------------------ MODULE MCClients -----------------------------
(* The clients for TLC: CTcpClient, CUdpClient and CUdpCast, and what      *)
(* CUdpArqClient adds to the second of them, the handshake of CArqSessionT *)
(* with the server and KCP, which carries data once the handshake has      *)
(* agreed on a conversation.  They share nothing here: Init chooses which  *)
(* of them runs, the others rest.                                          *)
EXTENDS Arq, TLC

CONSTANTS A, B, End, SndWnd, RcvWnd, WndRcv, Resend, FastLimit, NoCwnd, MaxSent, MaxFrag,
          MaxNet, MaxDup
VARIABLES part, kcp, receiving, segs, sent, got, dups
K == INSTANCE Kcp WITH net <- segs
kvars == <<kcp, receiving, segs, sent, got, dups>>

CONSTANTS W, Callers, ClientBudgets, Kinds, Attempts
VARIABLES kind, state, connected, paused, lsSend, ev, armed, ctx, running, fails,
          sock, th, budget, session, events, packets, wire
C == INSTANCE Client WITH Apps <- Callers, Budgets <- ClientBudgets,
                          sent <- packets, fired <- events
\* No Stop() during Start(), and no call of PauseReceive() that outlives its
\* connection while the next one is being opened by itself.
ASSUME ClientAssumption ==
  /\ W \notin Callers /\ Attempts \in Nat /\ ClientBudgets \subseteq [C!Events -> Nat]
  /\ \A b \in ClientBudgets : b["early"] = 0 /\ (b["pause"] = 0 \/ b["async"] = 0)
cvars == <<kind, state, connected, paused, lsSend, ev, armed, ctx, running, fails, sock, th,
           budget, session, events, packets, wire>>
all == <<part, vars, kvars, cvars>>

MCMaxSess == Client :> 2 @@ Server :> 1
MCMaxSent == A :> 3 @@ B :> 0
MCMaxNet  == A :> 1 @@ B :> 2
\* What a budget does not name does not happen.
Total(budgets) ==
  LET named == UNION {DOMAIN b : b \in budgets}
  IN  {[e \in named |-> IF e \in DOMAIN b THEN b[e] ELSE 0] : b \in budgets}
MCClientBudgets == Total(
  { [start |-> 1, async |-> 1, data |-> 1, eof |-> 1, stop |-> 1],
    [start |-> 1, async |-> 1, error |-> 1, refuse |-> 1, data |-> 1],
    [start |-> 1, async |-> 1, send |-> 2, block |-> 1, stop |-> 1],
    [start |-> 1, early |-> 0, data |-> 1, pause |-> 2],
    [start |-> 1, tick |-> 2, zero |-> 1, notify |-> 1],
    [start |-> 2, send |-> 1, stop |-> 2] })

OfArq == part = "arq" /\ UNCHANGED <<part, kvars, cvars>>
OfKcp == part = "kcp" /\ UNCHANGED <<part, vars, cvars>>
OfClient == part = "client" /\ UNCHANGED <<part, vars, kvars>>

MCInit ==
  /\ part \in {"arq", "kcp", "client"} /\ Init /\ K!Init /\ C!Init
  /\ part # "client" => kind = "tcp" /\ budget = CHOOSE b \in ClientBudgets : TRUE
MCNext == (OfArq /\ Next) \/ (OfKcp /\ K!Next) \/ (OfClient /\ C!Next)

(* The fairness of each, for the one that runs; that of Arq and Kcp in one *)
(* formula for a side of Arq and the end of Kcp it is paired with.         *)
Delivered(e) == \/ \E d \in segs[e] : K!Receive(e, d) /\ d \notin segs'[e]
                \/ K!Recv(e) \/ K!RecvEnd(e)
Retried(x) == \E cmd \in net[x] : /\ cmd.selfID = sess[Peer(x)].self
                                  /\ cmd = Package(sess[Peer(x)])
                                  /\ ReceiveHandShake(x, cmd)
Paired == Client :> A @@ Server :> B
MCFairness ==
  \A x \in Side :
    /\ WF_all(OfArq /\ Due(x))
    /\ WF_all((OfKcp /\ Delivered(Paired[x])) \/ (OfArq /\ Check(x)))
    /\ SF_all((OfKcp /\ K!FlushAll(Paired[x])) \/ (OfArq /\ Retried(x)))
ClientFairness ==
  /\ \A a \in Callers : WF_all(OfClient /\ C!Starts(a)) /\ WF_all(OfClient /\ C!Signals(a))
  /\ \A t \in C!Threads : WF_all(OfClient /\ C!Stopping(t))
  /\ WF_all(OfClient /\ C!Worker)
  /\ WF_all(OfClient /\ C!Connected)
  /\ WF_all(OfClient /\ C!PeerReads)

MCSpec == MCInit /\ [][MCNext]_all /\ MCFairness /\ ClientFairness

(* Nothing a client was asked for is forgotten or sent out of order, its   *)
(* OnClose comes once and last, and its end is reached.                    *)
NothingForgotten  == C!TypeOK /\ C!NothingForgotten /\ C!SentInOrder
ClientCloseIsLast == C!CloseIsLast
EndReached        == C!EndReached

(* Messages arrive whole, once, in order, and all of them.                 *)
IsMessageStream == K!IsMessageStream
=============================================================================
