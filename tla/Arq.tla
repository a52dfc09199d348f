-------------------------------- MODULE Arq --------------------------------
(***************************************************************************)
(* The handshake of the ARQ components (ArqHelper.h): CUdpArqClient and    *)
(* CUdpArqServer each drive a CArqSessionT for one pair of addresses over  *)
(* datagrams that are lost, duplicated and reordered.  Either side may     *)
(* close and open again, with a new conversation ID, while datagrams of    *)
(* its earlier sessions are still under way.                               *)
(*                                                                         *)
(* Time is abstracted to what the code compares: whether HSNextTime has    *)
(* come, and whether a session is older than once or twice the handshake   *)
(* timeout.  What is sent after the handshake is the subject of Kcp.       *)
(***************************************************************************)
EXTENDS Integers, FiniteSets

CONSTANTS Client, Server,  \* the two sides
          MaxSess,         \* bound: [side -> sessions that side opens]
          MaxLossy         \* bound: sessions opened while datagrams are lost

ASSUME ArqAssumption ==
  /\ Client # Server
  /\ MaxSess \in [{Client, Server} -> Nat]
  /\ MaxLossy \in Nat

Side == {Client, Server}
Peer(x) == IF x = Client THEN Server ELSE Client

VARIABLES sess,     \* [Side -> CArqSessionT]
          net,      \* [Side -> datagrams on their way to that side]
          count,    \* [Side -> sessions opened]: GenerateConversationID()
          learned,  \* history: [Side -> <<self, peer>> a session stored]
          fired     \* history: [Side -> <<self, peer>> given to OnHandShake]

vars == <<sess, net, count, learned, fired>>

\* TArqCmd; 0 is "no conversation yet".
Cmd == [selfID : Nat \ {0}, peerID : Nat, complete : BOOLEAN]

\* m_enStatus, m_dwSelfConvID, m_dwPeerConvID, m_bHSComplete; due: HSNextTime
\* has come; age: the number of handshake timeouts since m_dwCreateTime.
Session == [status : {"INIT", "PROC", "SUCC"}, self : Nat, peer : Nat,
            complete : BOOLEAN, due : BOOLEAN, age : 0 .. 2]

Closed == [status |-> "INIT", self |-> 0, peer |-> 0, complete |-> FALSE,
           due |-> FALSE, age |-> 0]
Opened(n) == [status |-> "PROC", self |-> n, peer |-> 0, complete |-> FALSE,
              due |-> TRUE, age |-> 0]

IsValid(s) == s.status # "INIT"
IsReady(s) == s.status = "SUCC"

-----------------------------------------------------------------------------
\* DoHandShake(): what the session is after it, and the datagram it sends.
\* It fails when the handshake timeout is over, and waits for HSNextTime.
TimedOut(s) == s.age > 0
Sends(s) == ~TimedOut(s) /\ s.due
\* Mutant: a session that knows its peer calls itself complete.
PackageEarly(s) == [selfID |-> s.self, peerID |-> s.peer, complete |-> s.peer # 0]

Package(s) == [selfID |-> s.self, peerID |-> s.peer, complete |-> IsReady(s)]

DoHandShake(x, s) ==
  /\ sess' = [sess EXCEPT ![x] = IF Sends(s) THEN [s EXCEPT !.due = FALSE] ELSE s]
  /\ net' = IF Sends(s) THEN [net EXCEPT ![Peer(x)] = @ \cup {Package(s)}] ELSE net

\* Renew(), from FireConnect() of the client and FireAccept() of the server,
\* with the Check() it ends with.  The server accepts on any datagram.
Renew(x) ==
  /\ ~IsValid(sess[x])
  /\ count[x] < MaxSess[x]
  /\ x = Server => net[x] # {}
  /\ count' = [count EXCEPT ![x] = @ + 1]
  /\ DoHandShake(x, Opened(count[x] + 1))
  /\ UNCHANGED <<learned, fired>>

\* Reset(), when the connection is closed by either application or an error.
Close(x) ==
  /\ IsValid(sess[x])
  /\ sess' = [sess EXCEPT ![x] = Closed]
  /\ UNCHANGED <<net, count, learned, fired>>

\* Check(), from the timer: a session that may not send its handshake any more
\* before it is complete disconnects.
\* Mutant: the check that is over only stops sending.
CheckSilent(x) ==
  LET s == sess[x]
  IN  /\ IsValid(s) /\ ~s.complete
      /\ DoHandShake(x, s)
      /\ UNCHANGED <<count, learned, fired>>

Check(x) ==
  LET s == sess[x]
  IN  /\ IsValid(s) /\ ~s.complete
      /\ IF TimedOut(s)
         THEN sess' = [sess EXCEPT ![x] = Closed] /\ net' = net
         ELSE DoHandShake(x, s)
      /\ UNCHANGED <<count, learned, fired>>

-----------------------------------------------------------------------------
(* ReceiveHandShake().  HR_ERROR closes the connection.                    *)

\* A session that is ready keeps its peer; the first datagram of that peer may
\* come again for a while.
Refuses(s, cmd) ==
  \/ cmd.selfID # s.peer
  \/ cmd.peerID # s.self /\ (cmd.peerID # 0 \/ s.age = 2)

\* A session that is not ready learns its peer from the first datagram, and
\* sends at once.
Learn(s, cmd) ==
  IF s.peer = 0 THEN [s EXCEPT !.peer = cmd.selfID, !.due = TRUE] ELSE s

Learns(x, cmd) ==
  learned' = [learned EXCEPT ![x] = @ \cup {<<sess[x].self, cmd.selfID>>}]

\* The tail after m_cs is released.
Answer(x, s, cmd) ==
  DoHandShake(x, [s EXCEPT !.complete = @ \/ cmd.complete])

ReceiveReady(x, cmd) ==
  /\ IsReady(sess[x])
  /\ IF Refuses(sess[x], cmd)
     THEN sess' = [sess EXCEPT ![x] = Closed] /\ net' = net
     ELSE Answer(x, sess[x], cmd)
  /\ UNCHANGED <<learned, fired>>

\* Mutant: who the datagram is from is not compared.
SucceedBlindly(x, cmd) ==
  LET s == Learn(sess[x], cmd)
  IN  /\ sess[x].status = "PROC"
      /\ cmd.peerID = s.self
      /\ fired' = [fired EXCEPT ![x] = @ \cup {<<s.self, s.peer>>}]
      /\ \E error \in BOOLEAN :
           sess' = [sess EXCEPT ![x] =
                      IF error THEN Closed ELSE [s EXCEPT !.status = "SUCC"]]
      /\ Learns(x, cmd)
      /\ net' = net

\* The datagram names this session: OnHandShake, and no answer; the callback
\* may return HR_ERROR.
Succeed(x, cmd) ==
  LET s == Learn(sess[x], cmd)
  IN  /\ sess[x].status = "PROC"
      /\ s.peer = cmd.selfID
      /\ cmd.peerID = s.self
      /\ fired' = [fired EXCEPT ![x] = @ \cup {<<s.self, s.peer>>}]
      /\ \E error \in BOOLEAN :
           sess' = [sess EXCEPT ![x] =
                      IF error THEN Closed ELSE [s EXCEPT !.status = "SUCC"]]
      /\ Learns(x, cmd)
      /\ net' = net

\* The peer has not heard of this session yet: it is answered.
Introduce(x, cmd) ==
  LET s == Learn(sess[x], cmd)
  IN  /\ sess[x].status = "PROC"
      /\ s.peer = cmd.selfID
      /\ cmd.peerID = 0
      /\ Answer(x, s, cmd)
      /\ Learns(x, cmd)
      /\ fired' = fired

\* A datagram of or for another session.
Foreign(x, cmd) ==
  LET s == Learn(sess[x], cmd)
  IN  /\ sess[x].status = "PROC"
      /\ s.peer # cmd.selfID \/ cmd.peerID \notin {0, s.self}
      /\ sess' = [sess EXCEPT ![x] = Closed]
      /\ IF s.peer = cmd.selfID THEN Learns(x, cmd) ELSE learned' = learned
      /\ UNCHANGED <<net, fired>>

ReceiveHandShake(x, cmd) ==
  /\ cmd \in net[x]
  /\ ReceiveReady(x, cmd) \/ Succeed(x, cmd) \/ Introduce(x, cmd) \/ Foreign(x, cmd)
  /\ count' = count

\* The network drops a datagram; what stays in net may be delivered again.  No
\* datagram need ever be received, so dropping it matters to liveness only.
Lose(x, cmd) ==
  /\ cmd \in net[x]
  /\ count[Client] + count[Server] <= MaxLossy
  /\ net' = [net EXCEPT ![x] = @ \ {cmd}]
  /\ UNCHANGED <<sess, count, learned, fired>>

\* HSNextTime comes.
Due(x) ==
  /\ IsValid(sess[x]) /\ ~sess[x].due
  /\ sess' = [sess EXCEPT ![x].due = TRUE]
  /\ UNCHANGED <<net, count, learned, fired>>

\* A handshake timeout passes.
Age(x) ==
  /\ IsValid(sess[x]) /\ sess[x].age < 2
  /\ sess' = [sess EXCEPT ![x].age = @ + 1]
  /\ UNCHANGED <<net, count, learned, fired>>

Init ==
  /\ sess = [x \in Side |-> Closed]
  /\ net = [x \in Side |-> {}]
  /\ count = [x \in Side |-> 0]
  /\ learned = [x \in Side |-> {}]
  /\ fired = [x \in Side |-> {}]

Next ==
  \E x \in Side :
    \/ Renew(x) \/ Close(x) \/ Check(x) \/ Due(x) \/ Age(x)
    \/ \E cmd \in net[x] : ReceiveHandShake(x, cmd) \/ Lose(x, cmd)

\* The timers run; a datagram of the peer's present session that is sent again
\* and again gets through.
Fairness ==
  \A x \in Side :
    /\ WF_vars(Check(x))
    /\ WF_vars(Due(x))
    /\ SF_vars(\E cmd \in net[x] : /\ cmd.selfID = sess[Peer(x)].self
                                   /\ cmd = Package(sess[Peer(x)])
                                   /\ ReceiveHandShake(x, cmd))

Spec == Init /\ [][Next]_vars /\ Fairness

-----------------------------------------------------------------------------
(* What the handshake promises.                                            *)

\* Type invariant.
TypeOK ==
  /\ sess \in [Side -> Session]
  /\ net \in [Side -> SUBSET Cmd]
  /\ count \in [Side -> Nat]
  /\ learned \in [Side -> SUBSET (Nat \X Nat)]
  /\ fired \in [Side -> SUBSET (Nat \X Nat)]

\* OnHandShake says the truth: the conversation it is fired for is one the
\* other side's session has stored too, whatever datagrams of earlier sessions
\* arrive, and a session that is alive has no other peer than that.
Agreement ==
  \A x \in Side :
    /\ \A p \in fired[x] : <<p[2], p[1]>> \in learned[Peer(x)]
    /\ IsReady(sess[x]) /\ sess[Peer(x)].self = sess[x].peer
         => sess[Peer(x)].peer = sess[x].self

\* m_bHSComplete stops the retransmission of the handshake: by then the other
\* side has had its OnHandShake for this conversation, so nothing is missing.
CompleteIsMutual ==
  \A x \in Side :
    sess[x].complete => <<sess[x].peer, sess[x].self>> \in fired[Peer(x)]

\* No side stays half open: a session either completes its handshake or is
\* closed once the timeout is over.  And while none of two sessions is closed
\* or out of time, both complete: throttling and unanswered datagrams never
\* leave both sides waiting.
HandshakeResolved ==
  /\ []<>(\A x \in Side :
             IsValid(sess[x]) /\ TimedOut(sess[x]) => sess[x].complete)
  /\ []<>(\/ \A x \in Side : sess[x].complete
          \/ \E x \in Side : ~IsValid(sess[x]) \/ TimedOut(sess[x]))
=============================================================================
