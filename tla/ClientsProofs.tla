--------------------------- MODULE ClientsProofs ---------------------------
(***************************************************************************)
(* Proofs about what MCClients runs.  Arq: the safety of the handshake,    *)
(* for any number of sessions on either side and whatever the network      *)
(* does.  Client: what is heard of a connection, what a worker that sleeps *)
(* has armed, and what is written, whoever starts, sends, pauses or stops. *)
(***************************************************************************)
EXTENDS MCClients, FiniteSetTheorems, SequenceTheorems, TLAPS

-----------------------------------------------------------------------------
(* CArqSessionT.                                                           *)

\* A side either has no session or the one opened last.
Current ==
  \A x \in Side :
    \/ sess[x] = Closed
    \/ IsValid(sess[x]) /\ sess[x].self = count[x] /\ sess[x].self > 0

\* A session stores one peer in its life, and learned says which.
LearnedOnce ==
  \A x \in Side :
    /\ \A p \in learned[x] : p[1] <= count[x]
    /\ \A p, q \in learned[x] : p[1] = q[1] => p = q
    /\ sess[x].peer # 0 => <<sess[x].self, sess[x].peer>> \in learned[x]
    /\ \A p \in learned[x] : p[1] = sess[x].self => p[2] = sess[x].peer
    /\ \A p \in learned[x] : p[1] # 0 /\ p[2] # 0

\* What a session knows of its handshake is in fired.
ReadyFired ==
  \A x \in Side :
    /\ IsReady(sess[x]) => <<sess[x].self, sess[x].peer>> \in fired[x]
    /\ sess[x].complete => IsReady(sess[x])

\* A datagram says what its sender had stored when it was sent.
Truthful ==
  \A x \in Side : \A cmd \in net[Peer(x)] :
    /\ cmd.peerID # 0 => <<cmd.selfID, cmd.peerID>> \in learned[x]
    /\ cmd.complete => /\ cmd.peerID # 0
                       /\ <<cmd.selfID, cmd.peerID>> \in fired[x]

FiredLearned ==
  \A x \in Side : \A p \in fired[x] :
    /\ <<p[2], p[1]>> \in learned[Peer(x)]
    /\ p \in learned[x]

Inv ==
  /\ TypeOK /\ Current /\ LearnedOnce /\ ReadyFired /\ Truthful /\ FiredLearned
  /\ CompleteIsMutual

LEMMA PeerFacts ==
  \A x \in Side : Peer(x) \in Side /\ Peer(x) # x /\ Peer(Peer(x)) = x
  BY ArqAssumption DEF Side, Peer

LEMMA InitInv == Init => Inv
  BY PeerFacts DEF Init, Inv, TypeOK, Current, LearnedOnce, ReadyFired, Truthful,
    FiredLearned, CompleteIsMutual, Closed, Session, IsValid, IsReady

\* DoHandShake() of a session that satisfies the invariant's claims keeps them.
LEMMA DoHandShakeTruthful ==
  ASSUME TypeOK, Truthful, NEW x \in Side, NEW s \in Session, DoHandShake(x, s),
         s.self > 0,
         s.peer # 0 => <<s.self, s.peer>> \in learned'[x],
         IsReady(s) => s.peer # 0 /\ <<s.self, s.peer>> \in fired'[x],
         \A y \in Side : learned[y] \subseteq learned'[y] /\ fired[y] \subseteq fired'[y]
  PROVE  /\ Truthful'
         /\ net' \in [Side -> SUBSET Cmd]
         /\ sess' \in [Side -> Session]
         /\ \A y \in Side \ {x} : sess'[y] = sess[y]
         /\ sess'[x] \in Session
         /\ sess'[x].status = s.status /\ sess'[x].self = s.self
         /\ sess'[x].peer = s.peer /\ sess'[x].complete = s.complete
  <1> DEFINE t == IF Sends(s) THEN [s EXCEPT !.due = FALSE] ELSE s
  <1>1. /\ t \in Session
        /\ t.status = s.status /\ t.self = s.self
        /\ t.peer = s.peer /\ t.complete = s.complete
    BY DEF Session
  <1>2. sess' = [sess EXCEPT ![x] = t]
    BY DEF DoHandShake
  <1>3. /\ sess' \in [Side -> Session] /\ sess'[x] = t
        /\ \A y \in Side \ {x} : sess'[y] = sess[y]
    BY <1>1, <1>2 DEF TypeOK
  <1>4. Package(s) \in Cmd
    BY DEF Package, Cmd, Session, IsReady
  <1>5. net' \in [Side -> SUBSET Cmd]
    BY <1>4, PeerFacts DEF DoHandShake, TypeOK
  <1>6. \A y \in Side : \A cmd \in net'[Peer(y)] :
           cmd \in net[Peer(y)] \/ (y = x /\ cmd = Package(s))
    BY PeerFacts DEF DoHandShake, TypeOK
  <1>7. Truthful'
    <2> SUFFICES ASSUME NEW y \in Side, NEW cmd \in net'[Peer(y)]
                 PROVE  /\ cmd.peerID # 0 => <<cmd.selfID, cmd.peerID>> \in learned'[y]
                        /\ cmd.complete => /\ cmd.peerID # 0
                                           /\ <<cmd.selfID, cmd.peerID>> \in fired'[y]
      BY DEF Truthful
    <2>1. CASE cmd \in net[Peer(y)]
      BY <2>1 DEF Truthful
    <2>2. CASE y = x /\ cmd = Package(s)
      BY <2>2 DEF Package
    <2> QED BY <1>6, <2>1, <2>2
  <1> QED BY <1>1, <1>3, <1>5, <1>7

-----------------------------------------------------------------------------
(* What each step may change, seen from side x.                            *)

LEMMA RenewInv ==
  ASSUME Inv, NEW x \in Side, Renew(x)
  PROVE  Inv'
  <1> DEFINE s == Opened(count[x] + 1)
  <1>1. /\ s \in Session /\ s.self = count[x] + 1 /\ s.peer = 0 /\ s.status = "PROC"
        /\ s.complete = FALSE
        /\ count[x] \in Nat /\ ~IsReady(s)
    <2>1. count[x] \in Nat
      BY DEF Inv, TypeOK
    <2>2. s \in Session
      BY <2>1 DEF Session, Opened
    <2> QED BY <2>1, <2>2 DEF IsReady, Opened
  <1>2. /\ DoHandShake(x, s) /\ learned' = learned /\ fired' = fired
        /\ count' = [count EXCEPT ![x] = @ + 1]
    BY DEF Renew
  <1> HIDE DEF s
  <1>3. /\ Truthful'
        /\ net' \in [Side -> SUBSET Cmd] /\ sess' \in [Side -> Session]
        /\ \A y \in Side \ {x} : sess'[y] = sess[y]
        /\ sess'[x].status = "PROC" /\ sess'[x].self = count[x] + 1
        /\ sess'[x].peer = 0 /\ sess'[x].complete = FALSE
    <2>1. \A y \in Side : learned[y] \subseteq learned'[y] /\ fired[y] \subseteq fired'[y]
      BY <1>2
    <2>2. s.self > 0 /\ s.self = count[x] + 1
      BY <1>1
    <2> QED BY <1>1, <1>2, <2>1, <2>2, DoHandShakeTruthful DEF Inv
  <1>4. /\ count' \in [Side -> Nat] /\ count'[x] = count[x] + 1
        /\ \A y \in Side \ {x} : count'[y] = count[y]
    BY <1>1, <1>2 DEF Inv, TypeOK
  <1>5. TypeOK'
    BY <1>2, <1>3, <1>4 DEF Inv, TypeOK
  <1>6. Current'
    BY <1>1, <1>3, <1>4 DEF Inv, Current, IsValid
  <1>7. LearnedOnce'
    <2>1. \A y \in Side : \A p \in learned[y] : p \in Nat \X Nat
      BY DEF Inv, TypeOK
    <2>2. \A p \in learned[x] : p[1] <= count'[x] /\ p[1] # count[x] + 1
      <3>1. \A p \in learned[x] : p[1] <= count[x] /\ p[1] \in Nat
        BY <2>1 DEF Inv, LearnedOnce
      <3> QED BY <1>1, <1>4, <3>1
    <2> SUFFICES ASSUME NEW y \in Side
                 PROVE  /\ \A p \in learned'[y] : p[1] <= count'[y]
                        /\ \A p, q \in learned'[y] : p[1] = q[1] => p = q
                        /\ sess'[y].peer # 0
                             => <<sess'[y].self, sess'[y].peer>> \in learned'[y]
                        /\ \A p \in learned'[y] :
                             p[1] = sess'[y].self => p[2] = sess'[y].peer
                        /\ \A p \in learned'[y] : p[1] # 0 /\ p[2] # 0
      BY DEF LearnedOnce
    <2>3. CASE y = x
      BY <2>3, <1>2, <1>3, <2>2, ZenonT(60) DEF Inv, LearnedOnce
    <2>4. CASE y # x
      BY <2>4, <1>2, <1>3, <1>4 DEF Inv, LearnedOnce
    <2> QED BY <2>3, <2>4
  <1>8. ReadyFired' /\ FiredLearned' /\ CompleteIsMutual'
    BY <1>2, <1>3, PeerFacts DEF Inv, ReadyFired, FiredLearned, CompleteIsMutual, IsReady
  <1> QED BY <1>3, <1>5, <1>6, <1>7, <1>8 DEF Inv

\* A step that changes a session without changing what it knows.
LEMMA SameSession ==
  ASSUME Inv, NEW x \in Side, count' = count, learned' = learned, fired' = fired,
         sess' \in [Side -> Session], net' \in [Side -> SUBSET Cmd], Truthful',
         \A y \in Side \ {x} : sess'[y] = sess[y],
         sess[x].self > 0,
         /\ sess'[x].status = sess[x].status /\ sess'[x].self = sess[x].self
         /\ sess'[x].peer = sess[x].peer /\ sess'[x].complete = sess[x].complete
  PROVE  Inv'
  <1>1. Current'
    BY DEF Inv, Current, IsValid, Closed
  <1>2. TypeOK' /\ LearnedOnce' /\ ReadyFired' /\ FiredLearned' /\ CompleteIsMutual'
    BY PeerFacts DEF Inv, TypeOK, LearnedOnce, ReadyFired, FiredLearned,
      CompleteIsMutual, IsReady
  <1> QED BY <1>1, <1>2 DEF Inv

\* A step that closes a session, which may have stored its peer before.
LEMMA CloseSession ==
  ASSUME Inv, NEW x \in Side, count' = count, net' = net,
         sess' = [sess EXCEPT ![x] = Closed],
         learned' \in [Side -> SUBSET (Nat \X Nat)],
         fired' \in [Side -> SUBSET (Nat \X Nat)],
         \A y \in Side : learned[y] \subseteq learned'[y] /\ fired[y] \subseteq fired'[y],
         \A y \in Side : /\ \A p \in learned'[y] : p[1] <= count[y] /\ p[1] # 0 /\ p[2] # 0
                         /\ \A p, q \in learned'[y] : p[1] = q[1] => p = q
                         /\ y # x => learned'[y] = learned[y] /\ fired'[y] = fired[y],
         FiredLearned'
  PROVE  Inv'
  <1>1. /\ sess' \in [Side -> Session] /\ sess'[x] = Closed
        /\ \A y \in Side \ {x} : sess'[y] = sess[y]
    BY DEF Inv, TypeOK, Session, Closed
  <1>2. TypeOK' /\ Current' /\ Truthful'
    BY <1>1, PeerFacts DEF Inv, TypeOK, Current, Truthful
  <1>3. LearnedOnce'
    BY <1>1 DEF Inv, LearnedOnce, Closed
  <1>4. ReadyFired' /\ CompleteIsMutual'
    BY <1>1, PeerFacts DEF Inv, ReadyFired, CompleteIsMutual, Closed, IsReady
  <1> QED BY <1>2, <1>3, <1>4 DEF Inv

\* A step that only closes a session.
LEMMA CloseQuietly ==
  ASSUME Inv, NEW x \in Side, count' = count, net' = net, learned' = learned,
         fired' = fired, sess' = [sess EXCEPT ![x] = Closed]
  PROVE  Inv'
  <1>1. /\ learned \in [Side -> SUBSET (Nat \X Nat)]
        /\ fired \in [Side -> SUBSET (Nat \X Nat)]
        /\ \A y \in Side : /\ \A p \in learned[y] : p[1] <= count[y] /\ p[1] # 0 /\ p[2] # 0
                          /\ \A p, q \in learned[y] : p[1] = q[1] => p = q
        /\ FiredLearned'
    BY DEF Inv, TypeOK, LearnedOnce, FiredLearned
  <1> QED BY <1>1, CloseSession

LEMMA SelfIsPositive ==
  ASSUME Inv, NEW x \in Side
  PROVE  /\ IsValid(sess[x]) => sess[x].self > 0 /\ sess[x].self = count[x]
         /\ sess[x] \in Session
  BY DEF Inv, TypeOK, Current, Closed, IsValid

\* The session after Learn().
LEMMA LearnType ==
  ASSUME Inv, NEW x \in Side, NEW cmd \in net[x], sess[x].status = "PROC",
         NEW s, s = Learn(sess[x], cmd), s.peer = cmd.selfID
  PROVE  /\ cmd \in Cmd /\ sess[x].self = count[x]
         /\ s \in Session /\ s.status = "PROC" /\ s.self = sess[x].self
         /\ s.self > 0 /\ s.complete = FALSE
         /\ s.peer \in Nat \ {0} /\ s.self \in Nat
         /\ sess[x].peer # 0 => s.peer = sess[x].peer
  <1>1. cmd \in Cmd /\ sess[x] \in Session /\ sess[x].self > 0 /\ sess[x].self = count[x]
    BY SelfIsPositive DEF Inv, TypeOK, IsValid
  <1>2. /\ s \in Session /\ s.status = "PROC" /\ s.self = sess[x].self
        /\ s.complete = sess[x].complete
        /\ s.peer \in Nat \ {0} /\ s.self \in Nat
        /\ sess[x].peer # 0 => s.peer = sess[x].peer
    BY <1>1 DEF Learn, Session, Cmd
  <1>3. s.complete = FALSE
    <2>1. sess[x].complete => IsReady(sess[x])
      BY DEF Inv, ReadyFired
    <2>2. sess[x].complete \in BOOLEAN /\ sess[x].status = "PROC"
      BY <1>1 DEF Session
    <2>3. sess[x].complete = FALSE
      BY <2>1, <2>2 DEF IsReady
    <2> QED BY <1>2, <2>3
  <1> QED BY <1>1, <1>2, <1>3

\* What side x has learned since its session is s.
LearnedBy(x, s) ==
  /\ \A p \in learned'[x] : /\ p[1] <= count[x] /\ p[1] # 0 /\ p[2] # 0
                            /\ p[1] = s.self => p[2] = s.peer
  /\ \A p, q \in learned'[x] : p[1] = q[1] => p = q

\* What Learns() leaves in learned.
LEMMA LearnFacts ==
  ASSUME Inv, NEW x \in Side, NEW cmd \in net[x], sess[x].status = "PROC",
         NEW s, s = Learn(sess[x], cmd), s.peer = cmd.selfID, Learns(x, cmd)
  PROVE  /\ learned' \in [Side -> SUBSET (Nat \X Nat)]
         /\ learned'[x] = learned[x] \cup {<<s.self, s.peer>>}
         /\ \A y \in Side \ {x} : learned'[y] = learned[y]
         /\ LearnedBy(x, s)
  <1>1. /\ cmd \in Cmd /\ sess[x].self = count[x]
        /\ s \in Session /\ s.self = sess[x].self
        /\ s.self > 0 /\ s.peer \in Nat \ {0} /\ s.self \in Nat
        /\ sess[x].peer # 0 => s.peer = sess[x].peer
    BY LearnType
  <1>4. learned' = [learned EXCEPT ![x] = @ \cup {<<s.self, s.peer>>}]
    BY <1>1 DEF Learns
  <1>5. /\ learned' \in [Side -> SUBSET (Nat \X Nat)]
        /\ learned'[x] = learned[x] \cup {<<s.self, s.peer>>}
        /\ \A y \in Side \ {x} : learned'[y] = learned[y]
    BY <1>1, <1>4 DEF Inv, TypeOK
  <1>6. \A p \in learned[x] : p[1] = s.self => p = <<s.self, s.peer>>
    <2> SUFFICES ASSUME NEW p \in learned[x], p[1] = s.self PROVE p = <<s.self, s.peer>>
      OBVIOUS
    <2>1. p \in Nat \X Nat /\ p[2] = sess[x].peer /\ p[2] # 0
      BY <1>1 DEF Inv, TypeOK, LearnedOnce
    <2> QED BY <2>1, <1>1
  <1>7. /\ \A p \in learned'[x] : /\ p[1] <= count[x] /\ p[1] # 0 /\ p[2] # 0
                                  /\ p[1] = s.self => p[2] = s.peer
        /\ \A p, q \in learned'[x] : p[1] = q[1] => p = q
    <2>1. /\ \A p \in learned[x] : p[1] <= count[x] /\ p[1] # 0 /\ p[2] # 0
          /\ \A p, q \in learned[x] : p[1] = q[1] => p = q
      BY DEF Inv, LearnedOnce
    <2>2. \A p \in learned'[x] : p \in learned[x] \/ p = <<s.self, s.peer>>
      BY <1>5
    <2>3. <<s.self, s.peer>>[1] = s.self /\ <<s.self, s.peer>>[2] = s.peer
      OBVIOUS
    <2>4. s.self <= count[x] /\ s.self # 0 /\ s.peer # 0
      BY <1>1 DEF Inv, TypeOK
    <2>5. \A p \in learned'[x] : /\ p[1] <= count[x] /\ p[1] # 0 /\ p[2] # 0
                                 /\ p[1] = s.self => p = <<s.self, s.peer>>
      BY <2>1, <2>2, <2>3, <2>4, <1>6
    <2> QED BY <2>1, <2>2, <2>3, <2>5
  <1>8. LearnedBy(x, s)
    BY <1>7 DEF LearnedBy
  <1> QED BY <1>5, <1>8

\* A datagram that names a peer was sent by a session which had stored it.
LEMMA CmdFacts ==
  ASSUME Inv, NEW x \in Side, NEW cmd \in net[x]
  PROVE  /\ cmd \in Cmd
         /\ cmd.peerID # 0 => <<cmd.selfID, cmd.peerID>> \in learned[Peer(x)]
         /\ cmd.complete => /\ cmd.peerID # 0
                            /\ <<cmd.selfID, cmd.peerID>> \in fired[Peer(x)]
  <1>1. Peer(x) \in Side /\ Peer(Peer(x)) = x
    BY PeerFacts
  <1> QED BY <1>1 DEF Inv, TypeOK, Truthful

LEMMA CheckInv ==
  ASSUME Inv, NEW x \in Side, Check(x)
  PROVE  Inv'
  <1>1. CASE TimedOut(sess[x])
    BY <1>1, CloseQuietly DEF Check
  <1>2. CASE ~TimedOut(sess[x])
    <2>1. DoHandShake(x, sess[x]) /\ count' = count /\ learned' = learned /\ fired' = fired
          /\ sess[x].self > 0 /\ sess[x] \in Session
      BY <1>2, SelfIsPositive DEF Check
    <2>2. /\ sess[x].peer # 0 => <<sess[x].self, sess[x].peer>> \in learned'[x]
          /\ IsReady(sess[x]) => /\ <<sess[x].self, sess[x].peer>> \in fired'[x]
                                 /\ <<sess[x].self, sess[x].peer>> \in learned[x]
      BY <2>1 DEF Inv, LearnedOnce, ReadyFired, FiredLearned
    <2>3. IsReady(sess[x]) => sess[x].peer # 0
      BY <2>2 DEF Inv, LearnedOnce
    <2> QED BY <2>1, <2>2, <2>3, DoHandShakeTruthful, SameSession DEF Inv
  <1> QED BY <1>1, <1>2

LEMMA ReceiveReadyInv ==
  ASSUME Inv, NEW x \in Side, NEW cmd \in net[x], ReceiveReady(x, cmd), count' = count
  PROVE  Inv'
  <1>1. CASE Refuses(sess[x], cmd)
    <2>1. /\ sess' = [sess EXCEPT ![x] = Closed] /\ net' = net
          /\ learned' = learned /\ fired' = fired
      BY <1>1 DEF ReceiveReady
    <2> QED BY <2>1, CloseQuietly
  <1>2. CASE ~Refuses(sess[x], cmd)
    <2> DEFINE s == [sess[x] EXCEPT !.complete = @ \/ cmd.complete]
    <2>1. /\ sess[x].self > 0 /\ sess[x] \in Session /\ cmd \in Cmd
          /\ sess[x].status = "SUCC"
          /\ DoHandShake(x, s) /\ learned' = learned /\ fired' = fired
      BY <1>2, SelfIsPositive, CmdFacts DEF ReceiveReady, IsReady, IsValid, Answer
    <2>2. /\ s \in Session /\ s.self = sess[x].self /\ s.peer = sess[x].peer
          /\ s.status = "SUCC" /\ s.complete = (sess[x].complete \/ cmd.complete)
      BY <2>1 DEF Session, Cmd
    <2> HIDE DEF s
    <2>3. /\ <<s.self, s.peer>> \in fired[x]
          /\ <<s.self, s.peer>> \in learned[x]
      BY <2>1, <2>2 DEF Inv, ReadyFired, FiredLearned, IsReady
    <2>4. s.peer # 0
      BY <2>3 DEF Inv, LearnedOnce
    <2>5. /\ Truthful'
          /\ net' \in [Side -> SUBSET Cmd] /\ sess' \in [Side -> Session]
          /\ \A y \in Side \ {x} : sess'[y] = sess[y]
          /\ sess'[x].status = "SUCC" /\ sess'[x].self = sess[x].self
          /\ sess'[x].peer = sess[x].peer
          /\ sess'[x].complete = (sess[x].complete \/ cmd.complete)
      BY <2>1, <2>2, <2>3, <2>4, DoHandShakeTruthful DEF Inv
    <2>6. sess'[x].complete => <<sess[x].peer, sess[x].self>> \in fired[Peer(x)]
      BY <1>2, <2>5, CmdFacts DEF Inv, CompleteIsMutual, Refuses
    <2>7. Current'
      BY <2>1, <2>5 DEF Inv, Current, IsValid, Closed
    <2>8. TypeOK' /\ LearnedOnce' /\ ReadyFired' /\ FiredLearned'
      BY <2>1, <2>5 DEF Inv, TypeOK, LearnedOnce, ReadyFired, FiredLearned, IsReady
    <2>9. CompleteIsMutual'
      BY <2>1, <2>5, <2>6, PeerFacts DEF Inv, CompleteIsMutual
    <2> QED BY <2>5, <2>7, <2>8, <2>9 DEF Inv
  <1> QED BY <1>1, <1>2

LEMMA SucceedInv ==
  ASSUME Inv, NEW x \in Side, NEW cmd \in net[x], Succeed(x, cmd), count' = count
  PROVE  Inv'
  <1> DEFINE s == Learn(sess[x], cmd)
  <1> DEFINE p == <<s.self, s.peer>>
  <1>1. /\ sess[x].status = "PROC" /\ s.peer = cmd.selfID /\ cmd.peerID = s.self
        /\ fired' = [fired EXCEPT ![x] = @ \cup {p}]
        /\ Learns(x, cmd) /\ net' = net
        /\ \/ sess' = [sess EXCEPT ![x] = Closed]
           \/ sess' = [sess EXCEPT ![x] = [s EXCEPT !.status = "SUCC"]]
    BY DEF Succeed
  <1>0. s = Learn(sess[x], cmd)
    OBVIOUS
  <1> HIDE DEF s
  <1>1a. sess[x].status = "PROC" /\ s.peer = cmd.selfID /\ Learns(x, cmd)
    BY <1>1
  <1>2a. /\ cmd \in Cmd
         /\ s \in Session /\ s.status = "PROC" /\ s.self = sess[x].self
         /\ s.self > 0 /\ s.complete = FALSE
    BY <1>0, <1>1a, LearnType
  <1>2b. /\ learned' \in [Side -> SUBSET (Nat \X Nat)]
         /\ learned'[x] = learned[x] \cup {p}
         /\ \A y \in Side \ {x} : learned'[y] = learned[y]
         /\ \A q \in learned'[x] : /\ q[1] <= count[x] /\ q[1] # 0 /\ q[2] # 0
                                   /\ q[1] = s.self => q[2] = s.peer
         /\ \A q, r \in learned'[x] : q[1] = r[1] => q = r
    BY <1>0, <1>1a, LearnFacts DEF LearnedBy
  <1>3. p \in Nat \X Nat
    BY <1>2a, <1>2b DEF Session
  <1>4. /\ fired' \in [Side -> SUBSET (Nat \X Nat)]
        /\ fired'[x] = fired[x] \cup {p}
        /\ \A y \in Side \ {x} : fired'[y] = fired[y]
    BY <1>1, <1>3 DEF Inv, TypeOK
  <1>5. <<p[2], p[1]>> \in learned[Peer(x)]
    BY <1>1, <1>2a, <1>2b, CmdFacts
  <1>6. FiredLearned'
    <2> SUFFICES ASSUME NEW y \in Side, NEW q \in fired'[y]
                 PROVE  <<q[2], q[1]>> \in learned'[Peer(y)] /\ q \in learned'[y]
      BY DEF FiredLearned
    <2>1. \A z \in Side : learned[z] \subseteq learned'[z]
      BY <1>2a, <1>2b
    <2>2. CASE q \in fired[y]
      BY <2>1, <2>2, PeerFacts DEF Inv, FiredLearned
    <2>3. CASE y = x /\ q = p
      BY <2>1, <2>3, <1>2a, <1>2b, <1>5, PeerFacts
    <2> QED BY <1>4, <2>2, <2>3
  <1>7. \A y \in Side : /\ learned[y] \subseteq learned'[y] /\ fired[y] \subseteq fired'[y]
                        /\ \A q \in learned'[y] : q[1] <= count[y] /\ q[1] # 0 /\ q[2] # 0
                        /\ \A q, r \in learned'[y] : q[1] = r[1] => q = r
    BY <1>2a, <1>2b, <1>4 DEF Inv, LearnedOnce
  <1>8. CASE sess' = [sess EXCEPT ![x] = Closed]
    BY <1>1, <1>2a, <1>2b, <1>4, <1>6, <1>7, <1>8, CloseSession
  <1>9. CASE sess' = [sess EXCEPT ![x] = [s EXCEPT !.status = "SUCC"]]
    <2>1. /\ sess' \in [Side -> Session]
          /\ \A y \in Side \ {x} : sess'[y] = sess[y]
          /\ sess'[x].status = "SUCC" /\ sess'[x].self = s.self
          /\ sess'[x].peer = s.peer /\ sess'[x].complete = FALSE
      <3>1. [s EXCEPT !.status = "SUCC"] \in Session
        BY <1>2a, <1>2b DEF Session
      <3>2. sess'[x] = [s EXCEPT !.status = "SUCC"]
        BY <1>9 DEF Inv, TypeOK
      <3> QED BY <1>2a, <1>2b, <1>9, <3>1, <3>2 DEF Inv, TypeOK, Session
    <2>2. TypeOK'
      BY <1>1, <1>2a, <1>2b, <1>4, <2>1 DEF Inv, TypeOK
    <2>3. Current'
      BY <1>2a, <1>2b, <2>1, SelfIsPositive DEF Inv, Current, IsValid, Closed
    <2>4. LearnedOnce'
      <3>1. p \in learned'[x]
        BY <1>2a, <1>2b
      <3> QED BY <1>2a, <1>2b, <1>7, <2>1, <3>1 DEF Inv, LearnedOnce
    <2>5. ReadyFired'
      BY <1>4, <2>1 DEF Inv, ReadyFired, IsReady
    <2>6. Truthful'
      BY <1>1, <1>7, PeerFacts DEF Inv, Truthful
    <2>7. CompleteIsMutual'
      BY <1>7, <2>1, PeerFacts DEF Inv, CompleteIsMutual
    <2> QED BY <1>6, <2>2, <2>3, <2>4, <2>5, <2>6, <2>7 DEF Inv
  <1> QED BY <1>1, <1>8, <1>9

\* A session that was not ready stores its peer and answers.
LEMMA IntroduceInv ==
  ASSUME Inv, NEW x \in Side, NEW cmd \in net[x], Introduce(x, cmd), count' = count
  PROVE  Inv'
  <1> DEFINE l == Learn(sess[x], cmd)
  <1> DEFINE s == [l EXCEPT !.complete = @ \/ cmd.complete]
  <1>0. l = Learn(sess[x], cmd)
    OBVIOUS
  <1>1. /\ sess[x].status = "PROC" /\ l.peer = cmd.selfID /\ cmd.peerID = 0
        /\ DoHandShake(x, s) /\ Learns(x, cmd) /\ fired' = fired
    BY DEF Introduce, Answer
  <1> HIDE DEF l
  <1>1a. sess[x].status = "PROC" /\ l.peer = cmd.selfID /\ Learns(x, cmd)
    BY <1>1
  <1>2. /\ cmd \in Cmd
        /\ l \in Session /\ l.status = "PROC" /\ l.self = sess[x].self
        /\ l.self > 0 /\ l.complete = FALSE /\ sess[x].self = count[x]
    BY <1>0, <1>1a, LearnType
  <1>3. cmd.complete = FALSE
    BY <1>1, <1>2, CmdFacts DEF Cmd
  <1>4. /\ s \in Session /\ s.status = "PROC" /\ s.self = sess[x].self
        /\ s.self > 0 /\ s.complete = FALSE /\ s.peer = l.peer /\ s.self = l.self
    BY <1>2, <1>3 DEF Session
  <1>5. /\ learned' \in [Side -> SUBSET (Nat \X Nat)]
        /\ learned'[x] = learned[x] \cup {<<s.self, s.peer>>}
        /\ \A y \in Side \ {x} : learned'[y] = learned[y]
        /\ \A q \in learned'[x] : /\ q[1] <= count[x] /\ q[1] # 0 /\ q[2] # 0
                                  /\ q[1] = s.self => q[2] = s.peer
        /\ \A q, r \in learned'[x] : q[1] = r[1] => q = r
    BY <1>0, <1>1a, <1>4, LearnFacts DEF LearnedBy
  <1> HIDE DEF s
  <1>6. \A y \in Side : /\ learned[y] \subseteq learned'[y] /\ fired[y] \subseteq fired'[y]
                        /\ \A q \in learned'[y] : q[1] <= count[y] /\ q[1] # 0 /\ q[2] # 0
                        /\ \A q, r \in learned'[y] : q[1] = r[1] => q = r
    BY <1>1, <1>5 DEF Inv, LearnedOnce
  <1>7. <<s.self, s.peer>> \in learned'[x] /\ ~IsReady(s)
    BY <1>4, <1>5 DEF IsReady
  <1>8. /\ Truthful'
        /\ net' \in [Side -> SUBSET Cmd] /\ sess' \in [Side -> Session]
        /\ \A y \in Side \ {x} : sess'[y] = sess[y]
        /\ sess'[x].status = "PROC" /\ sess'[x].self = s.self
        /\ sess'[x].peer = s.peer /\ sess'[x].complete = FALSE
    BY <1>1, <1>4, <1>6, <1>7, DoHandShakeTruthful DEF Inv
  <1>9. TypeOK'
    BY <1>1, <1>5, <1>8 DEF Inv, TypeOK
  <1>10. Current'
    BY <1>2, <1>4, <1>8 DEF Inv, Current, IsValid, Closed
  <1>11. LearnedOnce'
    BY <1>5, <1>6, <1>7, <1>8 DEF Inv, LearnedOnce
  <1>12. ReadyFired'
    BY <1>1, <1>8 DEF Inv, ReadyFired, IsReady
  <1>13. FiredLearned' /\ CompleteIsMutual'
    BY <1>1, <1>6, <1>8, PeerFacts DEF Inv, FiredLearned, CompleteIsMutual
  <1> QED BY <1>8, <1>9, <1>10, <1>11, <1>12, <1>13 DEF Inv

LEMMA ForeignInv ==
  ASSUME Inv, NEW x \in Side, NEW cmd \in net[x], Foreign(x, cmd), count' = count
  PROVE  Inv'
  <1> DEFINE s == Learn(sess[x], cmd)
  <1>0. s = Learn(sess[x], cmd)
    OBVIOUS
  <1>1. /\ sess[x].status = "PROC" /\ sess' = [sess EXCEPT ![x] = Closed]
        /\ IF s.peer = cmd.selfID THEN Learns(x, cmd) ELSE learned' = learned
        /\ net' = net /\ fired' = fired
    BY DEF Foreign
  <1> HIDE DEF s
  <1>2. CASE s.peer # cmd.selfID
    BY <1>1, <1>2, CloseQuietly
  <1>3. CASE s.peer = cmd.selfID
    <2>0. sess[x].status = "PROC" /\ Learns(x, cmd)
      BY <1>1, <1>3
    <2>1. /\ learned' \in [Side -> SUBSET (Nat \X Nat)]
          /\ learned'[x] = learned[x] \cup {<<s.self, s.peer>>}
          /\ \A y \in Side \ {x} : learned'[y] = learned[y]
          /\ \A q \in learned'[x] : q[1] <= count[x] /\ q[1] # 0 /\ q[2] # 0
          /\ \A q, r \in learned'[x] : q[1] = r[1] => q = r
      BY <1>0, <1>3, <2>0, LearnFacts DEF LearnedBy
    <2>2. \A y \in Side : /\ learned[y] \subseteq learned'[y]
                          /\ \A q \in learned'[y] : q[1] <= count[y] /\ q[1] # 0 /\ q[2] # 0
                          /\ \A q, r \in learned'[y] : q[1] = r[1] => q = r
      BY <2>1 DEF Inv, LearnedOnce
    <2>3. FiredLearned'
      BY <1>1, <2>2, PeerFacts DEF Inv, FiredLearned
    <2>4. fired' \in [Side -> SUBSET (Nat \X Nat)]
      BY <1>1 DEF Inv, TypeOK
    <2> QED BY <1>1, <2>1, <2>2, <2>3, <2>4, CloseSession
  <1> QED BY <1>2, <1>3

LEMMA ReceiveInv ==
  ASSUME Inv, NEW x \in Side, NEW cmd \in net[x], ReceiveHandShake(x, cmd)
  PROVE  Inv'
  BY ReceiveReadyInv, SucceedInv, IntroduceInv, ForeignInv DEF ReceiveHandShake

LEMMA LoseInv ==
  ASSUME Inv, NEW x \in Side, NEW cmd \in net[x], Lose(x, cmd)
  PROVE  Inv'
  <1>1. /\ \A y \in Side : net'[y] \subseteq net[y]
        /\ net' \in [Side -> SUBSET Cmd]
        /\ sess' = sess /\ count' = count /\ learned' = learned /\ fired' = fired
    BY DEF Lose, Inv, TypeOK
  <1>2. TypeOK' /\ Current' /\ LearnedOnce' /\ ReadyFired' /\ FiredLearned' /\ CompleteIsMutual'
    BY <1>1 DEF Inv, TypeOK, Current, LearnedOnce, ReadyFired, FiredLearned, CompleteIsMutual
  <1>3. Truthful'
    BY <1>1, PeerFacts DEF Inv, Truthful
  <1> QED BY <1>2, <1>3 DEF Inv

\* The clock of a session says nothing of its peer.
LEMMA ClockInv ==
  ASSUME Inv, NEW x \in Side, Due(x) \/ Age(x)
  PROVE  Inv'
  <1>1. sess[x] \in Session /\ sess[x].self > 0
    BY SelfIsPositive DEF Due, Age
  <1>2. PICK s \in Session : /\ sess' = [sess EXCEPT ![x] = s]
                             /\ s.status = sess[x].status /\ s.self = sess[x].self
                             /\ s.peer = sess[x].peer /\ s.complete = sess[x].complete
    <2>1. CASE Due(x)
      <3>1. [sess[x] EXCEPT !.due = TRUE] \in Session
        BY <1>1 DEF Session
      <3> QED BY <2>1, <3>1, <1>1 DEF Due, Session
    <2>2. CASE Age(x)
      <3>1. [sess[x] EXCEPT !.age = @ + 1] \in Session
        BY <2>2, <1>1 DEF Session, Age
      <3> QED BY <2>2, <3>1, <1>1 DEF Age, Session
    <2> QED BY <2>1, <2>2
  <1>3. /\ sess' \in [Side -> Session] /\ sess'[x] = s
        /\ \A y \in Side \ {x} : sess'[y] = sess[y]
    BY <1>2 DEF Inv, TypeOK
  <1>4. /\ net' = net /\ count' = count /\ learned' = learned /\ fired' = fired
        /\ net' \in [Side -> SUBSET Cmd] /\ Truthful'
    BY DEF Due, Age, Inv, TypeOK, Truthful
  <1> QED BY <1>1, <1>2, <1>3, <1>4, SameSession

LEMMA NextInv == Inv /\ [Next]_vars => Inv'
  <1> SUFFICES ASSUME Inv, [Next]_vars PROVE Inv'
    OBVIOUS
  <1>1. CASE UNCHANGED vars
    BY <1>1 DEF vars, Inv, TypeOK, Current, LearnedOnce, ReadyFired, Truthful,
      FiredLearned, CompleteIsMutual
  <1>2. ASSUME NEW x \in Side, Close(x) PROVE Inv'
    BY <1>2, CloseQuietly DEF Close
  <1> QED BY <1>1, <1>2, RenewInv, CheckInv, ClockInv, ReceiveInv, LoseInv DEF Next

-----------------------------------------------------------------------------
(* The theorems.                                                           *)

\* The claims above hold in every state of every behaviour of the two sides.
THEOREM ArqInvariance == Spec => []Inv
  BY InitInv, NextInv, PTL DEF Spec

\* Every session, datagram and history keeps its type.
THEOREM ArqTypeOK == Spec => []TypeOK
  <1>1. Inv => TypeOK
    BY DEF Inv
  <1> QED BY <1>1, ArqInvariance, PTL

\* OnHandShake is fired only for a conversation the peer's session has stored,
\* for any number of sessions, losses, duplicates and late datagrams.
THEOREM ArqAgreement == Spec => []Agreement
  <1>1. Inv => Agreement
    <2> SUFFICES ASSUME Inv, NEW x \in Side
                 PROVE  /\ \A p \in fired[x] : <<p[2], p[1]>> \in learned[Peer(x)]
                        /\ IsReady(sess[x]) /\ sess[Peer(x)].self = sess[x].peer
                             => sess[Peer(x)].peer = sess[x].self
      BY DEF Agreement
    <2>1. \A p \in fired[x] : <<p[2], p[1]>> \in learned[Peer(x)]
      BY DEF Inv, FiredLearned
    <2>2. ASSUME IsReady(sess[x]), sess[Peer(x)].self = sess[x].peer
          PROVE  sess[Peer(x)].peer = sess[x].self
      <3>1. <<sess[x].self, sess[x].peer>> \in fired[x]
        BY <2>2 DEF Inv, ReadyFired
      <3>2. <<sess[x].peer, sess[x].self>> \in learned[Peer(x)]
        BY <2>1, <3>1
      <3> QED BY <2>2, <3>2, PeerFacts DEF Inv, LearnedOnce
    <2> QED BY <2>1, <2>2
  <1> QED BY <1>1, ArqInvariance, PTL

\* A session that counts its handshake as complete has a peer that was told
\* of it, so ending the retransmission loses nothing.
THEOREM ArqCompleteIsMutual == Spec => []CompleteIsMutual
  <1>1. Inv => CompleteIsMutual
    BY DEF Inv
  <1> QED BY <1>1, ArqInvariance, PTL

-----------------------------------------------------------------------------
(* CTcpClient, CUdpClient, CUdpCast.  1. Types.                            *)
ClientPc == {"idle", "prepare", "connect", "on_connect", "thread", "failed", "stop",
             "wait_worker", "join", "close", "reset", "signal", "resume"}
Going == {"loop", "poll", "next", "again", "connect", "on_connect", "read", "read_net",
          "write", "write_net", "send", "send_net", "back", "back_net", "hup"}
WorkerPc == Going \cup {"idle", "exit", "stop", "wait_worker", "close", "reset"}
Packet == [n : Nat, zero : BOOLEAN]
ClientTh == [pc : ClientPc \cup WorkerPc, async : BOOLEAN,
             todo : Seq({"net", "send", "recv", "stop"}),
             rev : SUBSET {"in", "out", "hup", "err"}, item : Packet, call : BOOLEAN]
ClientSock == [st : {"closed", "new", "connecting", "open", "hung", "refused"},
               in : Seq({"data", "zero", "notify"}), full : BOOLEAN]
Notices == {"connect", "connected", "refused", "receive", "send", "close"}
ClientTypes ==
  /\ state \in {"STOPPED", "STARTING", "STARTED", "STOPPING"}
  /\ connected \in BOOLEAN /\ paused \in BOOLEAN /\ running \in BOOLEAN
  /\ lsSend \in Seq(Packet) /\ packets \in Seq(Nat) /\ wire \in Seq(Nat)
  /\ ev \subseteq {"send", "recv", "stop"} /\ armed \subseteq {"in", "out"}
  /\ ctx \in [fire : BOOLEAN, notify : BOOLEAN]
  /\ fails \in 0 .. Attempts + 1
  /\ sock \in ClientSock
  /\ th \in [C!Threads -> ClientTh]
  /\ th[W].pc \in WorkerPc /\ \A a \in Callers : th[a].pc \in ClientPc
  /\ budget \in [C!Events -> Nat] /\ budget["early"] = 0
  /\ events \in Seq(Notices)

(* 2. One thread at a time starts or stops.                                *)
Ending(t) == th[t].pc \in {"wait_worker", "join", "close", "reset"}
Busy(t)   == Ending(t) \/ (t \in Callers /\ C!Starting(t))
Present   == state # "STOPPED" /\ \A t \in C!Threads : th[t].pc # "reset"
ClientCalm ==
  /\ \A t, u \in C!Threads : Busy(t) /\ Busy(u) => t = u
  /\ state = "STOPPED" =>
       /\ \A t \in C!Threads : ~Busy(t)
       /\ th[W].pc = "idle" /\ ~running /\ ~connected /\ lsSend = <<>>
  /\ state # "STOPPED" /\ (\A t \in C!Threads : ~Busy(t)) =>
       state # "STOPPING" /\ th[W].pc # "idle" /\ (connected <=> state = "STARTED")
  /\ Present /\ ~connected => lsSend = <<>> /\ packets = <<>>

(* 3. The thread that starts or stops, and the worker beside it.           *)
ClientStart(a) ==
  /\ C!Starting(a) =>
       /\ C!HasStarted /\ (connected <=> state = "STARTED")
       /\ th[W].pc = "idle" /\ ~running /\ wire = <<>>
  /\ th[a].pc \in {"prepare", "connect"} => ~connected
  /\ th[a].pc = "on_connect" => connected
  /\ th[a].pc = "stop" => ~ctx.fire
ClientStop(t) ==
  /\ Ending(t) => state = "STOPPING"
  /\ th[t].pc \in {"wait_worker", "join"} /\ t # W =>
       th[W].pc = "idle" \/ (running /\ connected)
  /\ th[t].pc = "join" => running
  /\ th[t].pc \in {"close", "reset"} => ~running /\ (t # W => th[W].pc = "idle")
  /\ th[t].pc = "reset" => ~connected
Told == \E a \in Callers : th[a].pc \in {"join", "close", "reset"}
ClientWorker ==
  /\ th[W].pc \notin {"idle", "close", "reset"} => running
  /\ th[W].pc = "idle" => th[W].todo = <<>> /\ th[W].call
  /\ ~Told => "stop" \notin ev /\ th[W].call /\ th[W].todo \in Seq({"net", "send", "recv"})

(* 4. What was heard: OnConnect, that it was accepted and then data, that  *)
(* it was refused, and the end.                                            *)
Opening(h) == Len(h) = 1 /\ h[1] = "connect"
Refused(h) == Len(h) = 2 /\ h[1] = "connect" /\ h[2] = "refused"
Flows(h, n) == /\ n >= 2 /\ h[1] = "connect" /\ h[2] = "connected"
               /\ \A i \in 3 .. n : h[i] \in {"receive", "send"}
Lives(h)  == Flows(h, Len(h))
Ended(h)  == /\ Len(h) > 0 /\ h[Len(h)] = "close"
             /\ Len(h) = 1 \/ Flows(h, Len(h) - 1)
ClientHeard ==
  IF Present
  THEN IF ~connected THEN events = <<>>
       ELSE IF th[W].pc = "on_connect" \/ \E a \in Callers : th[a].pc = "on_connect"
       THEN Opening(events)
       ELSE Lives(events) \/ /\ Refused(events) /\ th[W].pc \notin Going
                             /\ \A a \in Callers : th[a].pc # "thread"
                             /\ ~ctx.fire \/ \E a \in Callers : th[a].pc = "failed"
  ELSE events = <<>> \/ Refused(events) \/ Lives(events) \/ Ended(events)

(* 5. What was asked for.                                                  *)
ClientArmed ==
  connected /\ (th[W].pc \in {"loop", "poll"} \/ \E a \in Callers : th[a].pc = "thread") =>
    /\ lsSend # <<>> => "out" \in armed \/ "send" \in ev
                        \/ \E a \in Callers : th[a].pc = "signal"
    /\ ~paused => "in" \in armed \/ "recv" \in ev \/ \E a \in Callers : th[a].pc = "resume"

(* 6. Nothing is read or written before OnConnect.                         *)
ClientNet ==
  /\ th[W].pc \in {"on_connect", "read_net", "write_net", "send", "send_net", "back",
                   "back_net", "hup"} => connected
  /\ \/ /\ budget["async"] = 0
        /\ \A a \in Callers : /\ C!Starting(a) => ~th[a].async
                              /\ th[a].pc = "thread" => connected
        /\ th[W].pc \notin {"idle", "reset"} => connected
     \/ /\ budget["pause"] = 0 /\ "recv" \notin ev /\ th[W].pc # "read"
        /\ \A a \in Callers : th[a].pc # "resume"
        /\ th[W].todo \in Seq({"net", "send", "stop"})

(* 7. What was sent is on the wire, in the worker's hands or in the list.  *)
Held == IF th[W].pc \in {"send", "send_net", "back", "back_net"} THEN 1 ELSE 0
ClientOrder ==
  /\ \A n \in DOMAIN packets : packets[n] = n
  /\ \A n \in DOMAIN wire : \/ wire[n] = n /\ n <= Len(packets)
                            \/ ~Present /\ wire[n] = 0 /\ n = Len(wire)
  /\ Held = 0 /\ th[W].pc # "exit" => th[W].item = C!NoPacket
  /\ th[W].pc \in Going \/ (\E a \in Callers : C!Starting(a)) =>
       /\ Len(wire) + Held + Len(lsSend) = Len(packets)
       /\ Held = 1 => th[W].item.n = Len(wire) + 1
       /\ \A n \in DOMAIN lsSend : lsSend[n].n = Len(wire) + Held + n

(* 8. What the detection counts.                                           *)
ClientFails ==
  state = "STOPPED" \/ th[W].pc \in Going \/ (\E a \in Callers : C!Starting(a))
    => fails <= Attempts

ClientInv == /\ ClientTypes /\ ClientCalm
             /\ \A a \in Callers : ClientStart(a)
             /\ \A t \in C!Threads : ClientStop(t)
             /\ ClientWorker /\ ClientHeard /\ ClientArmed /\ ClientNet /\ ClientOrder
             /\ ClientFails

\* What Append() makes of what was heard.
LEMMA Hears ==
  ASSUME NEW h \in Seq(Notices)
  PROVE  /\ \A e \in Notices : Append(h, e) \in Seq(Notices)
         /\ h = <<>> => Opening(Append(h, "connect")) /\ Ended(Append(h, "close"))
         /\ Opening(h) => Lives(Append(h, "connected")) /\ Refused(Append(h, "refused"))
         /\ Lives(h) => /\ Ended(Append(h, "close"))
                        /\ \A e \in {"receive", "send"} : Lives(Append(h, e))
<1>1. \A e \in Notices : /\ Append(h, e) \in Seq(Notices) /\ Len(Append(h, e)) = Len(h) + 1
                             /\ Append(h, e)[Len(h) + 1] = e
                             /\ \A n \in 1 .. Len(h) : Append(h, e)[n] = h[n]
  BY AppendProperties
<1>2. Len(h) \in Nat
  OBVIOUS
<1>3. h = <<>> => Opening(Append(h, "connect")) /\ Ended(Append(h, "close"))
  BY <1>1, <1>2 DEF Opening, Ended, Notices
<1>4. Opening(h) => Lives(Append(h, "connected")) /\ Refused(Append(h, "refused"))
  BY <1>1, <1>2 DEF Opening, Refused, Lives, Flows, Notices
<1>5. ASSUME Lives(h)
      PROVE  /\ Ended(Append(h, "close"))
             /\ \A e \in {"receive", "send"} : Lives(Append(h, e))
  BY <1>1, <1>2, <1>5 DEF Ended, Lives, Flows, Notices
<1> QED BY <1>1, <1>3, <1>4, <1>5

LEMMA ClientNames == C!Threads = Callers \cup {W} /\ W \notin Callers
  BY ClientAssumption DEF C!Threads

LEMMA ClientFields ==
  ASSUME ClientTypes
  PROVE  /\ \A t \in C!Threads :
              /\ th[t] \in ClientTh /\ th[t].pc \in ClientPc \cup WorkerPc
              /\ th[t].async \in BOOLEAN /\ th[t].call \in BOOLEAN
              /\ th[t].todo \in Seq({"net", "send", "recv", "stop"})
              /\ th[t].rev \subseteq {"in", "out", "hup", "err"}
              /\ th[t].item \in Packet /\ th[t].item.n \in Nat /\ th[t].item.zero \in BOOLEAN
         /\ th[W].pc \in WorkerPc /\ \A a \in Callers : th[a].pc \in ClientPc
         /\ ctx.fire \in BOOLEAN /\ ctx.notify \in BOOLEAN
         /\ sock.st \in {"closed", "new", "connecting", "open", "hung", "refused"}
         /\ sock.in \in Seq({"data", "zero", "notify"}) /\ sock.full \in BOOLEAN
  BY DEF ClientTypes, ClientTh, ClientSock, Packet

LEMMA ClientContext ==
  \A x, y \in BOOLEAN : [fire |-> x, notify |-> y] \in [fire : BOOLEAN, notify : BOOLEAN]
  OBVIOUS

LEMMA ClientSpends ==
  ASSUME ClientTypes, NEW e \in C!Events, C!Spend(e)
  PROVE  /\ budget' \in [C!Events -> Nat] /\ e # "early"
         /\ \A d \in C!Events : budget[d] = 0 => budget'[d] = 0
<1>1. budget \in [C!Events -> Nat] /\ budget["early"] = 0 /\ budget[e] \in Nat
  BY DEF ClientTypes
<1>2. budget[e] > 0 /\ budget' = [budget EXCEPT ![e] = budget[e] - 1]
  BY DEF C!Spend
<1>3. budget[e] - 1 \in Nat
  BY <1>1, <1>2
<1>4. \A d \in C!Events : budget[d] = 0 => budget'[d] = 0
  BY <1>1, <1>2
<1> QED BY <1>1, <1>2, <1>3, <1>4

\* The ways a thread goes on.
LEMMA ClientPuts ==
  ASSUME ClientTypes, NEW t \in C!Threads, NEW k \in ClientTh, th' = [th EXCEPT ![t] = k],
         t = W => k.pc \in WorkerPc, t \in Callers => k.pc \in ClientPc
  PROVE  /\ th' \in [C!Threads -> ClientTh] /\ th'[t] = k
         /\ \A u \in C!Threads : u # t => th'[u] = th[u]
         /\ th'[W].pc \in WorkerPc /\ \A a \in Callers : th'[a].pc \in ClientPc
  BY ClientNames DEF ClientTypes

LEMMA ClientGoes ==
  ASSUME ClientTypes, NEW t \in C!Threads, NEW p, C!Goto(t, p),
         t = W => p \in WorkerPc, t \in Callers => p \in ClientPc
  PROVE  /\ th' \in [C!Threads -> ClientTh]
         /\ th'[t].pc = p /\ th'[t].async = th[t].async /\ th'[t].todo = th[t].todo
         /\ th'[t].rev = th[t].rev /\ th'[t].item = th[t].item /\ th'[t].call = th[t].call
         /\ \A u \in C!Threads : u # t => th'[u] = th[u]
         /\ th'[W].pc \in WorkerPc /\ \A a \in Callers : th'[a].pc \in ClientPc
<1> DEFINE k == [th[t] EXCEPT !.pc = p]
<1>1. th[t] \in ClientTh /\ th \in [C!Threads -> ClientTh] /\ p \in ClientPc \cup WorkerPc
  BY ClientNames DEF ClientTypes
<1>2. /\ k \in ClientTh /\ k.pc = p /\ k.async = th[t].async /\ k.todo = th[t].todo
      /\ k.rev = th[t].rev /\ k.item = th[t].item /\ k.call = th[t].call
  BY <1>1 DEF ClientTh
<1>3. th' = [th EXCEPT ![t] = k]
  BY DEF C!Goto
<1> HIDE DEF k
<1> QED BY <1>2, <1>3, ClientPuts

LEMMA ClientRests ==
  C!Idle \in ClientTh /\ C!Idle.pc = "idle" /\ C!Idle.todo = <<>> /\ C!Idle.call
    /\ C!Idle.item = C!NoPacket /\ C!NoPacket \in Packet /\ ~C!Idle.async
  BY DEF C!Idle, ClientTh, Packet, C!NoPacket, ClientPc

\* A step of the worker in its loop: nobody starts then, and who stops waits for it.
LEMMA ClientTurns ==
  ASSUME ClientInv, UNCHANGED <<state, connected, running, packets>>,
         th[W].pc \in Going, th'[W].pc \in Going \cup {"exit"},
         \A a \in Callers : th'[a] = th[a], lsSend = <<>> => lsSend' = <<>>
  PROVE  /\ ClientCalm' /\ \A a \in Callers : ClientStart(a)'
         /\ (Present' <=> Present) /\ \A t \in C!Threads : ClientStop(t)'
         /\ \A a \in Callers : ~C!Starting(a) /\ (C!Starting(a)' <=> C!Starting(a))
         /\ state # "STOPPED"
<1>1. \A t \in C!Threads : (Busy(t)' <=> Busy(t)) /\ (Ending(t)' <=> Ending(t))
  BY ClientNames DEF Busy, Ending, C!Starting, Going
<1>2. \A a \in Callers : ~C!Starting(a) /\ (C!Starting(a)' <=> C!Starting(a))
  BY DEF ClientInv, ClientStart, Going, C!Starting
<1>3. \A t \in C!Threads : th'[t].pc = "reset" <=> th[t].pc = "reset"
  BY ClientNames DEF Going
<1>4. Present' <=> Present
  BY <1>3 DEF Present
<1>5. ClientCalm'
  BY <1>1, <1>4, ClientNames DEF ClientInv, ClientCalm, Going
<1>6. ASSUME NEW a \in Callers PROVE ClientStart(a)'
  BY <1>2, <1>6 DEF ClientInv, ClientStart, C!Starting
<1>7. ASSUME NEW t \in C!Threads PROVE ClientStop(t)'
  <2>1. CASE t = W
    BY <2>1, ClientNames DEF ClientInv, ClientStop, Going, Ending
  <2>2. CASE t \in Callers
    BY <2>2, ClientNames DEF ClientInv, ClientStop, Going, Ending
  <2> QED BY <2>1, <2>2, ClientNames
<1>8. state # "STOPPED"
  BY DEF ClientInv, ClientCalm, Going
<1> QED BY <1>2, <1>4, <1>5, <1>6, <1>7, <1>8

\* A step of a caller that neither starts nor stops.
LEMMA ClientAside ==
  ASSUME ClientInv, NEW a \in Callers, th'[W] = th[W],
         \A u \in Callers : u # a => th'[u] = th[u],
         th[a].pc \in {"idle", "signal", "resume"}, th'[a].pc \in {"idle", "signal", "resume"},
         UNCHANGED <<state, connected, running, ctx, events, wire, fails>>,
         "stop" \in ev' <=> "stop" \in ev,
         connected \/ UNCHANGED <<lsSend, packets>>
  PROVE  /\ ClientCalm' /\ \A u \in Callers : ClientStart(u)'
         /\ ClientWorker' /\ \A t \in C!Threads : ClientStop(t)'
         /\ ClientHeard' /\ ClientFails' /\ (Present' <=> Present)
         /\ \A u \in Callers : (C!Starting(u)' <=> C!Starting(u))
<1>1. \A t \in C!Threads : (Busy(t)' <=> Busy(t)) /\ (Ending(t)' <=> Ending(t))
  BY ClientNames DEF Busy, Ending, C!Starting
<1>2. \A u \in Callers : (C!Starting(u)' <=> C!Starting(u)) /\ (u # a => th'[u] = th[u])
  BY DEF C!Starting
<1>3. \A t \in C!Threads : th'[t].pc = "reset" <=> th[t].pc = "reset"
  BY ClientNames
<1>4. Present' <=> Present
  BY <1>3 DEF Present
<1>5. ClientCalm'
  <2>1. \A t, u \in C!Threads : Busy(t)' /\ Busy(u)' => t = u
    BY <1>1 DEF ClientInv, ClientCalm
  <2>2. state = "STOPPED" => ~connected
    BY DEF ClientInv, ClientCalm
  <2> QED BY <1>1, <1>4, <2>1, <2>2 DEF ClientInv, ClientCalm
<1>6. ASSUME NEW u \in Callers PROVE ClientStart(u)'
  BY <1>2, <1>6 DEF ClientInv, ClientStart, C!Starting, C!HasStarted
<1>7. ASSUME NEW t \in C!Threads PROVE ClientStop(t)'
  <2>1. CASE t = W
    BY <2>1, ClientNames DEF ClientInv, ClientStop, Ending
  <2>2. CASE t \in Callers
    BY <2>2, ClientNames DEF ClientInv, ClientStop, Ending
  <2> QED BY <2>1, <2>2, ClientNames
<1>8. ClientWorker'
  BY DEF ClientInv, ClientWorker, Told
<1>9. ClientHeard'
  BY <1>4 DEF ClientInv, ClientHeard
<1>10. ClientFails'
  BY <1>2 DEF ClientInv, ClientFails
<1> QED BY <1>2, <1>4, <1>5, <1>6, <1>7, <1>8, <1>9, <1>10

\* A step of the peer or the network.
LEMMA ClientOutside ==
  ASSUME ClientInv, UNCHANGED <<state, C!conn, th, C!hist>>, sock' \in ClientSock,
         budget' = budget \/ \E e \in C!Events : C!Spend(e)
  PROVE  ClientInv'
<1>1. ClientTypes
  BY DEF ClientInv
<1>2. budget' \in [C!Events -> Nat] /\ \A d \in C!Events : budget[d] = 0 => budget'[d] = 0
  BY <1>1, ClientSpends DEF ClientTypes
<1>3. {"early", "async", "pause"} \subseteq C!Events
  BY DEF C!Events
<1>4. ClientTypes'
  BY <1>1, <1>2, <1>3 DEF ClientTypes, C!conn, C!hist
<1>5. ClientCalm' /\ ClientWorker' /\ ClientHeard' /\ ClientArmed' /\ ClientOrder' /\ ClientFails'
  BY DEF ClientInv, ClientCalm, ClientWorker, ClientHeard, ClientArmed, ClientOrder, ClientFails,
         Busy, Ending, Present, Told, Held, C!Starting, C!conn, C!hist
<1>6. (\A a \in Callers : ClientStart(a)') /\ (\A t \in C!Threads : ClientStop(t)')
  BY DEF ClientInv, ClientStart, ClientStop, Ending, C!Starting, C!HasStarted, C!conn, C!hist
<1>7. ClientNet'
  BY <1>2, <1>3 DEF ClientInv, ClientNet, C!Starting, C!conn, C!hist
<1> QED BY <1>4, <1>5, <1>6, <1>7 DEF ClientInv

LEMMA ClientNetwork ==
  ASSUME ClientInv,
         C!Connected \/ C!PeerEnds \/ C!PeerReads
           \/ \E d \in {"data", "zero", "notify"} : C!PeerSends(d)
  PROVE  ClientInv'
<1>1. sock \in ClientSock
  BY DEF ClientInv, ClientTypes
<1>2. {"error", "eof", "data", "zero", "notify"} \subseteq C!Events
  BY DEF C!Events
<1>3. CASE C!Connected
  BY <1>1, <1>2, <1>3, ClientOutside DEF C!Connected, ClientSock
<1>4. CASE C!PeerEnds
  BY <1>1, <1>2, <1>4, ClientOutside DEF C!PeerEnds, ClientSock
<1>5. CASE C!PeerReads
  BY <1>1, <1>5, ClientOutside DEF C!PeerReads, ClientSock
<1>6. ASSUME NEW d \in {"data", "zero", "notify"}, C!PeerSends(d)
      PROVE  ClientInv'
  <2>1. Append(sock.in, d) \in Seq({"data", "zero", "notify"})
    BY <1>1 DEF ClientSock
  <2>2. sock' = [sock EXCEPT !.in = Append(sock.in, d)]
    BY <1>6 DEF C!PeerSends
  <2>3. sock' \in ClientSock
    BY <1>1, <2>1, <2>2 DEF ClientSock
  <2> QED BY <1>2, <1>6, <2>3, ClientOutside DEF C!PeerSends
<1> QED BY <1>3, <1>4, <1>5, <1>6

-----------------------------------------------------------------------------
(* The callers.                                                            *)

\* A packet more in the list and in the count of what was accepted.
LEMMA ClientAccepts ==
  ASSUME ClientInv, NEW z \in BOOLEAN, wire' = wire, th'[W] = th[W], Present' <=> Present,
         lsSend' = Append(lsSend, [n |-> Len(packets) + 1, zero |-> z]),
         packets' = Append(packets, Len(packets) + 1),
         \A u \in Callers : C!Starting(u)' <=> C!Starting(u)
  PROVE  /\ lsSend' \in Seq(Packet) /\ packets' \in Seq(Nat) /\ lsSend' # <<>>
         /\ ClientOrder'
<1> DEFINE p == [n |-> Len(packets) + 1, zero |-> z]
<1>1. /\ packets \in Seq(Nat) /\ lsSend \in Seq(Packet) /\ wire \in Seq(Nat)
      /\ Len(packets) \in Nat /\ Len(lsSend) \in Nat /\ Len(wire) \in Nat /\ th[W].item.n \in Nat
  BY ClientFields, ClientNames DEF ClientInv, ClientTypes
<1>2. p \in Packet /\ p.n = Len(packets) + 1
  BY <1>1 DEF Packet
<1>3. /\ lsSend' \in Seq(Packet) /\ Len(lsSend') = Len(lsSend) + 1
      /\ lsSend'[Len(lsSend) + 1] = p /\ \A n \in 1 .. Len(lsSend) : lsSend'[n] = lsSend[n]
  <2> HIDE DEF p
  <2>1. lsSend' = Append(lsSend, p)
    BY DEF p
  <2> QED BY <1>1, <1>2, <2>1, AppendProperties
<1>4. /\ packets' \in Seq(Nat) /\ Len(packets') = Len(packets) + 1
      /\ packets'[Len(packets) + 1] = Len(packets) + 1
      /\ \A n \in 1 .. Len(packets) : packets'[n] = packets[n]
  BY <1>1, AppendProperties
<1>5. Held' = Held /\ Held \in {0, 1}
  BY DEF Held
<1> HIDE DEF p
<1>6. \A n \in DOMAIN packets' : packets'[n] = n
  BY <1>1, <1>4 DEF ClientInv, ClientOrder
<1>7. \A n \in DOMAIN wire' : \/ wire'[n] = n /\ n <= Len(packets')
                              \/ ~Present' /\ wire'[n] = 0 /\ n = Len(wire')
  BY <1>1, <1>4 DEF ClientInv, ClientOrder
<1>8. th'[W].pc \in Going \/ (\E a \in Callers : C!Starting(a)') =>
       /\ Len(wire') + Held' + Len(lsSend') = Len(packets')
       /\ Held' = 1 => th'[W].item.n = Len(wire') + 1
       /\ \A n \in DOMAIN lsSend' : lsSend'[n].n = Len(wire') + Held' + n
  <2> SUFFICES ASSUME th[W].pc \in Going \/ \E a \in Callers : C!Starting(a)
               PROVE  /\ Len(wire) + Held + Len(lsSend') = Len(packets')
                      /\ Held = 1 => th[W].item.n = Len(wire) + 1
                      /\ \A n \in DOMAIN lsSend' : lsSend'[n].n = Len(wire) + Held + n
    BY <1>5
  <2>1. /\ Len(wire) + Held + Len(lsSend) = Len(packets)
        /\ Held = 1 => th[W].item.n = Len(wire) + 1
        /\ \A n \in DOMAIN lsSend : lsSend[n].n = Len(wire) + Held + n
    BY DEF ClientInv, ClientOrder
  <2>2. DOMAIN lsSend' = 1 .. Len(lsSend) + 1 /\ DOMAIN lsSend = 1 .. Len(lsSend)
    BY <1>1, <1>3
  <2> QED BY <1>1, <1>2, <1>3, <1>4, <1>5, <2>1, <2>2
<1> QED BY <1>1, <1>3, <1>4, <1>5, <1>6, <1>7, <1>8, SMTT(60) DEF ClientInv, ClientOrder

LEMMA ClientSendTcp ==
  ASSUME ClientInv, NEW a \in Callers, C!SendTcp(a)
  PROVE  ClientInv'
<1>1. /\ ClientTypes /\ a \in C!Threads /\ th' = th /\ th[a].pc = "idle" /\ connected
      /\ "send" \in C!Events
  BY ClientNames DEF ClientInv, C!SendTcp, C!At, C!Events
<1>2. /\ UNCHANGED <<state, connected, paused, running, ctx, events, wire, fails, armed, sock>>
      /\ ev' \subseteq ev \cup {"send"} /\ ev \subseteq ev'
      /\ lsSend = <<>> => "send" \in ev'
      /\ lsSend' = Append(lsSend, [n |-> Len(packets) + 1, zero |-> FALSE])
      /\ packets' = Append(packets, Len(packets) + 1)
  BY DEF C!SendTcp
<1>3. /\ ClientCalm' /\ \A u \in Callers : ClientStart(u)'
      /\ ClientWorker' /\ \A t \in C!Threads : ClientStop(t)'
      /\ ClientHeard' /\ ClientFails' /\ (Present' <=> Present)
      /\ \A u \in Callers : (C!Starting(u)' <=> C!Starting(u))
  BY <1>1, <1>2, ClientAside
<1>4. lsSend' \in Seq(Packet) /\ packets' \in Seq(Nat) /\ lsSend' # <<>> /\ ClientOrder'
  BY <1>1, <1>2, <1>3, ClientAccepts
<1>5. /\ budget' \in [C!Events -> Nat] /\ \A d \in C!Events : budget[d] = 0 => budget'[d] = 0
      /\ {"early", "async", "pause"} \subseteq C!Events
  BY <1>1, ClientSpends DEF C!SendTcp, C!Events
<1>6. ClientTypes'
  BY <1>1, <1>2, <1>4, <1>5 DEF ClientTypes
<1>7. ClientArmed'
  BY <1>1, <1>2 DEF ClientInv, ClientArmed
<1>8. ClientNet'
  BY <1>1, <1>2, <1>3, <1>5 DEF ClientInv, ClientNet
<1> QED BY <1>3, <1>4, <1>6, <1>7, <1>8 DEF ClientInv

LEMMA ClientSendUdp ==
  ASSUME ClientInv, NEW a \in Callers, NEW z \in BOOLEAN, C!SendUdp(a, z)
  PROVE  ClientInv'
<1>1. ClientTypes /\ a \in C!Threads /\ th[a].pc = "idle" /\ connected /\ "send" \in C!Events
  BY ClientNames DEF ClientInv, C!SendUdp, C!At, C!Events
<1>2. /\ UNCHANGED <<state, connected, paused, running, ctx, events, wire, fails, armed, sock, ev>>
      /\ lsSend' = Append(lsSend, [n |-> Len(packets) + 1, zero |-> z])
      /\ packets' = Append(packets, Len(packets) + 1)
  BY DEF C!SendUdp
<1> DEFINE p == IF C!Pending THEN "idle" ELSE "signal"
<1>3. C!Goto(a, p) /\ p \in {"idle", "signal"}
  BY DEF C!SendUdp
<1>4. /\ th' \in [C!Threads -> ClientTh] /\ th'[a].pc = p
      /\ th'[a].async = th[a].async
      /\ \A u \in C!Threads : u # a => th'[u] = th[u]
      /\ th'[W].pc \in WorkerPc /\ \A u \in Callers : th'[u].pc \in ClientPc
  BY <1>1, <1>3, ClientGoes, ClientNames DEF ClientPc
<1>5. th'[W] = th[W] /\ \A u \in Callers : u # a => th'[u] = th[u]
  BY <1>4, ClientNames
<1>6. /\ ClientCalm' /\ \A u \in Callers : ClientStart(u)'
      /\ ClientWorker' /\ \A t \in C!Threads : ClientStop(t)'
      /\ ClientHeard' /\ ClientFails' /\ (Present' <=> Present)
      /\ \A u \in Callers : (C!Starting(u)' <=> C!Starting(u))
  BY <1>1, <1>2, <1>3, <1>4, <1>5, ClientAside
<1>7. lsSend' \in Seq(Packet) /\ packets' \in Seq(Nat) /\ lsSend' # <<>> /\ ClientOrder'
  BY <1>1, <1>2, <1>5, <1>6, ClientAccepts
<1>8. /\ budget' \in [C!Events -> Nat] /\ \A d \in C!Events : budget[d] = 0 => budget'[d] = 0
      /\ {"early", "async", "pause"} \subseteq C!Events
  BY <1>1, ClientSpends DEF C!SendUdp, C!Events
<1>9. ClientTypes'
  BY <1>1, <1>2, <1>4, <1>7, <1>8 DEF ClientTypes
<1>10. ClientArmed'
  <2> SUFFICES ASSUME connected, th[W].pc \in {"loop", "poll"}
                                   \/ \E u \in Callers : th[u].pc = "thread"
               PROVE  /\ "out" \in armed \/ "send" \in ev \/ \E u \in Callers : th'[u].pc = "signal"
                      /\ ~paused => "in" \in armed \/ "recv" \in ev
                                      \/ \E u \in Callers : th'[u].pc = "resume"
    BY <1>2, <1>3, <1>4, <1>5 DEF ClientArmed
  <2>1. /\ lsSend # <<>> => "out" \in armed \/ "send" \in ev
                              \/ \E u \in Callers : th[u].pc = "signal"
        /\ ~paused => "in" \in armed \/ "recv" \in ev \/ \E u \in Callers : th[u].pc = "resume"
    BY DEF ClientInv, ClientArmed
  <2>2. th[W].item = C!NoPacket
    <3>1. th[W].pc \in {"loop", "poll", "idle"}
      BY DEF ClientInv, ClientStart, C!Starting
    <3> QED BY <3>1 DEF ClientInv, ClientOrder, Held
  <2>3. lsSend = <<>> => p = "signal"
    BY <2>2 DEF C!Pending, C!NoPacket
  <2> QED BY <1>1, <1>4, <1>5, <2>1, <2>3
<1>11. ClientNet'
  BY <1>1, <1>2, <1>3, <1>4, <1>5, <1>6, <1>8 DEF ClientInv, ClientNet
<1> QED BY <1>6, <1>7, <1>9, <1>10, <1>11 DEF ClientInv

\* m_evSend and m_evRecv are set by who said that he would.
LEMMA ClientSignals ==
  ASSUME ClientInv, NEW a \in Callers, C!Signals(a)
  PROVE  ClientInv'
<1>1. /\ ClientTypes /\ a \in C!Threads /\ th[a].pc \in {"signal", "resume"}
      /\ UNCHANGED <<state, connected, paused, lsSend, armed, ctx, running, fails, sock, budget,
                     session, events, packets, wire>>
      /\ C!Goto(a, "idle") /\ ev' \subseteq ev \cup {"send", "recv"} /\ ev \subseteq ev'
      /\ th[a].pc = "signal" => (ev' \subseteq ev \cup {"send"})
                                  /\ (lsSend # <<>> => "send" \in ev')
      /\ th[a].pc = "resume" => ev' = ev \cup {"recv"}
  BY ClientNames DEF ClientInv, C!Signals, C!SignalSend, C!SignalRecv, C!At, C!hist, C!Pending
<1>2. /\ th' \in [C!Threads -> ClientTh] /\ th'[a].pc = "idle"
      /\ th'[a].async = th[a].async
      /\ \A u \in C!Threads : u # a => th'[u] = th[u]
      /\ th'[W].pc \in WorkerPc /\ \A u \in Callers : th'[u].pc \in ClientPc
  BY <1>1, ClientGoes, ClientNames DEF ClientPc
<1>3. th'[W] = th[W] /\ \A u \in Callers : u # a => th'[u] = th[u]
  BY <1>2, ClientNames
<1>4. "stop" \in ev' <=> "stop" \in ev
  BY <1>1
<1>5. /\ ClientCalm' /\ \A u \in Callers : ClientStart(u)'
      /\ ClientWorker' /\ \A t \in C!Threads : ClientStop(t)'
      /\ ClientHeard' /\ ClientFails' /\ (Present' <=> Present)
      /\ \A u \in Callers : (C!Starting(u)' <=> C!Starting(u))
  BY <1>1, <1>2, <1>3, <1>4, ClientAside
<1>6. ClientTypes'
  BY <1>1, <1>2 DEF ClientTypes
<1>7. ClientArmed'
  BY <1>1, <1>2, <1>3 DEF ClientInv, ClientArmed
<1>8. ClientNet'
  BY <1>1, <1>2, <1>3, <1>5 DEF ClientInv, ClientNet
<1>9. ClientOrder'
  BY <1>1, <1>3, <1>5 DEF ClientInv, ClientOrder, Held
<1> QED BY <1>5, <1>6, <1>7, <1>8, <1>9 DEF ClientInv

LEMMA ClientPauses ==
  ASSUME ClientInv, NEW a \in Callers, C!PauseReceive(a)
  PROVE  ClientInv'
<1> DEFINE p == IF paused THEN "resume" ELSE "idle"
<1>1. /\ ClientTypes /\ a \in C!Threads /\ th[a].pc = "idle" /\ "pause" \in C!Events
      /\ UNCHANGED <<state, connected, lsSend, ev, armed, ctx, running, fails, sock,
                     session, events, packets, wire>>
      /\ C!Goto(a, p) /\ p \in {"idle", "resume"} /\ paused \in BOOLEAN
      /\ paused' \in BOOLEAN /\ (paused' <=> ~paused) /\ C!Spend("pause")
  <2>1. paused \in BOOLEAN
    BY DEF ClientInv, ClientTypes
  <2>2. CASE paused = TRUE
    BY <2>2, ClientNames DEF ClientInv, C!PauseReceive, C!At, C!hist, C!Events
  <2>3. CASE paused = FALSE
    BY <2>3, ClientNames DEF ClientInv, C!PauseReceive, C!At, C!hist, C!Events
  <2> QED BY <2>1, <2>2, <2>3
<1>2. /\ th' \in [C!Threads -> ClientTh] /\ th'[a].pc = p
      /\ th'[a].async = th[a].async
      /\ \A u \in C!Threads : u # a => th'[u] = th[u]
      /\ th'[W].pc \in WorkerPc /\ \A u \in Callers : th'[u].pc \in ClientPc
  BY <1>1, ClientGoes, ClientNames, SMTT(60) DEF ClientPc
<1>3. th'[W] = th[W] /\ \A u \in Callers : u # a => th'[u] = th[u]
  BY <1>2, ClientNames
<1>4. /\ ClientCalm' /\ \A u \in Callers : ClientStart(u)'
      /\ ClientWorker' /\ \A t \in C!Threads : ClientStop(t)'
      /\ ClientHeard' /\ ClientFails' /\ (Present' <=> Present)
      /\ \A u \in Callers : (C!Starting(u)' <=> C!Starting(u))
  BY <1>1, <1>2, <1>3, ClientAside
<1>5. /\ budget' \in [C!Events -> Nat] /\ \A d \in C!Events : budget[d] = 0 => budget'[d] = 0
      /\ {"early", "async", "pause"} \subseteq C!Events /\ budget["pause"] > 0
  BY <1>1, ClientSpends DEF C!Spend, C!Events
<1>6. ClientTypes'
  BY <1>1, <1>2, <1>5 DEF ClientTypes
<1>7. ClientArmed'
  BY <1>1, <1>2, <1>3 DEF ClientInv, ClientArmed
<1>8. ClientNet'
  BY <1>1, <1>2, <1>3, <1>4, <1>5 DEF ClientInv, ClientNet
<1>9. ClientOrder'
  BY <1>1, <1>3, <1>4 DEF ClientInv, ClientOrder, Held
<1> QED BY <1>4, <1>6, <1>7, <1>8, <1>9 DEF ClientInv

-----------------------------------------------------------------------------
(* The worker in its loop.                                                 *)

\* It goes on to p, and nothing but what ends it or what counts failures changes.
LEMMA ClientWalks ==
  ASSUME ClientInv, NEW p \in (Going \cup {"exit"})
                         \ {"on_connect", "read", "send", "send_net", "back", "back_net", "loop"},
         th[W].pc \in Going, th[W].pc # "on_connect", C!Goto(W, p),
         th[W].pc \in {"send", "send_net", "back", "back_net"} => p = "exit",
         p = "poll" => th[W].pc = "loop",
         p \in {"read_net", "write_net", "hup"} => connected,
         UNCHANGED <<state, connected, paused, lsSend, ev, armed, running, sock, packets, wire,
                     events>>,
         ctx' \in [fire : BOOLEAN, notify : BOOLEAN],
         budget' = budget \/ \E e \in C!Events : C!Spend(e),
         fails' \in 0 .. Attempts + 1, p \in Going => fails' <= Attempts
  PROVE  ClientInv'
<1>1. ClientTypes /\ W \in C!Threads /\ p \in WorkerPc
  BY ClientNames DEF ClientInv, WorkerPc
<1>2. /\ th' \in [C!Threads -> ClientTh]
      /\ th'[W].pc = p /\ th'[W].todo = th[W].todo
      /\ th'[W].item = th[W].item /\ th'[W].call = th[W].call
      /\ \A u \in C!Threads : u # W => th'[u] = th[u]
      /\ th'[W].pc \in WorkerPc /\ \A a \in Callers : th'[a].pc \in ClientPc
  BY <1>1, ClientGoes, ClientNames
<1>3. \A a \in Callers : th'[a] = th[a]
  BY <1>2, ClientNames
<1>4. /\ ClientCalm' /\ \A a \in Callers : ClientStart(a)'
      /\ (Present' <=> Present) /\ \A t \in C!Threads : ClientStop(t)'
      /\ \A a \in Callers : ~C!Starting(a) /\ (C!Starting(a)' <=> C!Starting(a))
      /\ state # "STOPPED"
  BY <1>2, <1>3, ClientTurns
<1>5. /\ budget' \in [C!Events -> Nat] /\ \A d \in C!Events : budget[d] = 0 => budget'[d] = 0
      /\ {"early", "async", "pause"} \subseteq C!Events
  BY <1>1, ClientSpends DEF ClientTypes, C!Events
<1>6. ClientTypes'
  BY <1>1, <1>2, <1>5 DEF ClientTypes
<1>7. ClientWorker'
  BY <1>2, <1>3 DEF ClientInv, ClientWorker, Told, Going
<1>8. ClientHeard'
  <2>1. \A a \in Callers : th[a].pc \notin {"thread", "on_connect", "failed"}
    BY <1>4 DEF C!Starting
  <2> QED BY <1>2, <1>3, <1>4, <2>1 DEF ClientInv, ClientHeard
<1>9. ClientArmed'
  BY <1>2, <1>3 DEF ClientInv, ClientArmed
<1>10. ClientNet'
  BY <1>2, <1>3, <1>4, <1>5 DEF ClientInv, ClientNet, Going
<1>11. ClientOrder'
  <2>1. /\ \A n \in DOMAIN packets' : packets'[n] = n
        /\ \A n \in DOMAIN wire' : \/ wire'[n] = n /\ n <= Len(packets')
                                   \/ ~Present' /\ wire'[n] = 0 /\ n = Len(wire')
    BY <1>4 DEF ClientInv, ClientOrder
  <2>2. p # "exit" => Held = 0
    BY DEF Held
  <2>3. Held' = 0 /\ (Held = 0 /\ p # "exit" => th[W].item = C!NoPacket)
    BY <1>2 DEF Held, ClientInv, ClientOrder, Going
  <2>4. p \in Going => /\ Len(wire) + 0 + Len(lsSend) = Len(packets)
                       /\ \A n \in DOMAIN lsSend : lsSend[n].n = Len(wire) + 0 + n
    BY <2>2 DEF ClientInv, ClientOrder, Going
  <2> QED BY <1>2, <1>3, <1>4, <2>1, <2>2, <2>3, <2>4 DEF ClientOrder, Going
<1>12. ClientFails'
  BY <1>2, <1>3, <1>4 DEF ClientInv, ClientFails
<1> QED BY <1>4, <1>6, <1>7, <1>8, <1>9, <1>10, <1>11, <1>12 DEF ClientInv

LEMMA ClientSteps ==
  ASSUME ClientInv, C!Loop \/ C!ReadNothing \/ C!ReadEnd \/ C!HungUp \/ C!CheckConnection
  PROVE  ClientInv'
<1>1. /\ fails \in 0 .. Attempts + 1 /\ Attempts \in Nat /\ {"tick", "refuse"} \subseteq C!Events
      /\ th[W].pc \in Going => fails <= Attempts
      /\ ctx \in [fire : BOOLEAN, notify : BOOLEAN]
      /\ \A x, y \in BOOLEAN : [fire |-> x, notify |-> y] \in [fire : BOOLEAN, notify : BOOLEAN]
  BY ClientAssumption DEF ClientInv, ClientTypes, ClientFails, C!Events
<1>2. th[W].pc \in {"read_net", "hup"} => connected
  BY DEF ClientInv, ClientNet
<1>3. CASE C!Loop
  <2> DEFINE p == IF C!HasStarted THEN "poll" ELSE "exit"
  <2>1. /\ C!Goto(W, p) /\ p \in {"poll", "exit"} /\ th[W].pc = "loop"
        /\ UNCHANGED <<state, connected, paused, lsSend, ev, armed, running, sock, packets, wire,
                       events, ctx, budget, fails>>
    BY <1>3 DEF C!Loop, C!At, C!conn, C!hist
  <2> QED BY <1>1, <2>1, ClientWalks DEF Going
<1>4. CASE C!ReadNothing
  <2> DEFINE p == IF th[W].pc = "read" THEN "next" ELSE "write_net"
  <2>1. /\ C!Goto(W, p) /\ p \in {"next", "write_net"} /\ th[W].pc \in {"read", "read_net"}
        /\ p = "write_net" => th[W].pc = "read_net"
        /\ UNCHANGED <<state, connected, paused, lsSend, ev, armed, running, sock, packets, wire,
                       events, ctx, budget, fails>>
    BY <1>4 DEF C!ReadNothing, C!At, C!conn, C!hist
  <2> QED BY <1>1, <1>2, <2>1, ClientWalks DEF Going
<1>5. CASE C!ReadEnd
  <2>1. /\ C!Goto(W, "exit") /\ th[W].pc \in {"read", "read_net"}
        /\ UNCHANGED <<state, connected, paused, lsSend, ev, armed, running, sock, packets, wire,
                       events, budget, fails>>
        /\ \E y \in BOOLEAN : ctx' = [fire |-> TRUE, notify |-> y]
    BY <1>5 DEF C!ReadEnd, C!Reads, C!At, C!hist
  <2> QED BY <1>1, <2>1, ClientWalks DEF Going
<1>6. CASE C!HungUp
  <2> DEFINE p == IF "hup" \in th[W].rev THEN "exit" ELSE "next"
  <2>1. /\ C!Goto(W, p) /\ p \in {"next", "exit"} /\ th[W].pc = "hup"
        /\ UNCHANGED <<state, connected, paused, lsSend, ev, armed, running, sock, packets, wire,
                       events, budget, fails>>
        /\ ctx' = [fire |-> TRUE, notify |-> TRUE] \/ ctx' = ctx
    BY <1>6 DEF C!HungUp, C!At, C!hist
  <2> QED BY <1>1, <2>1, ClientWalks DEF Going
<1>7. CASE C!CheckConnection
  <2> DEFINE p == IF fails >= Attempts THEN "exit" ELSE "again"
  <2>1. /\ C!Goto(W, p) /\ p \in {"again", "exit"} /\ th[W].pc = "poll"
        /\ UNCHANGED <<state, connected, paused, lsSend, ev, armed, running, sock, packets, wire,
                       events>>
        /\ ctx' = [fire |-> TRUE, notify |-> FALSE] \/ ctx' = ctx
        /\ C!Spend("tick") /\ fails' = fails + 1
        /\ p = "again" => fails < Attempts
    BY <1>1, <1>7 DEF C!CheckConnection, C!At, C!hist
  <2> HIDE DEF p
  <2>2. "poll" \in Going
    BY DEF Going
  <2>3. fails' \in 0 .. Attempts + 1 /\ (p \in Going => fails' <= Attempts)
    BY <1>1, <2>1, <2>2 DEF Going
  <2>4. ctx' \in [fire : BOOLEAN, notify : BOOLEAN] /\ \E e \in C!Events : C!Spend(e)
    BY <1>1, <2>1
  <2>5. p \in (Going \cup {"exit"})
               \ {"on_connect", "read", "send", "send_net", "back", "back_net", "loop"}
    BY <2>1 DEF Going
  <2>6. p \notin {"poll", "read_net", "write_net", "hup"}
    BY <2>1
  <2> QED BY <2>1, <2>2, <2>3, <2>4, <2>5, <2>6, ClientWalks
<1> QED BY <1>3, <1>4, <1>5, <1>6, <1>7

\* Three ways in which the worker also changes what it has to do.
LEMMA ClientTakes ==
  ASSUME ClientTypes, NEW q \in Seq({"net", "send", "recv", "stop"}),
         NEW v \in SUBSET {"in", "out", "hup", "err"},
         th' = [th EXCEPT ![W].pc = "next", ![W].todo = q, ![W].rev = v]
  PROVE  /\ th' \in [C!Threads -> ClientTh] /\ th'[W].pc = "next" /\ th'[W].todo = q
         /\ th'[W].item = th[W].item /\ th'[W].call = th[W].call
         /\ \A a \in Callers : th'[a] = th[a] /\ th'[a].pc \in ClientPc
<1> DEFINE k == [th[W] EXCEPT !.pc = "next", !.todo = q, !.rev = v]
<1>1. th[W] \in ClientTh /\ W \in C!Threads
  BY ClientFields, ClientNames
<1>2. k \in ClientTh
  BY <1>1 DEF ClientTh, WorkerPc, Going
<1>3. k.pc = "next" /\ k.todo = q /\ k.item = th[W].item /\ k.call = th[W].call
  BY <1>1 DEF ClientTh
<1>4. th' = [th EXCEPT ![W] = k]
  OBVIOUS
<1> HIDE DEF k
<1> QED BY <1>1, <1>2, <1>3, <1>4, ClientPuts, ClientNames DEF WorkerPc, Going

LEMMA ClientPicks ==
  ASSUME ClientTypes, NEW p \in WorkerPc, NEW q \in Seq({"net", "send", "recv", "stop"}),
         NEW x \in BOOLEAN,
         th' = [th EXCEPT ![W].pc = p, ![W].todo = q, ![W].call = x]
  PROVE  /\ th' \in [C!Threads -> ClientTh] /\ th'[W].pc = p /\ th'[W].todo = q
         /\ th'[W].item = th[W].item /\ th'[W].call = x
         /\ \A a \in Callers : th'[a] = th[a] /\ th'[a].pc \in ClientPc
<1> DEFINE k == [th[W] EXCEPT !.pc = p, !.todo = q, !.call = x]
<1>1. th[W] \in ClientTh /\ W \in C!Threads
  BY ClientFields, ClientNames
<1>2. k \in ClientTh
  BY <1>1 DEF ClientTh
<1>3. k.pc = p /\ k.todo = q /\ k.item = th[W].item /\ k.call = x
  BY <1>1 DEF ClientTh
<1>4. th' = [th EXCEPT ![W] = k]
  OBVIOUS
<1> HIDE DEF k
<1> QED BY <1>1, <1>2, <1>3, <1>4, ClientPuts, ClientNames

LEMMA ClientCarries ==
  ASSUME ClientTypes, NEW p \in WorkerPc, NEW m \in Packet,
         th' = [th EXCEPT ![W].pc = p, ![W].item = m]
  PROVE  /\ th' \in [C!Threads -> ClientTh] /\ th'[W].pc = p /\ th'[W].item = m
         /\ th'[W].todo = th[W].todo /\ th'[W].call = th[W].call
         /\ \A a \in Callers : th'[a] = th[a] /\ th'[a].pc \in ClientPc
<1> DEFINE k == [th[W] EXCEPT !.pc = p, !.item = m]
<1>1. th[W] \in ClientTh /\ W \in C!Threads
  BY ClientFields, ClientNames
<1>2. k \in ClientTh
  BY <1>1 DEF ClientTh
<1>3. k.pc = p /\ k.item = m /\ k.todo = th[W].todo /\ k.call = th[W].call
  BY <1>1 DEF ClientTh
<1>4. th' = [th EXCEPT ![W] = k]
  OBVIOUS
<1> HIDE DEF k
<1> QED BY <1>1, <1>2, <1>3, <1>4, ClientPuts, ClientNames

LEMMA ClientSingle ==
  ASSUME NEW X
  PROVE  <<>> \in Seq(X) /\ \A e \in X : <<e>> \in Seq(X)
  OBVIOUS

LEMMA ClientPoll ==
  ASSUME ClientInv, C!Poll
  PROVE  ClientInv'
<1>1. PICK hup \in BOOLEAN :
        LET rev == C!Revents(hup)
            Ask(e) == IF e \in ev THEN <<e>> ELSE <<>>
            ready == (IF rev # {} THEN <<"net">> ELSE <<>>)
                       \o Ask("send") \o Ask("recv") \o Ask("stop")
        IN  /\ ready # <<>>
            /\ th' = [th EXCEPT ![W].pc = "next", ![W].todo = ready, ![W].rev = rev]
  BY DEF C!Poll
<1> DEFINE rev == C!Revents(hup)
           Ask(e) == IF e \in ev THEN <<e>> ELSE <<>>
           ready == (IF rev # {} THEN <<"net">> ELSE <<>>)
                      \o Ask("send") \o Ask("recv") \o Ask("stop")
<1>2. /\ th' = [th EXCEPT ![W].pc = "next", ![W].todo = ready, ![W].rev = rev]
      /\ UNCHANGED <<state, connected, paused, lsSend, ev, armed, ctx, running, fails, sock,
                     budget, session, events, packets, wire>>
      /\ th[W].pc = "poll"
  BY <1>1 DEF C!Poll, C!conn, C!hist, C!At
<1>3. /\ ClientTypes /\ ev \subseteq {"send", "recv", "stop"} /\ armed \subseteq {"in", "out"}
      /\ W \in C!Threads
  BY ClientNames DEF ClientInv, ClientTypes
<1>4. rev \in SUBSET {"in", "out", "hup", "err"}
  BY <1>3 DEF C!Revents
<1>5. ready \in Seq({"net"} \cup ev)
  <2>1. Ask("send") \in Seq({"net"} \cup ev) /\ Ask("recv") \in Seq({"net"} \cup ev)
        /\ Ask("stop") \in Seq({"net"} \cup ev)
    BY ClientSingle
  <2>2. (IF rev # {} THEN <<"net">> ELSE <<>>) \in Seq({"net"} \cup ev)
    BY ClientSingle
  <2> HIDE DEF Ask, rev
  <2> QED BY <2>1, <2>2, ConcatProperties
<1> HIDE DEF rev, ready
<1>6. /\ ready \in Seq({"net", "send", "recv", "stop"})
      /\ "stop" \notin ev => ready \in Seq({"net", "send", "recv"})
      /\ "recv" \notin ev => ready \in Seq({"net", "send", "stop"})
  <2>1. /\ {"net"} \cup ev \subseteq {"net", "send", "recv", "stop"}
        /\ "stop" \notin ev => {"net"} \cup ev \subseteq {"net", "send", "recv"}
        /\ "recv" \notin ev => {"net"} \cup ev \subseteq {"net", "send", "stop"}
    BY <1>3
  <2> QED BY <1>5, <2>1, SeqMonotonic
<1>7. /\ th' \in [C!Threads -> ClientTh] /\ th'[W].pc = "next" /\ th'[W].todo = ready
      /\ th'[W].item = th[W].item /\ th'[W].call = th[W].call
      /\ \A a \in Callers : th'[a] = th[a] /\ th'[a].pc \in ClientPc
  BY <1>2, <1>3, <1>4, <1>6, ClientTakes
<1>8. /\ ClientCalm' /\ \A a \in Callers : ClientStart(a)'
      /\ (Present' <=> Present) /\ \A t \in C!Threads : ClientStop(t)'
      /\ \A a \in Callers : ~C!Starting(a) /\ (C!Starting(a)' <=> C!Starting(a))
      /\ state # "STOPPED"
  BY <1>2, <1>7, ClientTurns DEF Going
<1>9. ClientTypes'
  BY <1>2, <1>3, <1>7 DEF ClientTypes, WorkerPc, Going
<1>10. ClientWorker'
  BY <1>2, <1>6, <1>7 DEF ClientInv, ClientWorker, Told
<1>11. ClientHeard'
  BY <1>2, <1>7, <1>8, ZenonT(60) DEF ClientInv, ClientHeard, Going
<1>12. ClientArmed'
  BY <1>2, <1>7 DEF ClientInv, ClientArmed
<1>13. ClientNet'
  BY <1>2, <1>6, <1>7, <1>8 DEF ClientInv, ClientNet
<1>14. ClientOrder'
  BY <1>2, <1>7, <1>8 DEF ClientInv, ClientOrder, Held, Going
<1>15. ClientFails'
  BY <1>2, <1>7, <1>8 DEF ClientInv, ClientFails, Going
<1> QED BY <1>8, <1>9, <1>10, <1>11, <1>12, <1>13, <1>14, <1>15 DEF ClientInv

LEMMA ClientNextReady ==
  ASSUME ClientInv, C!NextReady
  PROVE  ClientInv'
<1>1. /\ ClientTypes /\ W \in C!Threads /\ th[W].pc = "next"
      /\ th[W].todo \in Seq({"net", "send", "recv", "stop"})
      /\ ctx \in [fire : BOOLEAN, notify : BOOLEAN] /\ fails \in 0 .. Attempts + 1
      /\ fails <= Attempts
  BY ClientNames, ClientFields
     DEF ClientInv, ClientTypes, ClientFails, C!NextReady, C!At, Going
<1>2. UNCHANGED <<state, connected, paused, lsSend, armed, ctx, running, fails, sock,
                  budget, session, events, packets, wire>>
  BY DEF C!NextReady, C!hist
<1>3. CASE th[W].todo = <<>>
  <2>1. C!Goto(W, "again") /\ ev' = ev
    BY <1>3 DEF C!NextReady
  <2> QED BY <1>1, <1>2, <2>1, ClientWalks DEF Going
<1>4. CASE th[W].todo # <<>>
  <2> DEFINE e  == Head(th[W].todo)
             q  == Tail(th[W].todo)
             to == IF e = "net" THEN "connect" ELSE IF e = "send" THEN "write"
                   ELSE IF e = "recv" THEN "read" ELSE "exit"
  <2>1. PICK x \in BOOLEAN :
          /\ x = TRUE <=> e # "stop"
          /\ ev' = ev \ {e} /\ th' = [th EXCEPT ![W].pc = to, ![W].todo = q, ![W].call = x]
    <3>1. CASE e = "stop"
      <4>1. th' = [th EXCEPT ![W].pc = to, ![W].todo = q, ![W].call = FALSE] /\ ev' = ev \ {e}
        BY <1>4, <3>1 DEF C!NextReady
      <4> QED BY <3>1, <4>1
    <3>2. CASE e # "stop"
      <4>1. th' = [th EXCEPT ![W].pc = to, ![W].todo = q, ![W].call = TRUE] /\ ev' = ev \ {e}
        BY <1>4, <3>2 DEF C!NextReady
      <4> QED BY <3>2, <4>1
    <3> QED BY <3>1, <3>2
  <2>2. /\ e \in {"net", "send", "recv", "stop"} /\ q \in Seq({"net", "send", "recv", "stop"})
        /\ th[W].todo \in Seq({"net", "send", "recv"})
             => e # "stop" /\ q \in Seq({"net", "send", "recv"})
        /\ th[W].todo \in Seq({"net", "send", "stop"})
             => e # "recv" /\ q \in Seq({"net", "send", "stop"})
    BY <1>1, <1>4, HeadTailProperties
  <2> HIDE DEF e, q
  <2>3. /\ to \in {"connect", "write", "read", "exit"} /\ to \in WorkerPc
        /\ (to = "read" => e = "recv")
        /\ (to = "exit" <=> e = "stop")
    BY <2>2 DEF WorkerPc, Going
  <2> HIDE DEF to
  <2>4. /\ th' \in [C!Threads -> ClientTh] /\ th'[W].pc = to /\ th'[W].todo = q
        /\ th'[W].item = th[W].item /\ th'[W].call = x
        /\ \A a \in Callers : th'[a] = th[a] /\ th'[a].pc \in ClientPc
    BY <1>1, <2>1, <2>2, <2>3, ClientPicks
  <2>5. /\ ClientCalm' /\ \A a \in Callers : ClientStart(a)'
        /\ (Present' <=> Present) /\ \A t \in C!Threads : ClientStop(t)'
        /\ \A a \in Callers : ~C!Starting(a) /\ (C!Starting(a)' <=> C!Starting(a))
        /\ state # "STOPPED"
    BY <1>1, <1>2, <2>3, <2>4, ClientTurns DEF Going
  <2>6. ClientTypes'
    BY <1>1, <1>2, <2>1, <2>3, <2>4 DEF ClientTypes
  <2>7. ClientWorker'
    <3>1. ~Told => "stop" \notin ev /\ th[W].todo \in Seq({"net", "send", "recv"})
      BY DEF ClientInv, ClientWorker
    <3>2. running /\ (Told' <=> Told)
      BY <1>1, <2>4 DEF ClientInv, ClientWorker, Told
    <3> QED BY <1>2, <2>1, <2>2, <2>3, <2>4, <3>1, <3>2 DEF ClientWorker
  <2>8. ClientHeard'
    BY <1>1, <1>2, <2>3, <2>4, <2>5 DEF ClientInv, ClientHeard, Going
  <2>9. ClientArmed'
    <3>1. \A a \in Callers : th'[a].pc # "thread"
      BY <2>5 DEF C!Starting
    <3> QED BY <2>3, <2>4, <3>1 DEF ClientArmed
  <2>10. ClientNet'
    BY <1>1, <1>2, <2>1, <2>2, <2>3, <2>4, <2>5 DEF ClientInv, ClientNet
  <2>11. ClientOrder'
    BY <1>1, <1>2, <2>3, <2>4, <2>5 DEF ClientInv, ClientOrder, Held, Going
  <2>12. ClientFails'
    BY <1>1, <1>2 DEF ClientFails
  <2> QED BY <2>5, <2>6, <2>7, <2>8, <2>9, <2>10, <2>11, <2>12 DEF ClientInv
<1> QED BY <1>3, <1>4

LEMMA ClientPresent ==
  ASSUME ClientInv, th[W].pc \in Going \cup {"exit", "stop"}
  PROVE  Present
<1>1. \A t \in C!Threads : th[t].pc # "reset"
  BY ClientNames DEF ClientInv, ClientStop, Going
<1>2. state # "STOPPED"
  BY DEF ClientInv, ClientCalm, Going
<1> QED BY <1>1, <1>2 DEF Present

LEMMA ClientAgain ==
  ASSUME ClientInv, C!Again
  PROVE  ClientInv'
<1>1. /\ ClientTypes /\ W \in C!Threads /\ th[W].pc = "again" /\ C!Goto(W, "loop")
      /\ armed' = C!Wanted
      /\ UNCHANGED <<state, connected, paused, lsSend, ev, ctx, running, fails, sock,
                     budget, session, events, packets, wire>>
  BY ClientNames DEF ClientInv, C!Again, C!At, C!hist
<1>2. /\ armed' \subseteq {"in", "out"} /\ (lsSend # <<>> => "out" \in armed')
      /\ ~paused => "in" \in armed'
  BY <1>1 DEF C!Wanted
<1>3. /\ th' \in [C!Threads -> ClientTh]
      /\ th'[W].pc = "loop" /\ th'[W].todo = th[W].todo
      /\ th'[W].item = th[W].item /\ th'[W].call = th[W].call
      /\ \A u \in C!Threads : u # W => th'[u] = th[u]
      /\ th'[W].pc \in WorkerPc /\ \A a \in Callers : th'[a].pc \in ClientPc
  BY <1>1, ClientGoes, ClientNames DEF WorkerPc, Going
<1>4. \A a \in Callers : th'[a] = th[a]
  BY <1>3, ClientNames
<1>5. /\ ClientCalm' /\ \A a \in Callers : ClientStart(a)'
      /\ (Present' <=> Present) /\ \A t \in C!Threads : ClientStop(t)'
      /\ \A a \in Callers : ~C!Starting(a) /\ (C!Starting(a)' <=> C!Starting(a))
      /\ state # "STOPPED"
  BY <1>1, <1>3, <1>4, ClientTurns DEF Going
<1>6. ClientTypes'
  BY <1>1, <1>2, <1>3 DEF ClientTypes
<1>7. ClientWorker'
  BY <1>1, <1>3, <1>4 DEF ClientInv, ClientWorker, Told
<1>8. ClientHeard'
  BY <1>1, <1>3, <1>4, <1>5 DEF ClientInv, ClientHeard, Going
<1>9. ClientArmed'
  BY <1>1, <1>2 DEF ClientArmed
<1>10. ClientNet'
  BY <1>1, <1>3, <1>4, <1>5 DEF ClientInv, ClientNet
<1>11. ClientOrder'
  BY <1>1, <1>3, <1>4, <1>5 DEF ClientInv, ClientOrder, Held, Going
<1>12. ClientFails'
  BY <1>1, <1>3, <1>4, <1>5 DEF ClientInv, ClientFails, Going
<1> QED BY <1>5, <1>6, <1>7, <1>8, <1>9, <1>10, <1>11, <1>12 DEF ClientInv

LEMMA ClientHandle ==
  ASSUME ClientInv, C!HandleConnect
  PROVE  ClientInv'
<1>1. /\ ClientTypes /\ W \in C!Threads /\ th[W].pc = "connect" /\ connected \in BOOLEAN
      /\ UNCHANGED <<paused, lsSend, armed, ev, running, fails, sock, budget, session, packets,
                     wire>>
      /\ fails \in 0 .. Attempts + 1 /\ fails <= Attempts
      /\ ctx \in [fire : BOOLEAN, notify : BOOLEAN]
      /\ [fire |-> TRUE, notify |-> TRUE] \in [fire : BOOLEAN, notify : BOOLEAN]
  BY ClientNames DEF ClientInv, ClientTypes, ClientFails, Going, C!HandleConnect, C!At
<1>2. CASE C!Goto(W, "exit") /\ UNCHANGED <<connected, state, events>>
             /\ ctx' = [fire |-> TRUE, notify |-> TRUE]
  BY <1>1, <1>2, ClientWalks DEF Going
<1>3. CASE connected /\ C!Goto(W, "read_net") /\ UNCHANGED <<connected, state, events, ctx>>
  BY <1>1, <1>3, ClientWalks DEF Going
<1>4. CASE /\ ~connected /\ C!SetConnected /\ C!Fire("connect")
           /\ C!Goto(W, "on_connect") /\ ctx' = ctx
  <2>1. connected' = TRUE /\ state' = "STARTED" /\ events' = Append(events, "connect")
    BY <1>4 DEF C!SetConnected, C!Fire
  <2>2. /\ th' \in [C!Threads -> ClientTh]
        /\ th'[W].pc = "on_connect" /\ th'[W].todo = th[W].todo
        /\ th'[W].item = th[W].item /\ th'[W].call = th[W].call
        /\ \A u \in C!Threads : u # W => th'[u] = th[u]
        /\ th'[W].pc \in WorkerPc /\ \A a \in Callers : th'[a].pc \in ClientPc
    BY <1>1, <1>4, ClientGoes, ClientNames DEF WorkerPc, Going
  <2>3. \A a \in Callers : th'[a] = th[a]
    BY <2>2, ClientNames
  <2>4. Present /\ lsSend = <<>> /\ packets = <<>> /\ events = <<>>
    <3>1. Present
      BY <1>1, ClientPresent DEF Going
    <3> QED BY <1>4, <3>1 DEF ClientInv, ClientCalm, ClientHeard
  <2>5. \A t \in C!Threads : ~Busy(t) /\ ~Ending(t)
    <3>1. ASSUME NEW a \in Callers PROVE ~C!Starting(a) /\ ~Ending(a)
      <4>1. ~C!Starting(a)
        BY <1>1 DEF ClientInv, ClientStart
      <4>2. ~Ending(a)
        BY <1>1, <1>4, ClientNames DEF ClientInv, ClientStop, Ending
      <4> QED BY <4>1, <4>2
    <3>2. ~Busy(W) /\ ~Ending(W)
      BY <1>1, ClientNames DEF Busy, Ending
    <3> QED BY <3>1, <3>2, ClientNames DEF Busy
  <2>6. \A t \in C!Threads : ~Busy(t)' /\ ~Ending(t)' /\ (t \in Callers => ~C!Starting(t)')
    <3>1. ~Ending(W)'
      BY <2>2 DEF Ending
    <3> QED BY <2>3, <2>5, <3>1, ClientNames DEF Busy, Ending, C!Starting
  <2>7. Present'
    BY <2>1, <2>6 DEF Present, Ending
  <2>8. ClientTypes'
    <3>1. events' \in Seq(Notices)
      BY <1>1, <2>1, AppendProperties DEF ClientTypes, Notices
    <3> QED BY <1>1, <1>4, <2>1, <2>2, <3>1 DEF ClientTypes
  <2>9. ClientCalm'
    BY <2>1, <2>2, <2>6 DEF ClientCalm
  <2>10. (\A a \in Callers : ClientStart(a)') /\ \A t \in C!Threads : ClientStop(t)'
    BY <2>6, ClientNames DEF ClientStart, ClientStop, Ending, C!Starting
  <2>11. ClientWorker'
    BY <1>1, <2>2, <2>3 DEF ClientInv, ClientWorker, Told
  <2>12. ClientHeard'
    <3>1. Opening(events')
      BY <1>1, <2>1, <2>4, Hears DEF ClientTypes
    <3> QED BY <2>1, <2>2, <2>7, <3>1 DEF ClientHeard
  <2>13. ClientArmed'
    <3>1. \A a \in Callers : th'[a].pc # "thread"
      BY <2>6, ClientNames DEF C!Starting
    <3> QED BY <2>2, <3>1 DEF ClientArmed
  <2>14. ClientNet'
    BY <1>1, <2>1, <2>2, <2>3, <2>6, ClientNames DEF ClientInv, ClientNet
  <2>15. ClientOrder'
    <3>1. Held = 0 /\ Held' = 0
      BY <1>1, <2>2 DEF Held
    <3> QED BY <1>1, <2>2, <2>4, <2>7, <3>1 DEF ClientInv, ClientOrder, Going
  <2>16. ClientFails'
    BY <1>1 DEF ClientFails
  <2> QED BY <2>8, <2>9, <2>10, <2>11, <2>12, <2>13, <2>14, <2>15, <2>16 DEF ClientInv
<1> QED BY <1>2, <1>3, <1>4 DEF C!HandleConnect

LEMMA ClientOnConnect ==
  ASSUME ClientInv, C!OnConnect
  PROVE  ClientInv'
<1>1. /\ ClientTypes /\ W \in C!Threads /\ th[W].pc = "on_connect" /\ connected
      /\ UNCHANGED <<state, connected, paused, lsSend, ev, armed, running, fails, sock,
                     session, packets, wire>>
      /\ events \in Seq(Notices) /\ ctx \in [fire : BOOLEAN, notify : BOOLEAN]
  BY ClientNames DEF ClientInv, ClientTypes, ClientNet, C!OnConnect, C!At
<1>2. Present /\ Opening(events)
  <2>1. Present
    BY <1>1, ClientPresent DEF Going
  <2> QED BY <1>1, <2>1 DEF ClientInv, ClientHeard
<1>3. PICK p \in {"read_net", "exit"} :
        /\ C!Goto(W, p)
        /\ p = "read_net" => /\ events' = Append(events, "connected") /\ ctx' = ctx
                             /\ budget' = budget
        /\ p = "exit" => /\ events' = Append(events, "refused") /\ C!Spend("refuse")
                         /\ ctx' = [fire |-> FALSE, notify |-> FALSE]
  BY DEF C!OnConnect, C!Fire
<1>4. /\ th' \in [C!Threads -> ClientTh]
      /\ th'[W].pc = p /\ th'[W].todo = th[W].todo
      /\ th'[W].item = th[W].item /\ th'[W].call = th[W].call
      /\ \A u \in C!Threads : u # W => th'[u] = th[u]
      /\ th'[W].pc \in WorkerPc /\ \A a \in Callers : th'[a].pc \in ClientPc
  BY <1>1, <1>3, ClientGoes, ClientNames DEF WorkerPc, Going
<1>5. \A a \in Callers : th'[a] = th[a]
  BY <1>4, ClientNames
<1>6. /\ ClientCalm' /\ \A a \in Callers : ClientStart(a)'
      /\ (Present' <=> Present) /\ \A t \in C!Threads : ClientStop(t)'
      /\ \A a \in Callers : ~C!Starting(a) /\ (C!Starting(a)' <=> C!Starting(a))
      /\ state # "STOPPED"
  BY <1>1, <1>3, <1>4, <1>5, ClientTurns DEF Going
<1>7. /\ events' \in Seq(Notices) /\ (p = "read_net" => Lives(events'))
      /\ p = "exit" => Refused(events') /\ ~ctx'.fire
  <2>1. events \in Seq(Notices) /\ Opening(events)
    BY <1>1, <1>2
  <2>2. CASE p = "read_net"
    <3>1. events' = Append(events, "connected")
      BY <1>3, <2>2
    <3> QED BY <2>1, <2>2, <3>1, Hears DEF Notices
  <2>3. CASE p = "exit"
    <3>1. events' = Append(events, "refused") /\ ~ctx'.fire
      BY <1>3, <2>3
    <3> QED BY <2>1, <2>3, <3>1, Hears DEF Notices
  <2> QED BY <2>2, <2>3
<1>8. /\ budget' \in [C!Events -> Nat] /\ \A d \in C!Events : budget[d] = 0 => budget'[d] = 0
      /\ {"early", "async", "pause"} \subseteq C!Events
  BY <1>1, <1>3, ClientSpends DEF ClientTypes, C!Events
<1>9. ClientTypes'
  <2>1. ctx' = ctx \/ ctx' = [fire |-> FALSE, notify |-> FALSE]
    BY <1>3
  <2>2. ctx' \in [fire : BOOLEAN, notify : BOOLEAN]
    <3>1. ctx \in [fire : BOOLEAN, notify : BOOLEAN]
      BY <1>1
    <3> QED BY <2>1, <3>1, ClientContext
  <2> QED BY <1>1, <1>4, <1>7, <1>8, <2>2 DEF ClientTypes
<1>10. ClientWorker'
  BY <1>1, <1>4, <1>5 DEF ClientInv, ClientWorker, Told
<1>11. ClientHeard'
  <2>1. \A a \in Callers : th'[a].pc \notin {"thread", "on_connect", "failed"}
    BY <1>6 DEF C!Starting
  <2> QED BY <1>1, <1>2, <1>3, <1>4, <1>6, <1>7, <2>1 DEF ClientHeard, Going
<1>12. ClientArmed'
  <2>1. \A a \in Callers : th'[a].pc # "thread"
    BY <1>6 DEF C!Starting
  <2> QED BY <1>3, <1>4, <2>1 DEF ClientArmed
<1>13. ClientNet'
  BY <1>1, <1>3, <1>4, <1>5, <1>6, <1>8 DEF ClientInv, ClientNet
<1>14. ClientOrder'
  BY <1>1, <1>3, <1>4, <1>5, <1>6 DEF ClientInv, ClientOrder, Held, Going
<1>15. ClientFails'
  BY <1>1, <1>4, <1>6 DEF ClientInv, ClientFails, Going
<1> QED BY <1>6, <1>9, <1>10, <1>11, <1>12, <1>13, <1>14, <1>15 DEF ClientInv

LEMMA ClientReadSome ==
  ASSUME ClientInv, C!ReadSome
  PROVE  ClientInv'
<1>1. /\ ClientTypes /\ W \in C!Threads /\ th[W].pc \in {"read", "read_net"} /\ connected
      /\ UNCHANGED <<state, connected, paused, lsSend, ev, armed, running, session, packets, wire>>
      /\ fails' = 0 /\ sock.in # <<>> /\ sock' = [sock EXCEPT !.in = Tail(sock.in)]
      /\ events \in Seq(Notices) /\ ctx \in [fire : BOOLEAN, notify : BOOLEAN]
      /\ Attempts \in Nat
  BY ClientNames, ClientAssumption
     DEF ClientInv, ClientTypes, ClientNet, C!ReadSome, C!Reads, C!At
<1>2. /\ Present /\ Lives(events)
      /\ \A a \in Callers : ~C!Starting(a)
  <2>1. Present
    BY <1>1, ClientPresent DEF Going
  <2>2. \A a \in Callers : ~C!Starting(a)
    BY <1>1 DEF ClientInv, ClientStart
  <2>3. \A a \in Callers : th[a].pc # "on_connect"
    BY <2>2 DEF C!Starting
  <2> QED BY <1>1, <2>1, <2>2, <2>3 DEF ClientInv, ClientHeard, Going
<1>3. sock' \in ClientSock
  <2>1. sock \in ClientSock /\ sock.in \in Seq({"data", "zero", "notify"})
    BY <1>1, ClientFields DEF ClientTypes
  <2>2. Tail(sock.in) \in Seq({"data", "zero", "notify"})
    BY <1>1, <2>1, HeadTailProperties
  <2> QED BY <1>1, <2>1, <2>2 DEF ClientSock
<1>4. /\ events' = events \/ events' = Append(events, "receive")
      /\ th' = th \/ C!Goto(W, "exit")
      /\ ctx' = ctx \/ ctx' = [fire |-> TRUE, notify |-> TRUE]
      /\ budget' = budget \/ C!Spend("refuse")
  BY DEF C!ReadSome, C!Fire
<1>5. /\ th' \in [C!Threads -> ClientTh]
      /\ th'[W].pc \in {th[W].pc, "exit"} /\ th'[W].todo = th[W].todo
      /\ th'[W].item = th[W].item /\ th'[W].call = th[W].call
      /\ \A u \in C!Threads : u # W => th'[u] = th[u]
      /\ th'[W].pc \in WorkerPc /\ \A a \in Callers : th'[a].pc \in ClientPc
  <2>1. CASE th' = th
    BY <1>1, <2>1 DEF ClientTypes
  <2>2. CASE C!Goto(W, "exit")
    BY <1>1, <2>2, ClientGoes, ClientNames DEF WorkerPc
  <2> QED BY <1>4, <2>1, <2>2
<1>6. \A a \in Callers : th'[a] = th[a]
  BY <1>5, ClientNames
<1>7. /\ ClientCalm' /\ \A a \in Callers : ClientStart(a)'
      /\ (Present' <=> Present) /\ \A t \in C!Threads : ClientStop(t)'
      /\ \A a \in Callers : ~C!Starting(a) /\ (C!Starting(a)' <=> C!Starting(a))
      /\ state # "STOPPED"
  BY <1>1, <1>5, <1>6, ClientTurns DEF Going
<1>8. events' \in Seq(Notices) /\ Lives(events')
  BY <1>1, <1>2, <1>4, Hears DEF Notices
<1>9. /\ budget' \in [C!Events -> Nat] /\ \A d \in C!Events : budget[d] = 0 => budget'[d] = 0
      /\ {"early", "async", "pause"} \subseteq C!Events
  BY <1>1, <1>4, ClientSpends DEF ClientTypes, C!Events
<1>10. ClientTypes'
  <2>1. ctx' = ctx \/ ctx' = [fire |-> TRUE, notify |-> TRUE]
    BY <1>4
  <2>2. ctx' \in [fire : BOOLEAN, notify : BOOLEAN]
    <3>1. ctx \in [fire : BOOLEAN, notify : BOOLEAN]
      BY <1>1
    <3> QED BY <2>1, <3>1, ClientContext
  <2>3. fails' \in 0 .. Attempts + 1
    BY <1>1
  <2> QED BY <1>1, <1>3, <1>5, <1>8, <1>9, <2>2, <2>3 DEF ClientTypes
<1>11. ClientWorker'
  BY <1>1, <1>5, <1>6 DEF ClientInv, ClientWorker, Told
<1>12. ClientHeard'
  <2>1. \A a \in Callers : th'[a].pc # "on_connect"
    BY <1>7 DEF C!Starting
  <2> QED BY <1>1, <1>2, <1>5, <1>7, <1>8, <2>1 DEF ClientHeard
<1>13. ClientArmed'
  <2>1. \A a \in Callers : th'[a].pc # "thread"
    BY <1>7 DEF C!Starting
  <2> QED BY <1>1, <1>5, <2>1 DEF ClientArmed
<1>14. ClientNet'
  BY <1>1, <1>5, <1>6, <1>7, <1>9 DEF ClientInv, ClientNet
<1>15. ClientOrder'
  BY <1>1, <1>5, <1>6, <1>7 DEF ClientInv, ClientOrder, Held, Going
<1>16. ClientFails'
  BY <1>1 DEF ClientFails
<1> QED BY <1>7, <1>10, <1>11, <1>12, <1>13, <1>14, <1>15, <1>16 DEF ClientInv

\* What the worker does between OnConnect and its way out, but for packets.
LEMMA ClientWrites ==
  ASSUME ClientInv, NEW p \in {"write", "write_net", "send", "send_net", "back", "back_net",
                               "next", "hup"},
         th[W].pc \in {"write", "write_net", "send", "send_net", "back", "back_net"}, connected,
         th' \in [C!Threads -> ClientTh], th'[W].pc = p, th'[W].todo = th[W].todo,
         th'[W].call = th[W].call, \A a \in Callers : th'[a] = th[a] /\ th'[a].pc \in ClientPc,
         UNCHANGED <<state, connected, paused, ev, armed, ctx, running, fails, packets>>,
         lsSend' \in Seq(Packet), wire' \in Seq(Nat), sock' \in ClientSock,
         budget' = budget \/ \E e \in C!Events : C!Spend(e),
         events' = events \/ events' = Append(events, "send"),
         ClientOrder'
  PROVE  ClientInv'
<1>1. /\ ClientTypes /\ W \in C!Threads /\ p \in Going /\ events \in Seq(Notices)
      /\ th[W].pc \in Going
  BY ClientNames DEF ClientInv, ClientTypes, Going
<1>2. /\ ClientCalm' /\ \A a \in Callers : ClientStart(a)'
      /\ (Present' <=> Present) /\ \A t \in C!Threads : ClientStop(t)'
      /\ \A a \in Callers : ~C!Starting(a) /\ (C!Starting(a)' <=> C!Starting(a))
      /\ state # "STOPPED"
  <2>1. CASE lsSend = <<>> => lsSend' = <<>>
    BY <1>1, <2>1, ClientTurns
  <2>2. CASE lsSend = <<>> /\ lsSend' # <<>>
    <3>1. \A a \in Callers : ~C!Starting(a) /\ (C!Starting(a)' <=> C!Starting(a))
      BY <1>1 DEF ClientInv, ClientStart, C!Starting, Going
    <3>2. \A t \in C!Threads : (Busy(t)' <=> Busy(t)) /\ (Ending(t)' <=> Ending(t))
                                 /\ (th'[t].pc = "reset" <=> th[t].pc = "reset")
      BY <1>1, ClientNames DEF Busy, Ending, C!Starting, Going
    <3>3. (Present' <=> Present) /\ state # "STOPPED"
      BY <1>1, <3>2 DEF Present, ClientInv, ClientCalm, Going
    <3>4. ClientCalm'
      BY <1>1, <3>2, <3>3 DEF ClientInv, ClientCalm, Going
    <3>5. \A a \in Callers : ClientStart(a)'
      BY <3>1 DEF ClientInv, ClientStart, C!Starting
    <3>6. ASSUME NEW t \in C!Threads PROVE ClientStop(t)'
      <4>1. CASE t = W
        BY <1>1, <4>1, ClientNames DEF ClientInv, ClientStop, Going, Ending
      <4>2. CASE t \in Callers
        BY <1>1, <4>2, ClientNames DEF ClientInv, ClientStop, Going, Ending
      <4> QED BY <4>1, <4>2, ClientNames
    <3> QED BY <3>1, <3>3, <3>4, <3>5, <3>6
  <2> QED BY <2>1, <2>2
<1>3. Present /\ Lives(events)
  <2>1. Present
    BY <1>1, ClientPresent
  <2>2. \A a \in Callers : th[a].pc # "on_connect"
    BY <1>2 DEF C!Starting
  <2> QED BY <1>1, <2>1, <2>2 DEF ClientInv, ClientHeard, Going
<1>4. events' \in Seq(Notices) /\ Lives(events')
  BY <1>1, <1>3, Hears DEF Notices
<1>5. /\ budget' \in [C!Events -> Nat] /\ \A d \in C!Events : budget[d] = 0 => budget'[d] = 0
      /\ {"early", "async", "pause"} \subseteq C!Events
  BY <1>1, ClientSpends DEF ClientTypes, C!Events
<1>6. ClientTypes'
  BY <1>1, <1>4, <1>5 DEF ClientTypes, WorkerPc
<1>7. ClientWorker'
  BY <1>1 DEF ClientInv, ClientWorker, Told
<1>8. ClientHeard'
  <2>1. \A a \in Callers : th'[a].pc # "on_connect"
    BY <1>2 DEF C!Starting
  <2> QED BY <1>2, <1>3, <1>4, <2>1 DEF ClientHeard
<1>9. ClientArmed'
  <2>1. \A a \in Callers : th'[a].pc # "thread"
    BY <1>2 DEF C!Starting
  <2> QED BY <2>1 DEF ClientArmed
<1>10. ClientNet'
  BY <1>2, <1>5 DEF ClientInv, ClientNet
<1>11. ClientFails'
  BY <1>1 DEF ClientInv, ClientFails
<1> QED BY <1>2, <1>6, <1>7, <1>8, <1>9, <1>10, <1>11 DEF ClientInv

\* What the worker knows of the packets.
LEMMA ClientCounts ==
  ASSUME ClientInv, th[W].pc \in Going
  PROVE  /\ Len(wire) \in Nat /\ Len(lsSend) \in Nat /\ Len(packets) \in Nat /\ Held \in {0, 1}
         /\ wire \in Seq(Nat) /\ lsSend \in Seq(Packet) /\ packets \in Seq(Nat)
         /\ th[W].item \in Packet /\ sock \in ClientSock /\ W \in C!Threads /\ Present
         /\ Len(wire) + Held + Len(lsSend) = Len(packets)
         /\ Held = 1 => th[W].item.n = Len(wire) + 1
         /\ \A n \in 1 .. Len(lsSend) : lsSend[n].n = Len(wire) + Held + n
         /\ \A n \in 1 .. Len(wire) : wire[n] = n
         /\ \A n \in DOMAIN packets : packets[n] = n
         /\ lsSend # <<>> => connected
<1>1. /\ wire \in Seq(Nat) /\ lsSend \in Seq(Packet) /\ packets \in Seq(Nat)
      /\ th[W].item \in Packet /\ sock \in ClientSock /\ W \in C!Threads
  BY ClientNames, ClientFields DEF ClientInv, ClientTypes
<1>2. /\ Len(wire) \in Nat /\ Len(lsSend) \in Nat /\ Len(packets) \in Nat /\ Held \in {0, 1}
      /\ DOMAIN wire = 1 .. Len(wire) /\ DOMAIN lsSend = 1 .. Len(lsSend)
  BY <1>1 DEF Held
<1>3. Present
  BY ClientPresent
<1> QED BY <1>1, <1>2, <1>3 DEF ClientInv, ClientOrder, ClientCalm

LEMMA ClientSums ==
  /\ \A x, y \in Nat : x = y - 1 => x + 1 = y
  /\ \A x, y, z, u \in Nat : u + 1 = y /\ x + y = z => x + 1 + u = z
  /\ \A x, y, z \in Nat : x + 1 + y = z => x + 1 <= z
  /\ \A x, y, z, u \in Nat : u = x + 1 /\ x + 1 + y = z => u + 0 + y = z
  /\ \A x \in Nat : \A n \in 1 .. x + 1 : n \in 1 .. x \/ n = x + 1
  OBVIOUS

LEMMA ClientPop ==
  ASSUME ClientInv, C!Pop
  PROVE  ClientInv'
<1>1. /\ th[W].pc \in {"write", "write_net"} /\ th[W].pc \in Going
      /\ UNCHANGED <<state, connected, paused, ev, armed, ctx, running, fails, sock, budget,
                     session, events, packets, wire>>
      /\ ctx \in [fire : BOOLEAN, notify : BOOLEAN] /\ fails \in 0 .. Attempts + 1
      /\ fails <= Attempts /\ ClientTypes
      /\ th[W].pc = "write_net" => connected
  BY DEF C!Pop, C!hist, Going, ClientInv, ClientTypes, ClientFails, ClientNet
<1>2. CASE ~C!Writes \/ lsSend = <<>>
  <2> DEFINE p == IF th[W].pc = "write" THEN "next" ELSE "hup"
  <2>1. C!Goto(W, p) /\ lsSend' = lsSend /\ p \in {"next", "hup"}
        /\ (p = "hup" => th[W].pc = "write_net")
    BY <1>1, <1>2 DEF C!Pop, C!At
  <2> QED BY <1>1, <2>1, ClientWalks DEF Going
<1>3. CASE C!Writes /\ lsSend # <<>>
  <2> DEFINE p == IF th[W].pc = "write" THEN "send" ELSE "send_net"
             m == Head(lsSend)
  <2>1. th' = [th EXCEPT ![W].pc = p, ![W].item = m] /\ lsSend' = Tail(lsSend)
    BY <1>3 DEF C!Pop
  <2>2. /\ Len(wire) \in Nat /\ Len(lsSend) \in Nat /\ Len(packets) \in Nat
        /\ wire \in Seq(Nat) /\ lsSend \in Seq(Packet) /\ packets \in Seq(Nat)
        /\ sock \in ClientSock /\ W \in C!Threads /\ Held = 0
        /\ Len(wire) + Len(lsSend) = Len(packets) /\ connected
        /\ \A n \in 1 .. Len(lsSend) : lsSend[n].n = Len(wire) + n
        /\ \A n \in 1 .. Len(wire) : wire[n] = n
        /\ \A n \in DOMAIN packets : packets[n] = n
    <3>1. Held = 0
      BY <1>1 DEF Held
    <3>2. /\ Len(wire) \in Nat /\ Len(lsSend) \in Nat /\ Len(packets) \in Nat
          /\ wire \in Seq(Nat) /\ lsSend \in Seq(Packet) /\ packets \in Seq(Nat)
          /\ sock \in ClientSock /\ W \in C!Threads
          /\ Len(wire) + Held + Len(lsSend) = Len(packets)
          /\ \A n \in 1 .. Len(lsSend) : lsSend[n].n = Len(wire) + Held + n
          /\ \A n \in 1 .. Len(wire) : wire[n] = n
          /\ \A n \in DOMAIN packets : packets[n] = n
          /\ lsSend # <<>> => connected
      <4>1. th[W].pc \in Going
        BY <1>1
      <4> QED BY <4>1, ClientCounts
    <3>3. connected
      BY <1>3, <3>2
    <3> HIDE DEF Held
    <3> QED BY <3>1, <3>2, <3>3
  <2>3. /\ Tail(lsSend) \in Seq(Packet) /\ Len(Tail(lsSend)) = Len(lsSend) - 1
        /\ \A n \in 1 .. Len(Tail(lsSend)) : Tail(lsSend)[n] = lsSend[n + 1]
        /\ m \in Packet /\ m = lsSend[1] /\ Len(lsSend) > 0
    BY <1>3, <2>2, HeadTailProperties, EmptySeq
  <2>4. p \in {"send", "send_net"} /\ p \in WorkerPc
    BY DEF WorkerPc, Going
  <2> HIDE DEF p, m
  <2>5. /\ th' \in [C!Threads -> ClientTh] /\ th'[W].pc = p /\ th'[W].item = m
        /\ th'[W].todo = th[W].todo /\ th'[W].call = th[W].call
        /\ \A a \in Callers : th'[a] = th[a] /\ th'[a].pc \in ClientPc
    BY <1>1, <2>1, <2>3, <2>4, ClientCarries
  <2>6. Held' = 1
    BY <2>4, <2>5 DEF Held
  <2>7. /\ lsSend' \in Seq(Packet) /\ Len(lsSend') \in Nat /\ Len(lsSend') + 1 = Len(lsSend)
        /\ \A n \in 1 .. Len(lsSend') : lsSend'[n] = lsSend[n + 1]
        /\ DOMAIN lsSend' = 1 .. Len(lsSend') /\ m = lsSend[1]
    <3>1. /\ lsSend' \in Seq(Packet) /\ Len(lsSend') = Len(lsSend) - 1
          /\ \A n \in 1 .. Len(lsSend') : lsSend'[n] = lsSend[n + 1]
      BY <2>1, <2>3
    <3>2. Len(lsSend') \in Nat /\ DOMAIN lsSend' = 1 .. Len(lsSend')
      BY <3>1, LenProperties
    <3>3. Len(lsSend') + 1 = Len(lsSend)
      BY <2>2, <3>1, <3>2, ClientSums
    <3> QED BY <2>3, <3>1, <3>2, <3>3
  <2>8. /\ \A n \in 1 .. Len(lsSend') : lsSend'[n].n = Len(wire) + 1 + n
        /\ m.n = Len(wire) + 1 /\ Len(wire) + 1 + Len(lsSend') = Len(packets)
    <3>1. ASSUME NEW n \in 1 .. Len(lsSend') PROVE lsSend'[n].n = Len(wire) + 1 + n
      <4>1. n + 1 \in 1 .. Len(lsSend) /\ lsSend'[n] = lsSend[n + 1]
        BY <2>2, <2>7
      <4>2. lsSend'[n].n = Len(wire) + (n + 1)
        BY <2>2, <4>1
      <4>3. Len(wire) + (n + 1) = Len(wire) + 1 + n
        BY <2>2, <2>7
      <4> QED BY <4>2, <4>3
    <3>2. 1 \in 1 .. Len(lsSend)
      BY <2>2, <2>7
    <3>3. m.n = Len(wire) + 1
      BY <2>2, <2>7, <3>2
    <3>4. Len(wire) + 1 + Len(lsSend') = Len(packets)
      <4>1. /\ Len(lsSend') \in Nat /\ Len(lsSend) \in Nat /\ Len(wire) \in Nat
            /\ Len(packets) \in Nat
        BY <2>2, <2>7
      <4>2. Len(lsSend') + 1 = Len(lsSend) /\ Len(wire) + Len(lsSend) = Len(packets)
        BY <2>2, <2>7
      <4> QED BY <4>1, <4>2, ClientSums
    <3> QED BY <3>1, <3>3, <3>4
  <2>9. ClientOrder'
    <3>1. DOMAIN wire' = 1 .. Len(wire)
      BY <1>1, <2>2
    <3>2. \A n \in DOMAIN wire' : wire'[n] = n /\ n <= Len(packets')
      BY <1>1, <2>2, <3>1
    <3>3. ~(Held' = 0)
      BY <2>6
    <3>4. \A n \in DOMAIN packets' : packets'[n] = n
      BY <1>1, <2>2
    <3>5. /\ Len(wire') + Held' + Len(lsSend') = Len(packets')
          /\ th'[W].item.n = Len(wire') + 1
          /\ \A n \in DOMAIN lsSend' : lsSend'[n].n = Len(wire') + Held' + n
      BY <1>1, <2>5, <2>6, <2>7, <2>8
    <3> QED BY <3>2, <3>3, <3>4, <3>5 DEF ClientOrder
  <2> QED BY <1>1, <2>2, <2>4, <2>5, <2>7, <2>9, ClientWrites
<1> QED BY <1>2, <1>3
\* What ClientCounts says, for the thread that has a packet in its hands.
LEMMA ClientCarried ==
  ASSUME ClientInv, th[W].pc \in {"send", "send_net", "back", "back_net"}
  PROVE  /\ Len(wire) \in Nat /\ Len(lsSend) \in Nat /\ Len(packets) \in Nat /\ Held = 1
         /\ wire \in Seq(Nat) /\ lsSend \in Seq(Packet) /\ packets \in Seq(Nat)
         /\ th[W].item \in Packet /\ sock \in ClientSock /\ W \in C!Threads
         /\ Len(wire) + 1 + Len(lsSend) = Len(packets) /\ th[W].item.n = Len(wire) + 1
         /\ \A n \in 1 .. Len(lsSend) : lsSend[n].n = Len(wire) + 1 + n
         /\ \A n \in 1 .. Len(wire) : wire[n] = n
         /\ \A n \in DOMAIN packets : packets[n] = n
         /\ connected /\ ClientTypes
<1>1. th[W].pc \in Going /\ Held = 1
  BY DEF Going, Held
<1> QED BY <1>1, ClientCounts DEF ClientInv, ClientNet

LEMMA ClientDoSendData ==
  ASSUME ClientInv, C!DoSendData
  PROVE  ClientInv'
<1>1. /\ th[W].pc \in {"send", "send_net"} /\ th[W].pc \in Going
      /\ UNCHANGED <<state, connected, paused, lsSend, ev, armed, running, fails, session, packets>>
      /\ fails \in 0 .. Attempts + 1 /\ fails <= Attempts /\ "block" \in C!Events
      /\ ctx \in [fire : BOOLEAN, notify : BOOLEAN]
  BY DEF C!DoSendData, Going, ClientInv, ClientTypes, ClientFails, C!Events
<1>2. /\ Len(wire) \in Nat /\ Len(lsSend) \in Nat /\ Len(packets) \in Nat /\ Held = 1
      /\ wire \in Seq(Nat) /\ lsSend \in Seq(Packet) /\ packets \in Seq(Nat)
      /\ th[W].item \in Packet /\ sock \in ClientSock /\ W \in C!Threads
      /\ Len(wire) + 1 + Len(lsSend) = Len(packets) /\ th[W].item.n = Len(wire) + 1
      /\ \A n \in 1 .. Len(lsSend) : lsSend[n].n = Len(wire) + 1 + n
      /\ \A n \in 1 .. Len(wire) : wire[n] = n
      /\ \A n \in DOMAIN packets : packets[n] = n
      /\ connected /\ ClientTypes
  BY <1>1, ClientCarried
<1>3. ASSUME wire' = Append(wire, th[W].item.n), events' = Append(events, "send"),
             th' = [th EXCEPT ![W].pc = IF th[W].pc = "send" THEN "write" ELSE "write_net",
                              ![W].item = C!NoPacket],
             UNCHANGED <<sock, ctx, budget>>
      PROVE  ClientInv'
  <2> DEFINE p == IF th[W].pc = "send" THEN "write" ELSE "write_net"
             m == C!NoPacket
  <2>1. p \in {"write", "write_net"} /\ p \in WorkerPc /\ m \in Packet
    BY ClientRests DEF WorkerPc, Going
  <2>2. th' = [th EXCEPT ![W].pc = p, ![W].item = m]
    BY <1>3
  <2> HIDE DEF p, m
  <2>3. /\ th' \in [C!Threads -> ClientTh] /\ th'[W].pc = p /\ th'[W].item = m
        /\ th'[W].todo = th[W].todo /\ th'[W].call = th[W].call
        /\ \A a \in Callers : th'[a] = th[a] /\ th'[a].pc \in ClientPc
    BY <1>2, <2>1, <2>2, ClientCarries
  <2>4. Held' = 0
    BY <2>1, <2>3 DEF Held
  <2>5. /\ wire' \in Seq(Nat) /\ Len(wire') = Len(wire) + 1 /\ wire'[Len(wire) + 1] = th[W].item.n
        /\ \A n \in 1 .. Len(wire) : wire'[n] = wire[n]
    <3>1. th[W].item.n \in Nat
      BY <1>2
    <3> QED BY <1>2, <1>3, <3>1, AppendProperties
  <2>6. /\ \A n \in 1 .. Len(wire) + 1 : wire'[n] = n /\ n <= Len(packets)
        /\ DOMAIN wire' = 1 .. Len(wire) + 1
    <3>1. DOMAIN wire' = 1 .. Len(wire')
      BY <2>5, LenProperties
    <3>2. \A n \in 1 .. Len(wire) + 1 : n \in 1 .. Len(wire) \/ n = Len(wire) + 1
      <4>1. Len(wire) \in Nat
        BY <1>2
      <4> QED BY <4>1, ClientSums
    <3>3. Len(wire) + 1 <= Len(packets)
      BY <1>2, ClientSums
    <3>4. \A n \in 1 .. Len(wire) + 1 : n <= Len(packets)
      BY <1>2, <3>3
    <3> QED BY <1>2, <2>5, <3>1, <3>2, <3>4
  <2>7. Len(wire') + 0 + Len(lsSend) = Len(packets)
    BY <1>2, <2>5, ClientSums
  <2>8. ASSUME NEW n \in DOMAIN lsSend PROVE lsSend[n].n = Len(wire') + 0 + n
    <3>1. n \in 1 .. Len(lsSend) /\ n \in Nat
      BY <1>2, LenProperties
    <3>2. lsSend[n].n = Len(wire) + 1 + n
      BY <1>2, <3>1
    <3>3. Len(wire') + 0 + n = Len(wire) + 1 + n
      BY <1>2, <2>5, <3>1
    <3> QED BY <3>2, <3>3
  <2>9. ClientOrder'
    <3>1. \A n \in DOMAIN wire' : wire'[n] = n /\ n <= Len(packets')
      BY <1>1, <2>6
    <3>2. /\ Len(wire') + Held' + Len(lsSend') = Len(packets')
          /\ \A n \in DOMAIN lsSend' : lsSend'[n].n = Len(wire') + Held' + n
      BY <1>1, <2>4, <2>7, <2>8
    <3>3. /\ \A n \in DOMAIN packets' : packets'[n] = n
          /\ th'[W].item = C!NoPacket /\ ~(Held' = 1)
      BY <1>1, <1>2, <2>3, <2>4 DEF m
    <3> QED BY <3>1, <3>2, <3>3 DEF ClientOrder
  <2> QED BY <1>1, <1>2, <1>3, <2>1, <2>3, <2>5, <2>9, ClientWrites
<1>4. ASSUME sock' = [sock EXCEPT !.full = TRUE],
             th' = [th EXCEPT ![W].pc = IF th[W].pc = "send" THEN "back" ELSE "back_net"],
             UNCHANGED <<wire, events, ctx>>, budget' = budget \/ C!Spend("block")
      PROVE  ClientInv'
  <2> DEFINE p == IF th[W].pc = "send" THEN "back" ELSE "back_net"
  <2>1. p \in {"back", "back_net"} /\ p \in WorkerPc /\ C!Goto(W, p)
    BY <1>4 DEF WorkerPc, Going, C!Goto
  <2> HIDE DEF p
  <2>2. /\ th' \in [C!Threads -> ClientTh] /\ th'[W].pc = p /\ th'[W].item = th[W].item
        /\ th'[W].todo = th[W].todo /\ th'[W].call = th[W].call
        /\ \A a \in Callers : th'[a] = th[a] /\ th'[a].pc \in ClientPc
    <3>1. /\ th' \in [C!Threads -> ClientTh]
          /\ th'[W].pc = p /\ th'[W].todo = th[W].todo
          /\ th'[W].item = th[W].item /\ th'[W].call = th[W].call
          /\ \A u \in C!Threads : u # W => th'[u] = th[u]
          /\ \A a \in Callers : th'[a].pc \in ClientPc
      BY <1>2, <2>1, ClientGoes, ClientNames
    <3> QED BY <3>1, ClientNames
  <2>3. sock' \in ClientSock
    BY <1>2, <1>4 DEF ClientSock
  <2>4. Held' = Held /\ Held = 1
    BY <1>2, <2>1, <2>2 DEF Held
  <2>5. ClientOrder'
    <3>1. \A t \in C!Threads : th'[t].pc = "reset" <=> th[t].pc = "reset"
      BY <1>1, <2>1, <2>2, ClientNames
    <3>2. Present' <=> Present
      BY <1>1, <3>1 DEF Present
    <3>3. \A a \in Callers : C!Starting(a)' <=> C!Starting(a)
      BY <2>2 DEF C!Starting
    <3>4. p \in Going
      BY <2>1 DEF Going
    <3>5. ClientOrder
      BY DEF ClientInv
    <3> QED BY <1>1, <1>4, <2>2, <2>4, <3>2, <3>3, <3>4, <3>5 DEF ClientOrder
  <2> QED BY <1>1, <1>2, <1>4, <2>1, <2>2, <2>3, <2>5, ClientWrites
<1>5. ASSUME C!Goto(W, "exit"), ctx' = [fire |-> TRUE, notify |-> TRUE],
             UNCHANGED <<wire, events, sock, budget>>
      PROVE  ClientInv'
  <2>1. ctx' \in [fire : BOOLEAN, notify : BOOLEAN]
    BY <1>5, ClientContext
  <2>2. fails' \in 0 .. Attempts + 1 /\ fails' <= Attempts
    BY <1>1
  <2> QED BY <1>1, <1>2, <1>5, <2>1, <2>2, ClientWalks DEF Going
<1> QED BY <1>3, <1>4, <1>5 DEF C!DoSendData, C!Fire

LEMMA ClientPushFront ==
  ASSUME ClientInv, C!PushFront
  PROVE  ClientInv'
<1> DEFINE p == IF th[W].pc = "back" THEN "next" ELSE "hup"
           m == C!NoPacket
           k == th[W].item
<1>1. /\ th[W].pc \in {"back", "back_net"} /\ th[W].pc \in Going
      /\ UNCHANGED <<state, connected, paused, ev, armed, ctx, running, fails, sock, budget,
                     session, events, packets, wire>>
      /\ lsSend' = <<k>> \o lsSend /\ th' = [th EXCEPT ![W].pc = p, ![W].item = m]
  BY DEF C!PushFront, C!hist, Going
<1>2. /\ Len(wire) \in Nat /\ Len(lsSend) \in Nat /\ Len(packets) \in Nat /\ Held = 1
      /\ wire \in Seq(Nat) /\ lsSend \in Seq(Packet) /\ packets \in Seq(Nat)
      /\ k \in Packet /\ sock \in ClientSock /\ W \in C!Threads
      /\ Len(wire) + 1 + Len(lsSend) = Len(packets) /\ k.n = Len(wire) + 1
      /\ \A n \in 1 .. Len(lsSend) : lsSend[n].n = Len(wire) + 1 + n
      /\ \A n \in 1 .. Len(wire) : wire[n] = n
      /\ \A n \in DOMAIN packets : packets[n] = n
      /\ connected /\ ClientTypes
  BY <1>1, ClientCarried
<1>3. p \in {"next", "hup"} /\ p \in WorkerPc /\ m \in Packet
  BY ClientRests DEF WorkerPc, Going
<1> HIDE DEF p, m, k
<1>4. /\ th' \in [C!Threads -> ClientTh] /\ th'[W].pc = p /\ th'[W].item = m
      /\ th'[W].todo = th[W].todo /\ th'[W].call = th[W].call
      /\ \A a \in Callers : th'[a] = th[a] /\ th'[a].pc \in ClientPc
  BY <1>1, <1>2, <1>3, ClientCarries
<1>5. Held' = 0
  BY <1>3, <1>4 DEF Held
<1>6. /\ <<k>> \in Seq(Packet) /\ Len(<<k>>) = 1 /\ <<k>>[1] = k
  BY <1>2
<1> DEFINE q == <<k>>
<1>7. q \in Seq(Packet) /\ Len(q) = 1 /\ q[1] = k /\ lsSend' = q \o lsSend
  BY <1>1, <1>6
<1> HIDE DEF q
<1>8. /\ lsSend' \in Seq(Packet) /\ Len(lsSend') = 1 + Len(lsSend)
      /\ \A n \in 1 .. 1 + Len(lsSend) : lsSend'[n] = IF n <= 1 THEN q[n] ELSE lsSend[n - 1]
  <2>1. /\ Len(q \o lsSend) = Len(q) + Len(lsSend) /\ q \o lsSend \in Seq(Packet)
        /\ \A n \in 1 .. Len(q) + Len(lsSend) :
              (q \o lsSend)[n] = IF n <= Len(q) THEN q[n] ELSE lsSend[n - Len(q)]
    BY <1>2, <1>7, ConcatProperties
  <2> QED BY <1>7, <2>1
<1>9. Len(wire) + 0 + Len(lsSend') = Len(packets)
  BY <1>2, <1>8
<1>10. ASSUME NEW n \in DOMAIN lsSend' PROVE lsSend'[n].n = Len(wire) + 0 + n
  <2>1. n \in 1 .. 1 + Len(lsSend)
    BY <1>8, LenProperties
  <2>2. CASE n = 1
    <3>1. lsSend'[n] = k
      BY <1>7, <1>8, <2>1, <2>2
    <3> QED BY <1>2, <2>2, <3>1
  <2>3. CASE n # 1
    <3>1. n - 1 \in 1 .. Len(lsSend) /\ ~(n <= 1)
      BY <1>2, <2>1, <2>3, SMTT(60)
    <3>2. lsSend'[n] = lsSend[n - 1]
      BY <1>8, <2>1, <3>1
    <3>3. lsSend'[n].n = Len(wire) + 1 + (n - 1)
      BY <1>2, <3>1, <3>2
    <3>4. Len(wire) + 1 + (n - 1) = Len(wire) + 0 + n
      BY <1>2, <2>1
    <3> QED BY <3>3, <3>4
  <2> QED BY <2>2, <2>3
<1>11. ClientOrder'
  <2>1. \A n \in DOMAIN wire' : wire'[n] = n /\ n <= Len(packets')
    <3>1. DOMAIN wire' = 1 .. Len(wire)
      BY <1>1, <1>2
    <3>2. Len(wire) + 1 <= Len(packets)
      BY <1>2, ClientSums
    <3>3. \A n \in 1 .. Len(wire) : n <= Len(packets)
      BY <1>2, <3>2
    <3> QED BY <1>1, <1>2, <3>1, <3>3
  <2>2. /\ Len(wire') + Held' + Len(lsSend') = Len(packets')
        /\ \A n \in DOMAIN lsSend' : lsSend'[n].n = Len(wire') + Held' + n
    BY <1>1, <1>5, <1>9, <1>10
  <2>3. /\ \A n \in DOMAIN packets' : packets'[n] = n
        /\ th'[W].item = C!NoPacket /\ ~(Held' = 1)
    BY <1>1, <1>2, <1>4, <1>5 DEF m
  <2> QED BY <2>1, <2>2, <2>3 DEF ClientOrder
<1> QED BY <1>1, <1>2, <1>3, <1>4, <1>8, <1>11, ClientWrites
-----------------------------------------------------------------------------
(* Its way out, and Stop().                                                *)

\* Who starts is alone, and is told nothing.
LEMMA ClientAlone ==
  ASSUME ClientInv, NEW a \in Callers, C!Starting(a)
  PROVE  /\ C!HasStarted /\ state # "STOPPED" /\ (connected <=> state = "STARTED")
         /\ th[W].pc = "idle" /\ ~running /\ wire = <<>> /\ Present
         /\ \A t \in C!Threads : ~Ending(t) /\ (Busy(t) => t = a)
         /\ \A u \in Callers : C!Starting(u) => u = a
         /\ ~Told /\ "stop" \notin ev /\ fails <= Attempts
         /\ th[W].item = C!NoPacket /\ Held = 0
<1>1. a \in C!Threads /\ Busy(a) /\ \A t \in C!Threads : Busy(t) => t = a
  BY ClientNames DEF Busy, ClientInv, ClientCalm
<1>2. \A t \in C!Threads : ~Ending(t)
  BY <1>1 DEF Busy, Ending, C!Starting
<1>3. \A u \in Callers : C!Starting(u) => u = a
  BY <1>1, ClientNames DEF Busy
<1>4. /\ C!HasStarted /\ (connected <=> state = "STARTED")
      /\ th[W].pc = "idle" /\ ~running /\ wire = <<>> /\ state # "STOPPED"
  BY DEF ClientInv, ClientStart, C!HasStarted
<1>5. Present
  BY <1>2, <1>4 DEF Present, Ending
<1>6. ~Told
  BY <1>2, ClientNames DEF Told, Ending
<1>7. "stop" \notin ev
  BY <1>6 DEF ClientInv, ClientWorker
<1>8. fails <= Attempts
  BY DEF ClientInv, ClientFails
<1>9. th[W].item = C!NoPacket /\ Held = 0
  BY <1>4 DEF ClientInv, ClientOrder, Held
<1> QED BY <1>1, <1>2, <1>3, <1>4, <1>5, <1>6, <1>7, <1>8, <1>9

\* The worker leaves, to stop the client itself or not: then someone else does.
LEMMA ClientLeaves ==
  ASSUME ClientInv, th[W].pc \in {"exit", "stop"}, NEW k \in ClientTh,
         th' = [th EXCEPT ![W] = k], k.pc \in {"stop", "idle"}, k.todo = <<>>, k.call,
         k.item = C!NoPacket,
         k.pc = "idle" => \E t \in C!Threads : t # W /\ Busy(t),
         UNCHANGED <<state, C!conn, sock, budget, C!hist>>
  PROVE  ClientInv'
<1>1. /\ ClientTypes /\ W \in C!Threads
      /\ UNCHANGED <<state, connected, paused, lsSend, ev, armed, ctx, running, fails, sock,
                     budget, events, packets, wire>>
  BY ClientNames DEF ClientInv, C!conn, C!hist
<1>2. /\ th' \in [C!Threads -> ClientTh] /\ th'[W] = k
      /\ \A u \in C!Threads : u # W => th'[u] = th[u]
      /\ th'[W].pc \in WorkerPc /\ \A a \in Callers : th'[a].pc \in ClientPc
  BY <1>1, ClientPuts, ClientNames DEF WorkerPc
<1>3. \A a \in Callers : th'[a] = th[a]
  BY <1>2, ClientNames
<1>4. \A a \in Callers : ~C!Starting(a) /\ (C!Starting(a)' <=> C!Starting(a))
  BY <1>3 DEF ClientInv, ClientStart, C!Starting
<1>5. \A t \in C!Threads : (Busy(t)' <=> Busy(t)) /\ (Ending(t)' <=> Ending(t))
                             /\ (th'[t].pc = "reset" <=> th[t].pc = "reset")
  <2>1. \A a \in Callers : (Busy(a)' <=> Busy(a)) /\ (Ending(a)' <=> Ending(a))
                             /\ (th'[a].pc = "reset" <=> th[a].pc = "reset")
    BY <1>3 DEF Busy, Ending, C!Starting
  <2>2. ~Busy(W)' /\ ~Busy(W) /\ ~Ending(W)' /\ ~Ending(W) /\ th'[W].pc # "reset"
    BY <1>2, ClientNames DEF Busy, Ending
  <2> QED BY <2>1, <2>2, ClientNames
<1>6. (Present' <=> Present) /\ (Told' <=> Told) /\ state # "STOPPED"
  BY <1>1, <1>3, <1>5 DEF Present, Told, ClientInv, ClientCalm
<1>7. ClientTypes'
  BY <1>1, <1>2 DEF ClientTypes
<1>8. ClientCalm'
  <2>1. (\A t \in C!Threads : ~Busy(t)) => k.pc # "idle"
    OBVIOUS
  <2> QED BY <1>1, <1>2, <1>5, <1>6, <2>1 DEF ClientInv, ClientCalm
<1>9. ASSUME NEW a \in Callers PROVE ClientStart(a)'
  BY <1>4, <1>9 DEF ClientStart, C!Starting
<1>10. ASSUME NEW t \in C!Threads PROVE ClientStop(t)'
  <2>1. CASE t = W
    BY <1>2, <2>1 DEF ClientStop, Ending
  <2>2. CASE t \in Callers
    BY <1>1, <1>2, <1>3, <2>2 DEF ClientInv, ClientStop, Ending
  <2> QED BY <2>1, <2>2, ClientNames
<1>11. ClientWorker'
  <2>1. running /\ k.todo \in Seq({"net", "send", "recv"})
    BY DEF ClientInv, ClientWorker
  <2> QED BY <1>1, <1>2, <1>6, <2>1 DEF ClientInv, ClientWorker
<1>12. ClientHeard'
  BY <1>1, <1>2, <1>3, <1>6 DEF ClientInv, ClientHeard, Going
<1>13. ClientArmed'
  <2>1. \A a \in Callers : th'[a].pc # "thread"
    BY <1>4 DEF C!Starting
  <2> QED BY <1>2, <2>1 DEF ClientArmed
<1>14. ClientNet'
  <2>1. k.todo \in Seq({"net", "send", "stop"})
    OBVIOUS
  <2> QED BY <1>1, <1>2, <1>3, <1>4, <2>1 DEF ClientInv, ClientNet
<1>15. ClientOrder'
  <2>1. Held' = 0
    BY <1>2 DEF Held
  <2> QED BY <1>1, <1>2, <1>4, <1>6, <2>1 DEF ClientInv, ClientOrder, Going
<1>16. ClientFails'
  BY <1>1, <1>2, <1>4, <1>6 DEF ClientFails, Going
<1> QED BY <1>7, <1>8, <1>9, <1>10, <1>11, <1>12, <1>13, <1>14, <1>15, <1>16 DEF ClientInv

\* Where the worker may rest: somebody else stops the client.
LEMMA ClientOthers ==
  ASSUME ClientInv, th[W].pc \in {"exit", "stop"}, Told \/ ~C!HasStarted
  PROVE  \E t \in C!Threads : t # W /\ Busy(t)
<1>1. ~Busy(W) /\ W \in C!Threads
  BY ClientNames DEF Busy, Ending
<1>2. CASE Told
  BY <1>2, ClientNames DEF Told, Busy, Ending
<1>3. CASE ~C!HasStarted
  <2>1. state = "STOPPING"
    BY <1>3 DEF C!HasStarted, ClientInv, ClientTypes, ClientCalm
  <2> QED BY <1>1, <2>1 DEF ClientInv, ClientCalm
<1> QED BY <1>2, <1>3

LEMMA ClientExit ==
  ASSUME ClientInv, C!Exit
  PROVE  ClientInv'
<1> DEFINE k == [C!Idle EXCEPT !.pc = "stop"]
<1>1. /\ th[W].pc = "exit" /\ UNCHANGED <<state, C!conn, sock, budget, C!hist>>
      /\ th' = [th EXCEPT ![W] = IF th[W].call /\ C!HasStarted THEN k ELSE C!Idle]
  BY DEF C!Exit, C!At
<1>2. /\ k \in ClientTh /\ k.pc = "stop" /\ k.todo = <<>> /\ k.call /\ k.item = C!NoPacket
  BY ClientRests DEF C!Idle, ClientTh, WorkerPc
<1>3. /\ C!Idle \in ClientTh /\ C!Idle.pc = "idle" /\ C!Idle.todo = <<>> /\ C!Idle.call
      /\ C!Idle.item = C!NoPacket
  BY ClientRests
<1> HIDE DEF k
<1>4. CASE th[W].call /\ C!HasStarted
  <2>1. th' = [th EXCEPT ![W] = k]
    BY <1>1, <1>4
  <2> QED BY <1>1, <1>2, <2>1, ClientLeaves
<1>5. CASE ~(th[W].call /\ C!HasStarted)
  <2>1. th' = [th EXCEPT ![W] = C!Idle]
    BY <1>1, <1>5
  <2>2. Told \/ ~C!HasStarted
    BY <1>5 DEF ClientInv, ClientWorker
  <2>3. \E t \in C!Threads : t # W /\ Busy(t)
    BY <1>1, <2>2, ClientOthers
  <2> QED BY <1>1, <1>3, <2>1, <2>3, ClientLeaves
<1> QED BY <1>4, <1>5
-----------------------------------------------------------------------------
(* Start().                                                                *)

\* It goes on to p, having told the listener or not.
LEMMA ClientReadies ==
  ASSUME ClientInv, NEW a \in Callers, C!Starting(a),
         NEW p \in {"prepare", "connect", "on_connect", "thread", "failed", "stop"},
         C!Goto(a, p),
         UNCHANGED <<lsSend, packets, wire, paused, ev, running, fails>>,
         \/ UNCHANGED <<state, connected>>
         \/ connected' = TRUE /\ state' = "STARTED",
         sock' \in ClientSock, armed' \subseteq {"in", "out"},
         ctx' \in [fire : BOOLEAN, notify : BOOLEAN],
         budget' = budget \/ \E e \in C!Events : C!Spend(e),
         p \in {"prepare", "connect"} => ~connected',
         p = "on_connect" => connected' /\ Opening(events'),
         p = "stop" => ~ctx'.fire,
         p = "thread" => connected' \/ th[a].async,
         events' \in Seq(Notices), ~connected' => events' = <<>>,
         connected' /\ p # "on_connect" =>
           Lives(events') \/ (Refused(events') /\ p \in {"failed", "stop"}),
         connected' /\ p = "thread" => armed' = C!Wanted
  PROVE  ClientInv'
<1>1. /\ C!HasStarted /\ state # "STOPPED" /\ (connected <=> state = "STARTED")
      /\ th[W].pc = "idle" /\ ~running /\ wire = <<>> /\ Present
      /\ \A t \in C!Threads : ~Ending(t) /\ (Busy(t) => t = a)
      /\ \A u \in Callers : C!Starting(u) => u = a
      /\ ~Told /\ "stop" \notin ev /\ fails <= Attempts
      /\ th[W].item = C!NoPacket /\ Held = 0
  BY ClientAlone
<1>2. ClientTypes /\ W \in C!Threads /\ a \in C!Threads /\ a # W
  BY ClientNames DEF ClientInv
<1>3. /\ th' \in [C!Threads -> ClientTh]
      /\ th'[a].pc = p /\ th'[a].async = th[a].async
      /\ \A u \in C!Threads : u # a => th'[u] = th[u]
      /\ th'[W].pc \in WorkerPc /\ \A u \in Callers : th'[u].pc \in ClientPc
  <2>1. p \in ClientPc /\ (a = W => p \in WorkerPc)
    BY <1>2 DEF ClientPc
  <2> QED BY <1>2, <2>1, ClientGoes
<1>4. th'[W] = th[W] /\ \A u \in Callers : u # a => th'[u] = th[u] /\ ~C!Starting(u)
  BY <1>1, <1>2, <1>3, ClientNames
<1>5. /\ C!HasStarted' /\ state' \in {"STARTING", "STARTED"} /\ connected' \in BOOLEAN
      /\ (connected' <=> state' = "STARTED") /\ (connected => connected')
  <2>1. connected \in BOOLEAN /\ state \in {"STARTING", "STARTED"}
    BY <1>1, <1>2 DEF C!HasStarted, ClientTypes
  <2>2. CASE UNCHANGED <<state, connected>>
    BY <1>1, <2>1, <2>2 DEF C!HasStarted
  <2>3. CASE connected' = TRUE /\ state' = "STARTED"
    BY <2>3 DEF C!HasStarted
  <2> QED BY <2>2, <2>3
<1>6. \A u \in Callers : /\ C!Starting(u)' <=> u = a
                         /\ u # a => th'[u].pc \notin {"prepare", "connect", "on_connect",
                                                       "thread", "failed", "stop"}
  BY <1>3, <1>4 DEF C!Starting
<1>7. \A t \in C!Threads : ~Ending(t)' /\ (Busy(t)' <=> t = a) /\ th'[t].pc # "reset"
  <2>1. ~Ending(a)' /\ Busy(a)' /\ th'[a].pc # "reset"
    BY <1>2, <1>3, <1>6 DEF Ending, Busy
  <2>2. ~Ending(W)' /\ ~Busy(W)' /\ th'[W].pc # "reset"
    BY <1>1, <1>2, <1>4, ClientNames DEF Ending, Busy
  <2>3. ASSUME NEW u \in Callers, u # a PROVE ~Ending(u)' /\ ~Busy(u)' /\ th'[u].pc # "reset"
    BY <1>1, <1>2, <1>4, <1>6, <2>3, ClientNames DEF Ending, Busy
  <2> QED BY <1>2, <2>1, <2>2, <2>3, ClientNames
<1>8. Present' /\ ~Told'
  BY <1>5, <1>7, ClientNames DEF Present, Told, Ending
<1>9. /\ budget' \in [C!Events -> Nat] /\ \A d \in C!Events : budget[d] = 0 => budget'[d] = 0
      /\ {"early", "async", "pause"} \subseteq C!Events
  BY <1>2, ClientSpends DEF ClientTypes, C!Events
<1>10. ClientTypes'
  BY <1>2, <1>3, <1>5, <1>9 DEF ClientTypes
<1>11. ClientCalm'
  <2>1. ~connected' => lsSend' = <<>> /\ packets' = <<>>
    BY <1>1, <1>5 DEF ClientInv, ClientCalm
  <2> QED BY <1>2, <1>5, <1>7, <2>1 DEF ClientCalm
<1>12. ASSUME NEW u \in Callers PROVE ClientStart(u)'
  BY <1>1, <1>3, <1>4, <1>5, <1>6, <1>12 DEF ClientStart
<1>13. \A t \in C!Threads : ClientStop(t)'
  BY <1>7 DEF ClientStop, Ending
<1>14. ClientWorker'
  BY <1>1, <1>4 DEF ClientInv, ClientWorker
<1>15. ClientHeard'
  <2>1. CASE ~connected'
    BY <1>8, <2>1 DEF ClientHeard
  <2>2. CASE connected' /\ p = "on_connect"
    BY <1>3, <1>8, <2>2 DEF ClientHeard
  <2>3. CASE connected' /\ p # "on_connect"
    <3>1. th'[W].pc # "on_connect" /\ \A u \in Callers : th'[u].pc # "on_connect"
      BY <1>1, <1>3, <1>4, <1>6, <2>3
    <3>2. Refused(events') /\ ~Lives(events') =>
            /\ th'[W].pc \notin Going /\ \A u \in Callers : th'[u].pc # "thread"
            /\ ~ctx'.fire \/ \E u \in Callers : th'[u].pc = "failed"
      BY <1>1, <1>3, <1>4, <1>6, <2>3 DEF Going
    <3> QED BY <1>8, <2>3, <3>1, <3>2 DEF ClientHeard
  <2> QED BY <1>5, <2>1, <2>2, <2>3
<1>16. ClientArmed'
  <2> SUFFICES ASSUME connected', p = "thread" PROVE ClientArmed'
    BY <1>1, <1>3, <1>4, <1>6 DEF ClientArmed
  <2>1. (lsSend # <<>> => "out" \in armed') /\ (~paused => "in" \in armed')
    BY DEF C!Wanted
  <2> QED BY <2>1 DEF ClientArmed
<1>17. ClientNet'
  <2>1. th'[W].pc = "idle" /\ th'[W].todo = th[W].todo
    BY <1>1, <1>4
  <2>2. CASE /\ budget["async"] = 0
             /\ \A u \in Callers : /\ C!Starting(u) => ~th[u].async
                                   /\ th[u].pc = "thread" => connected
    <3>1. budget'["async"] = 0 /\ ~th'[a].async
      BY <1>3, <1>9, <2>2
    <3>2. \A u \in Callers : /\ C!Starting(u)' => ~th'[u].async
                             /\ th'[u].pc = "thread" => connected'
      BY <1>3, <1>6, <2>2, <3>1
    <3> QED BY <2>1, <3>1, <3>2 DEF ClientNet
  <2>3. CASE /\ budget["pause"] = 0 /\ "recv" \notin ev
             /\ \A u \in Callers : th[u].pc # "resume"
             /\ th[W].todo \in Seq({"net", "send", "stop"})
    <3>1. \A u \in Callers : th'[u].pc # "resume"
      BY <1>3, <1>4, <2>3
    <3>2. budget'["pause"] = 0
      BY <1>9, <2>3
    <3> QED BY <2>1, <2>3, <3>1, <3>2 DEF ClientNet
  <2> QED BY <2>2, <2>3 DEF ClientInv, ClientNet
<1>18. ClientOrder'
  <2>1. Held' = Held
    BY <1>4 DEF Held
  <2> QED BY <1>1, <1>4, <2>1 DEF ClientInv, ClientOrder
<1>19. ClientFails'
  BY <1>1 DEF ClientFails
<1> QED BY <1>10, <1>11, <1>12, <1>13, <1>14, <1>15, <1>16, <1>17, <1>18, <1>19 DEF ClientInv
\* What was heard before a step of Start().
LEMMA ClientKnows ==
  ASSUME ClientInv, NEW a \in Callers, C!Starting(a)
  PROVE  /\ events \in Seq(Notices) /\ (~connected => events = <<>>)
         /\ th[a].pc \in {"prepare", "connect"} => ~connected
         /\ th[a].pc = "on_connect" => connected /\ Opening(events)
         /\ connected /\ th[a].pc = "thread" => Lives(events)
         /\ connected /\ th[a].pc \in {"thread", "failed"} => Lives(events) \/ Refused(events)
         /\ sock \in ClientSock /\ armed \subseteq {"in", "out"}
         /\ ctx \in [fire : BOOLEAN, notify : BOOLEAN] /\ "error" \in C!Events
         /\ "refuse" \in C!Events /\ connected \in BOOLEAN
<1>1. /\ events \in Seq(Notices) /\ sock \in ClientSock /\ armed \subseteq {"in", "out"}
      /\ ctx \in [fire : BOOLEAN, notify : BOOLEAN] /\ {"error", "refuse"} \subseteq C!Events
      /\ connected \in BOOLEAN
  BY DEF ClientInv, ClientTypes, C!Events
<1>2. /\ Present /\ th[W].pc = "idle" /\ \A u \in Callers : C!Starting(u) => u = a
  BY ClientAlone
<1>3. /\ th[a].pc \in {"prepare", "connect"} => ~connected
      /\ th[a].pc = "on_connect" => connected
  BY DEF ClientInv, ClientStart
<1>4. \A u \in Callers : th[u].pc = "on_connect" => u = a
  BY <1>2 DEF C!Starting
<1> QED BY <1>1, <1>2, <1>3, <1>4 DEF ClientInv, ClientHeard

LEMMA ClientPrepares ==
  ASSUME ClientInv, NEW a \in Callers, C!Prepare(a) \/ C!ConnectAsync(a) \/ C!StartFailed(a)
  PROVE  ClientInv'
<1>1. C!Starting(a)
  BY DEF C!Prepare, C!ConnectAsync, C!StartFailed, C!At, C!Starting
<1>2. /\ events \in Seq(Notices) /\ (~connected => events = <<>>)
      /\ th[a].pc \in {"prepare", "connect"} => ~connected
      /\ connected /\ th[a].pc \in {"thread", "failed"} => Lives(events) \/ Refused(events)
      /\ sock \in ClientSock /\ armed \subseteq {"in", "out"}
      /\ ctx \in [fire : BOOLEAN, notify : BOOLEAN] /\ "error" \in C!Events
      /\ connected \in BOOLEAN
  BY <1>1, ClientKnows
<1>3. CASE C!Prepare(a)
  <2>1. /\ th[a].pc = "prepare" /\ UNCHANGED <<lsSend, packets, wire, paused, ev, running, fails>>
        /\ UNCHANGED <<state, connected, armed, ctx, events>>
        /\ \/ sock' = [st |-> "new", in |-> <<>>, full |-> FALSE] /\ C!Goto(a, "connect")
              /\ budget' = budget
           \/ C!Spend("error") /\ C!Goto(a, "failed") /\ sock' = sock
    BY <1>3 DEF C!Prepare, C!At, C!conn, C!hist
  <2>2. [st |-> "new", in |-> <<>>, full |-> FALSE] \in ClientSock
    BY DEF ClientSock
  <2>3. PICK p \in {"connect", "failed"} : C!Goto(a, p)
    BY <2>1
  <2>4. sock' \in ClientSock /\ (budget' = budget \/ \E e \in C!Events : C!Spend(e))
    BY <1>2, <2>1, <2>2
  <2>5. ~connected /\ events = <<>>
    BY <1>2, <2>1
  <2> QED BY <1>1, <1>2, <2>1, <2>3, <2>4, <2>5, ClientReadies
<1>4. CASE C!ConnectAsync(a)
  <2> DEFINE p == IF sock.st = "new" THEN "thread" ELSE "failed"
  <2>1. /\ th[a].pc = "connect" /\ UNCHANGED <<lsSend, packets, wire, paused, ev, running, fails>>
        /\ UNCHANGED <<state, connected, ctx, events, budget>> /\ armed' = {"out"}
        /\ C!Goto(a, p) /\ p \in {"thread", "failed"} /\ th[a].async
        /\ sock' = sock \/ sock' = [sock EXCEPT !.st = "connecting"]
    BY <1>4 DEF C!ConnectAsync, C!At, C!hist
  <2> HIDE DEF p
  <2>2. sock' \in ClientSock
    BY <1>2, <2>1 DEF ClientSock
  <2>3. ~connected /\ events = <<>>
    BY <1>2, <2>1
  <2> QED BY <1>1, <1>2, <2>1, <2>2, <2>3, ClientReadies
<1>5. CASE C!StartFailed(a)
  <2>1. /\ th[a].pc = "failed" /\ UNCHANGED <<lsSend, packets, wire, paused, ev, running, fails>>
        /\ UNCHANGED <<state, connected, armed, sock, events, budget>>
        /\ C!Goto(a, "stop") /\ ctx' = [ctx EXCEPT !.fire = FALSE]
    BY <1>5 DEF C!StartFailed, C!At, C!hist
  <2>2. ctx' \in [fire : BOOLEAN, notify : BOOLEAN] /\ ~ctx'.fire
    BY <1>2, <2>1
  <2> QED BY <1>1, <1>2, <2>1, <2>2, ClientReadies
<1> QED BY <1>3, <1>4, <1>5

LEMMA ClientConnectSync ==
  ASSUME ClientInv, NEW a \in Callers, C!ConnectSync(a)
  PROVE  ClientInv'
<1>1. C!Starting(a) /\ th[a].pc = "connect"
  BY DEF C!ConnectSync, C!At, C!Starting
<1>2. /\ events = <<>> /\ ~connected /\ sock \in ClientSock /\ armed \subseteq {"in", "out"}
      /\ ctx \in [fire : BOOLEAN, notify : BOOLEAN] /\ "error" \in C!Events
      /\ UNCHANGED <<paused, lsSend, ev, armed, ctx, running, fails, packets, wire>>
  BY <1>1, ClientKnows DEF C!ConnectSync
<1>3. ASSUME sock' = [sock EXCEPT !.st = "open"], connected' = TRUE, state' = "STARTED",
             events' = Append(events, "connect"), C!Goto(a, "on_connect"), budget' = budget
      PROVE  ClientInv'
  <2>1. sock' \in ClientSock
    BY <1>2, <1>3 DEF ClientSock
  <2>2. events' \in Seq(Notices) /\ Opening(events')
    <3>1. <<>> \in Seq(Notices)
      OBVIOUS
    <3> QED BY <1>2, <1>3, <3>1, Hears DEF Notices
  <2> QED BY <1>1, <1>2, <1>3, <2>1, <2>2, ClientReadies
<1>4. ASSUME budget' = budget \/ C!Spend("error"), C!Goto(a, "failed"),
             UNCHANGED <<sock, connected, state, events>>
      PROVE  ClientInv'
  <2>1. <<>> \in Seq(Notices)
    OBVIOUS
  <2> QED BY <1>1, <1>2, <1>4, <2>1, ClientReadies
<1> QED BY <1>3, <1>4 DEF C!ConnectSync, C!SetConnected, C!Fire

LEMMA ClientOnConnectSync ==
  ASSUME ClientInv, NEW a \in Callers, C!OnConnectSync(a)
  PROVE  ClientInv'
<1>1. C!Starting(a) /\ th[a].pc = "on_connect"
  BY DEF C!OnConnectSync, C!At, C!Starting
<1>2. /\ events \in Seq(Notices) /\ connected /\ Opening(events)
      /\ sock \in ClientSock /\ armed \subseteq {"in", "out"}
      /\ ctx \in [fire : BOOLEAN, notify : BOOLEAN] /\ "refuse" \in C!Events
      /\ UNCHANGED <<state, connected, paused, lsSend, ev, ctx, running, fails,
                     sock, packets, wire>>
  BY <1>1, ClientKnows DEF C!OnConnectSync
<1>3. /\ Append(events, "connected") \in Seq(Notices) /\ Lives(Append(events, "connected"))
      /\ Append(events, "refused") \in Seq(Notices) /\ Refused(Append(events, "refused"))
  BY <1>2, Hears DEF Notices
<1>4. ASSUME armed' = C!Wanted, C!Goto(a, "thread"), events' = Append(events, "connected"),
             budget' = budget
      PROVE  ClientInv'
  <2>1. armed' \subseteq {"in", "out"}
    BY <1>4 DEF C!Wanted
  <2>2. events' \in Seq(Notices) /\ Lives(events')
    BY <1>3, <1>4
  <2> QED BY <1>1, <1>2, <1>4, <2>1, <2>2, ClientReadies
<1>5. ASSUME C!Spend("refuse"), C!Goto(a, "failed"), events' = Append(events, "refused"),
             armed' = armed
      PROVE  ClientInv'
  <2>1. events' \in Seq(Notices) /\ Refused(events')
    BY <1>3, <1>5
  <2> QED BY <1>1, <1>2, <1>5, <2>1, ClientReadies
<1> QED BY <1>4, <1>5 DEF C!OnConnectSync, C!Fire

LEMMA ClientCreateWorker ==
  ASSUME ClientInv, NEW a \in Callers, C!CreateWorkerThread(a)
  PROVE  ClientInv'
<1> DEFINE k == [C!Idle EXCEPT !.pc = "loop"]
<1>1. C!Starting(a) /\ th[a].pc = "thread"
  BY DEF C!CreateWorkerThread, C!At, C!Starting
<1>2. /\ C!HasStarted /\ state # "STOPPED" /\ (connected <=> state = "STARTED")
      /\ th[W].pc = "idle" /\ ~running /\ wire = <<>> /\ Present
      /\ \A t \in C!Threads : ~Ending(t) /\ (Busy(t) => t = a)
      /\ \A u \in Callers : C!Starting(u) => u = a
      /\ ~Told /\ "stop" \notin ev /\ fails <= Attempts
      /\ th[W].item = C!NoPacket /\ Held = 0
  BY <1>1, ClientAlone
<1>3. /\ running' = TRUE /\ th' = [th EXCEPT ![a] = C!Idle, ![W] = k]
      /\ UNCHANGED <<state, connected, paused, lsSend, ev, armed, ctx, fails, sock, budget,
                     events, packets, wire>>
  BY <1>2 DEF C!CreateWorkerThread, C!hist
<1>4. /\ k \in ClientTh /\ k.pc = "loop" /\ k.todo = <<>> /\ k.call /\ k.item = C!NoPacket
  BY ClientRests DEF C!Idle, ClientTh, WorkerPc, Going
<1>5. /\ C!Idle \in ClientTh /\ C!Idle.pc = "idle" /\ "idle" \in ClientPc /\ "loop" \in WorkerPc
  BY ClientRests DEF ClientPc, WorkerPc, Going
<1>6. ClientTypes /\ W \in C!Threads /\ a \in C!Threads /\ a # W
  BY ClientNames DEF ClientInv
<1> HIDE DEF k
<1>7. /\ th' \in [C!Threads -> ClientTh] /\ th'[W] = k /\ th'[a].pc = "idle"
      /\ \A u \in Callers : u # a => th'[u] = th[u]
      /\ \A u \in Callers : th'[u].pc \in ClientPc
  <2>1. th \in [C!Threads -> ClientTh] /\ \A u \in Callers : th[u].pc \in ClientPc
    BY <1>6 DEF ClientTypes
  <2>2. th' \in [C!Threads -> ClientTh]
    BY <1>3, <1>4, <1>5, <1>6, <2>1
  <2>3. th'[W] = k /\ th'[a] = C!Idle
    BY <1>3, <1>6, <2>1
  <2>4. \A u \in Callers : u # a => th'[u] = th[u]
    BY <1>3, <2>1, ClientNames
  <2> QED BY <1>5, <2>1, <2>2, <2>3, <2>4
<1>8. \A u \in Callers : ~C!Starting(u)' /\ th'[u].pc # "thread"
  BY <1>2, <1>7 DEF C!Starting
<1>9. \A t \in C!Threads : ~Busy(t)' /\ ~Ending(t)' /\ th'[t].pc # "reset"
  <2>1. ~Ending(W)' /\ ~Busy(W)' /\ th'[W].pc # "reset"
    BY <1>4, <1>6, <1>7, ClientNames DEF Ending, Busy
  <2>2. ASSUME NEW u \in Callers PROVE ~Ending(u)' /\ ~Busy(u)' /\ th'[u].pc # "reset"
    <3>1. u \in C!Threads /\ u # W
      BY ClientNames
    <3>2. ~Ending(u)' /\ th'[u].pc # "reset"
      BY <1>2, <1>7, <3>1 DEF Ending
    <3> QED BY <1>8, <3>1, <3>2 DEF Busy
  <2> QED BY <2>1, <2>2, ClientNames
<1>10. Present' /\ ~Told'
  BY <1>2, <1>3, <1>9, ClientNames DEF Present, Told, Ending
<1>11. ClientTypes'
  BY <1>3, <1>4, <1>5, <1>6, <1>7 DEF ClientTypes
<1>12. ClientCalm'
  <2>1. ~connected => lsSend = <<>> /\ packets = <<>>
    BY <1>2 DEF ClientInv, ClientCalm
  <2> QED BY <1>2, <1>3, <1>4, <1>7, <1>9, <2>1 DEF ClientCalm, C!HasStarted
<1>13. \A u \in Callers : ClientStart(u)'
  BY <1>8 DEF ClientStart, C!Starting
<1>14. \A t \in C!Threads : ClientStop(t)'
  BY <1>9 DEF ClientStop, Ending
<1>15. ClientWorker'
  <2>1. k.todo \in Seq({"net", "send", "recv"})
    BY <1>4
  <2> QED BY <1>2, <1>3, <1>4, <1>7, <2>1 DEF ClientWorker
<1>16. ClientHeard'
  <2>1. /\ events \in Seq(Notices) /\ (~connected => events = <<>>)
        /\ connected => Lives(events)
    BY <1>1, ClientKnows
  <2>2. th'[W].pc # "on_connect" /\ \A u \in Callers : th'[u].pc # "on_connect"
    BY <1>4, <1>7, <1>8 DEF C!Starting
  <2> QED BY <1>3, <1>10, <2>1, <2>2 DEF ClientHeard
<1>17. ClientArmed'
  <2> SUFFICES ASSUME connected PROVE ClientArmed'
    BY <1>3 DEF ClientArmed
  <2>1. /\ lsSend # <<>> => "out" \in armed \/ "send" \in ev
                              \/ \E u \in Callers : th[u].pc = "signal"
        /\ ~paused => "in" \in armed \/ "recv" \in ev \/ \E u \in Callers : th[u].pc = "resume"
    BY <1>1 DEF ClientInv, ClientArmed
  <2>2. \A u \in Callers : /\ th[u].pc = "signal" => th'[u].pc = "signal"
                           /\ th[u].pc = "resume" => th'[u].pc = "resume"
    BY <1>1, <1>7
  <2> QED BY <1>3, <2>1, <2>2 DEF ClientArmed
<1>18. ClientNet'
  <2>1. th'[W].pc = "loop" /\ th'[W].todo \in Seq({"net", "send", "stop"})
    <3>1. k.todo \in Seq({"net", "send", "stop"})
      BY <1>4
    <3> QED BY <1>4, <1>7, <3>1
  <2>2. CASE /\ budget["async"] = 0
             /\ \A u \in Callers : /\ C!Starting(u) => ~th[u].async
                                   /\ th[u].pc = "thread" => connected
    BY <1>1, <1>3, <1>8, <2>1, <2>2 DEF ClientNet
  <2>3. CASE /\ budget["pause"] = 0 /\ "recv" \notin ev
             /\ \A u \in Callers : th[u].pc # "resume"
    <3>1. \A u \in Callers : th'[u].pc # "resume"
      BY <1>7, <2>3
    <3> QED BY <1>3, <2>1, <2>3, <3>1 DEF ClientNet
  <2> QED BY <2>2, <2>3 DEF ClientInv, ClientNet
<1>19. ClientOrder'
  <2>1. Held' = 0 /\ th'[W].item = C!NoPacket
    BY <1>4, <1>7 DEF Held
  <2>2. /\ \A n \in DOMAIN packets : packets[n] = n
        /\ Len(wire) + Held + Len(lsSend) = Len(packets)
        /\ \A n \in DOMAIN lsSend : lsSend[n].n = Len(wire) + Held + n
    BY <1>1 DEF ClientInv, ClientOrder
  <2>3. DOMAIN wire' = {}
    BY <1>2, <1>3
  <2>4. /\ Len(wire') + Held' + Len(lsSend') = Len(packets')
        /\ \A n \in DOMAIN lsSend' : lsSend'[n].n = Len(wire') + Held' + n
        /\ ~(Held' = 1) /\ \A n \in DOMAIN packets' : packets'[n] = n
    BY <1>2, <1>3, <2>1, <2>2
  <2> QED BY <2>1, <2>3, <2>4 DEF ClientOrder
<1>20. ClientFails'
  BY <1>2, <1>3 DEF ClientFails
<1> QED BY <1>11, <1>12, <1>13, <1>14, <1>15, <1>16, <1>17, <1>18, <1>19, <1>20 DEF ClientInv

LEMMA ClientCheckStarting ==
  ASSUME ClientInv, NEW a \in Callers, NEW x \in BOOLEAN, C!CheckStarting(a, x)
  PROVE  ClientInv'
<1> DEFINE k == [C!Idle EXCEPT !.pc = "prepare", !.async = x]
<1>1. /\ state = "STOPPED" /\ state' = "STARTING" /\ C!Spend("start") /\ th[a].pc = "idle"
      /\ ctx' = [fire |-> TRUE, notify |-> TRUE]
      /\ th' = [th EXCEPT ![a] = k] /\ events' = <<>> /\ packets' = <<>> /\ wire' = <<>>
      /\ x => budget["async"] > 0
      /\ UNCHANGED <<connected, paused, lsSend, ev, armed, running, fails, sock>>
  BY DEF C!CheckStarting, C!At
<1>2. /\ k \in ClientTh /\ k.pc = "prepare" /\ (k.async <=> x)
      /\ "prepare" \in ClientPc
  BY ClientRests DEF C!Idle, ClientTh, ClientPc
<1>3. /\ ClientTypes /\ W \in C!Threads /\ a \in C!Threads /\ a # W
      /\ {"start", "early", "async", "pause"} \subseteq C!Events
  BY ClientNames DEF ClientInv, C!Events
<1>4. /\ \A t \in C!Threads : ~Busy(t) /\ ~Ending(t)
      /\ th[W].pc = "idle" /\ ~running /\ ~connected /\ lsSend = <<>>
      /\ fails <= Attempts
  BY <1>1 DEF ClientInv, ClientCalm, ClientFails, Busy
<1> HIDE DEF k
<1>5. /\ th' \in [C!Threads -> ClientTh] /\ th'[a] = k
      /\ \A u \in C!Threads : u # a => th'[u] = th[u]
      /\ th'[W].pc \in WorkerPc /\ \A u \in Callers : th'[u].pc \in ClientPc
  BY <1>1, <1>2, <1>3, ClientPuts
<1>6. th'[W] = th[W] /\ \A u \in Callers : u # a => th'[u] = th[u]
  BY <1>3, <1>5, ClientNames
<1>7. \A u \in Callers : ~C!Starting(u) /\ (C!Starting(u)' => u = a)
  <2>1. \A u \in Callers : ~C!Starting(u)
    BY <1>4, ClientNames DEF Busy
  <2> QED BY <1>6, <2>1 DEF C!Starting
<1>8. \A t \in C!Threads : ~Ending(t)' /\ (Busy(t)' <=> t = a) /\ th'[t].pc # "reset"
  <2>1. ~Ending(a)' /\ Busy(a)' /\ th'[a].pc # "reset"
    BY <1>2, <1>3, <1>5 DEF Ending, Busy, C!Starting
  <2>2. \A t \in C!Threads : t # a => ~Ending(t)' /\ th'[t].pc # "reset"
    BY <1>4, <1>5 DEF Ending
  <2>3. \A t \in C!Threads : t # a => ~Busy(t)'
    BY <1>7, <2>2 DEF Busy
  <2> QED BY <2>1, <2>2, <2>3
<1>9. Present' /\ ~Told' /\ ~Told
  BY <1>1, <1>4, <1>8, ClientNames DEF Present, Told, Ending
<1>10. budget' \in [C!Events -> Nat] /\ \A d \in C!Events : budget[d] = 0 => budget'[d] = 0
  BY <1>1, <1>3, ClientSpends
<1>11. ClientTypes'
  <2>1. <<>> \in Seq(Notices) /\ <<>> \in Seq(Nat)
    OBVIOUS
  <2> QED BY <1>1, <1>3, <1>5, <1>10, <2>1, ClientContext DEF ClientTypes
<1>12. ClientCalm'
  BY <1>1, <1>3, <1>4, <1>8 DEF ClientCalm
<1>13. ASSUME NEW u \in Callers PROVE ClientStart(u)'
  <2>1. CASE u = a
    BY <1>1, <1>2, <1>4, <1>5, <1>6, <2>1 DEF ClientStart, C!HasStarted
  <2>2. CASE u # a
    BY <1>7, <2>2 DEF ClientStart, C!Starting
  <2> QED BY <2>1, <2>2
<1>14. \A t \in C!Threads : ClientStop(t)'
  BY <1>8 DEF ClientStop, Ending
<1>15. ClientWorker'
  BY <1>1, <1>4, <1>6, <1>9 DEF ClientInv, ClientWorker
<1>16. ClientHeard'
  BY <1>1, <1>4, <1>9 DEF ClientHeard
<1>17. ClientArmed'
  BY <1>1, <1>4 DEF ClientArmed
<1>18. ClientNet'
  <2>1. th'[W].pc = "idle" /\ th'[W].todo = th[W].todo
    BY <1>4, <1>6
  <2>2. CASE budget["async"] = 0
    <3>1. budget'["async"] = 0 /\ ~k.async
      BY <1>1, <1>2, <1>3, <1>10, <2>2
    <3>2. \A u \in Callers : /\ C!Starting(u)' => ~th'[u].async
                             /\ th'[u].pc # "thread"
      <4>1. \A u \in Callers : u # a => th'[u].pc # "thread"
        BY <1>6, <1>7 DEF C!Starting
      <4> QED BY <1>2, <1>5, <1>7, <3>1, <4>1
    <3> QED BY <2>1, <3>1, <3>2 DEF ClientNet
  <2>3. CASE /\ budget["pause"] = 0 /\ "recv" \notin ev
             /\ \A u \in Callers : th[u].pc # "resume"
             /\ th[W].todo \in Seq({"net", "send", "stop"})
    <3>1. \A u \in Callers : th'[u].pc # "resume"
      BY <1>2, <1>5, <1>6, <2>3
    <3>2. budget'["pause"] = 0
      BY <1>3, <1>10, <2>3
    <3> QED BY <1>1, <2>1, <2>3, <3>1, <3>2 DEF ClientNet
  <2> QED BY <2>2, <2>3 DEF ClientInv, ClientNet
<1>19. ClientOrder'
  <2>1. Held' = 0 /\ th'[W].item = C!NoPacket
    BY <1>4, <1>6 DEF Held, ClientInv, ClientOrder
  <2>2. /\ DOMAIN wire' = {} /\ DOMAIN packets' = {} /\ DOMAIN lsSend' = {}
        /\ Len(wire') = 0 /\ Len(packets') = 0 /\ Len(lsSend') = 0
    BY <1>1, <1>4
  <2> QED BY <2>1, <2>2 DEF ClientOrder
<1>20. ClientFails'
  BY <1>1, <1>4 DEF ClientFails
<1> QED BY <1>11, <1>12, <1>13, <1>14, <1>15, <1>16, <1>17, <1>18, <1>19, <1>20 DEF ClientInv
-----------------------------------------------------------------------------
(* Stop().                                                                 *)

\* CheckStoping() lets t through.
LEMMA ClientPasses ==
  ASSUME ClientInv, NEW t \in C!Threads, C!HasStarted, state' = "STOPPING",
         C!Goto(t, "wait_worker"),
         th[t].pc = "stop" \/ /\ t # W /\ th[t].pc = "idle" /\ connected
                              /\ \A u \in Callers : ~C!Starting(u),
         UNCHANGED <<C!conn, sock, C!hist>>,
         budget' = budget \/ \E e \in C!Events : C!Spend(e)
  PROVE  ClientInv'
<1>1. /\ ClientTypes /\ W \in C!Threads /\ state \in {"STARTING", "STARTED"}
      /\ UNCHANGED <<connected, paused, lsSend, ev, armed, ctx, running, fails, sock,
                     events, packets, wire>>
  BY ClientNames DEF ClientInv, C!conn, C!hist, C!HasStarted
<1>2. /\ th' \in [C!Threads -> ClientTh]
      /\ th'[t].pc = "wait_worker" /\ th'[t].todo = th[t].todo /\ th'[t].async = th[t].async
      /\ th'[t].item = th[t].item /\ th'[t].call = th[t].call
      /\ \A u \in C!Threads : u # t => th'[u] = th[u]
      /\ th'[W].pc \in WorkerPc /\ \A a \in Callers : th'[a].pc \in ClientPc
  BY <1>1, ClientGoes DEF ClientPc, WorkerPc
<1>3. \A u \in C!Threads : ~Ending(u)
  BY <1>1 DEF ClientInv, ClientStop
<1>4. \A u \in Callers : C!Starting(u) => u = t
  <2>1. CASE t \in Callers /\ C!Starting(t)
    BY <2>1, ClientAlone
  <2>2. CASE t = W /\ th[t].pc = "stop"
    BY <2>2 DEF ClientInv, ClientStart
  <2> QED BY <2>1, <2>2, ClientNames DEF C!Starting
<1>5. \A u \in Callers : ~C!Starting(u)'
  <2>1. \A u \in Callers : u # t => ~C!Starting(u)'
    BY <1>2, <1>4, ClientNames DEF C!Starting
  <2>2. t \in Callers => ~C!Starting(t)'
    BY <1>2 DEF C!Starting
  <2> QED BY <2>1, <2>2
<1>6. \A u \in C!Threads : /\ Ending(u)' <=> u = t
                           /\ Busy(u)' <=> u = t
                           /\ th'[u].pc \notin {"join", "close", "reset"}
                           /\ th[u].pc \notin {"join", "close", "reset", "wait_worker"}
  <2>1. Ending(t)' /\ th'[t].pc \notin {"join", "close", "reset"}
    BY <1>2 DEF Ending
  <2>2. \A u \in C!Threads : u # t => ~Ending(u)' /\ th'[u].pc \notin {"join", "close", "reset"}
    BY <1>2, <1>3 DEF Ending
  <2> QED BY <1>3, <1>5, <2>1, <2>2 DEF Busy, Ending
<1>7. Present /\ Present' /\ ~Told /\ ~Told'
  BY <1>1, <1>6, ClientNames DEF Present, Told
<1>8. /\ budget' \in [C!Events -> Nat] /\ \A d \in C!Events : budget[d] = 0 => budget'[d] = 0
      /\ {"early", "async", "pause"} \subseteq C!Events
  BY <1>1, ClientSpends DEF ClientTypes, C!Events
<1>9. ClientTypes'
  BY <1>1, <1>2, <1>8 DEF ClientTypes
<1>10. ClientCalm'
  <2>1. ~connected => lsSend = <<>> /\ packets = <<>>
    BY <1>7 DEF ClientInv, ClientCalm
  <2> QED BY <1>1, <1>6, <2>1 DEF ClientCalm
<1>11. \A u \in Callers : ClientStart(u)'
  BY <1>5 DEF ClientStart, C!Starting
<1>12. t # W => th[W].pc = "idle" \/ (running /\ connected)
  <2>1. CASE t \in Callers /\ C!Starting(t)
    BY <2>1, ClientAlone
  <2>2. CASE connected
    BY <1>6, <2>2, ClientNames DEF ClientInv, ClientWorker
  <2> QED BY <2>1, <2>2, ClientNames DEF C!Starting
<1>13. \A u \in C!Threads : ClientStop(u)'
  <2>1. ASSUME NEW u \in C!Threads, u # t PROVE ClientStop(u)'
    BY <1>6, <2>1 DEF ClientStop, Ending
  <2>2. t # W => th'[W] = th[W]
    BY <1>1, <1>2
  <2>3. ClientStop(t)'
    BY <1>1, <1>2, <1>12, <2>2 DEF ClientStop
  <2> QED BY <2>1, <2>3
<1>14. /\ t # W => th'[W] = th[W]
       /\ t = W => th[W].pc = "stop"
       /\ th'[W].todo = th[W].todo /\ th'[W].call = th[W].call /\ th'[W].item = th[W].item
  BY <1>1, <1>2
<1>15. ClientWorker'
  BY <1>1, <1>2, <1>7, <1>14 DEF ClientInv, ClientWorker
<1>16. ClientHeard'
  <2>1. \A u \in Callers : /\ th[u].pc = "on_connect" => th'[u].pc = "on_connect"
                           /\ th'[u].pc = "on_connect" => th[u].pc = "on_connect"
                           /\ th'[u].pc = "thread" => th[u].pc = "thread"
                           /\ th[u].pc = "failed" => th'[u].pc = "failed"
    BY <1>2, ClientNames
  <2>2. /\ th'[W].pc = "on_connect" <=> th[W].pc = "on_connect"
        /\ th'[W].pc \in Going <=> th[W].pc \in Going
    BY <1>2, <1>14 DEF Going
  <2> QED BY <1>1, <1>7, <2>1, <2>2 DEF ClientInv, ClientHeard
<1>17. ClientArmed'
  <2>1. \A u \in Callers : th'[u].pc # "thread"
    BY <1>5 DEF C!Starting
  <2>2. \A u \in Callers : /\ th[u].pc = "signal" => th'[u].pc = "signal"
                           /\ th[u].pc = "resume" => th'[u].pc = "resume"
    BY <1>2, ClientNames
  <2> QED BY <1>1, <1>2, <1>14, <2>1, <2>2 DEF ClientInv, ClientArmed
<1>18. ClientNet'
  <2>1. /\ th'[W].pc \in {"on_connect", "read_net", "write_net", "send", "send_net", "back",
                          "back_net", "hup"} => connected
        /\ th'[W].pc \in {"idle", "reset"} \/ th[W].pc \notin {"idle", "reset"}
        /\ th'[W].pc = "read" => th[W].pc = "read"
    <3>1. CASE t = W
      BY <1>2, <1>14, <3>1
    <3>2. CASE t # W
      BY <1>14, <3>2 DEF ClientInv, ClientNet
    <3> QED BY <3>1, <3>2
  <2>2. CASE /\ budget["async"] = 0
             /\ th[W].pc \notin {"idle", "reset"} => connected
    <3>1. \A u \in Callers : ~C!Starting(u)' /\ th'[u].pc # "thread"
      BY <1>5 DEF C!Starting
    <3> QED BY <1>1, <1>8, <2>1, <2>2, <3>1 DEF ClientNet
  <2>3. CASE /\ budget["pause"] = 0 /\ "recv" \notin ev /\ th[W].pc # "read"
             /\ \A u \in Callers : th[u].pc # "resume"
             /\ th[W].todo \in Seq({"net", "send", "stop"})
    <3>1. \A u \in Callers : th'[u].pc # "resume"
      BY <1>2, <2>3, ClientNames
    <3> QED BY <1>1, <1>8, <1>14, <2>1, <2>3, <3>1 DEF ClientNet
  <2> QED BY <2>2, <2>3 DEF ClientInv, ClientNet
<1>19. ClientOrder'
  <2>1. Held' = Held
    BY <1>2, <1>14 DEF Held
  <2>2. /\ th'[W].pc \in Going => th[W].pc \in Going
        /\ th[W].pc # "exit"  \/ th'[W].pc = "exit"
    BY <1>2, <1>14 DEF Going
  <2> QED BY <1>1, <1>5, <1>7, <1>14, <2>1, <2>2 DEF ClientInv, ClientOrder
<1>20. ClientFails'
  <2>1. th'[W].pc \in Going => th[W].pc \in Going
    BY <1>2, <1>14 DEF Going
  <2> QED BY <1>1, <1>5, <2>1 DEF ClientInv, ClientFails
<1> QED BY <1>9, <1>10, <1>11, <1>13, <1>15, <1>16, <1>17, <1>18, <1>19, <1>20 DEF ClientInv

LEMMA ClientOwnStop ==
  ASSUME ClientInv, NEW t \in C!Threads, C!OwnStop(t)
  PROVE  ClientInv'
<1>1. th[t].pc = "stop" /\ C!CheckStoping(t) /\ UNCHANGED <<C!conn, sock, budget, C!hist>>
  BY DEF C!OwnStop, C!At
<1>2. CASE C!HasStarted
  <2>1. state' = "STOPPING" /\ C!Goto(t, "wait_worker")
    BY <1>1, <1>2 DEF C!CheckStoping
  <2> QED BY <1>1, <1>2, <2>1, ClientPasses
<1>3. CASE ~C!HasStarted
  <2>1. state' = state /\ th' = [th EXCEPT ![t] = C!Idle]
    BY <1>1, <1>3 DEF C!CheckStoping
  <2>2. t = W
    BY <1>1, <1>3, ClientNames, ClientAlone DEF C!Starting
  <2>3. \E u \in C!Threads : u # W /\ Busy(u)
    BY <1>1, <1>3, <2>2, ClientOthers
  <2> QED BY <1>1, <2>1, <2>2, <2>3, ClientRests, ClientLeaves
<1> QED BY <1>2, <1>3

LEMMA ClientCallStop ==
  ASSUME ClientInv, NEW a \in Callers, C!CallStop(a)
  PROVE  ClientInv'
<1>1. /\ ClientTypes /\ a \in C!Threads /\ a # W /\ "stop" \in C!Events /\ "early" \in C!Events
  BY ClientNames DEF ClientInv, C!Events
<1>2. ~C!Spend("early")
  BY <1>1, ClientSpends
<1>3. /\ th[a].pc = "idle" /\ C!CheckStoping(a) /\ UNCHANGED <<C!conn, sock, C!hist>>
      /\ connected /\ (\A u \in Callers : ~C!Starting(u)) /\ C!Spend("stop")
  BY <1>2 DEF C!CallStop, C!At
<1>4. CASE C!HasStarted
  <2>1. state' = "STOPPING" /\ C!Goto(a, "wait_worker")
    BY <1>3, <1>4 DEF C!CheckStoping
  <2> QED BY <1>1, <1>3, <1>4, <2>1, ClientPasses
<1>5. CASE ~C!HasStarted
  <2>1. state' = state /\ th' = [th EXCEPT ![a] = C!Idle]
    BY <1>3, <1>5 DEF C!CheckStoping
  <2>2. /\ C!Idle \in ClientTh /\ C!Idle.pc = "idle" /\ "idle" \in ClientPc
    BY ClientRests DEF ClientPc
  <2>3. /\ th' \in [C!Threads -> ClientTh] /\ th'[a].pc = "idle"
        /\ \A u \in C!Threads : u # a => th'[u] = th[u]
        /\ th'[W].pc \in WorkerPc /\ \A u \in Callers : th'[u].pc \in ClientPc
    BY <1>1, <2>1, <2>2, ClientPuts
  <2>4. th'[W] = th[W] /\ \A u \in Callers : u # a => th'[u] = th[u]
    BY <1>1, <2>3, ClientNames
  <2>5. UNCHANGED <<connected, paused, lsSend, ev, armed, ctx, running, fails, sock,
                    events, packets, wire>>
    BY <1>3 DEF C!conn, C!hist
  <2>6. /\ ClientCalm' /\ \A u \in Callers : ClientStart(u)'
        /\ ClientWorker' /\ \A u \in C!Threads : ClientStop(u)'
        /\ ClientHeard' /\ ClientFails' /\ (Present' <=> Present)
        /\ \A u \in Callers : (C!Starting(u)' <=> C!Starting(u))
    BY <1>3, <2>1, <2>3, <2>4, <2>5, ClientAside
  <2>7. /\ budget' \in [C!Events -> Nat] /\ \A d \in C!Events : budget[d] = 0 => budget'[d] = 0
        /\ {"early", "async", "pause"} \subseteq C!Events
    BY <1>1, <1>3, ClientSpends DEF C!Events
  <2>8. ClientTypes'
    BY <1>1, <2>1, <2>3, <2>5, <2>7 DEF ClientTypes
  <2>9. ClientArmed'
    BY <1>3, <2>3, <2>4, <2>5 DEF ClientInv, ClientArmed
  <2>10. ClientNet'
    <3>1. \A u \in Callers : ~C!Starting(u)' /\ th'[u].pc # "thread"
      BY <1>3, <2>6 DEF C!Starting
    <3>2. (\A u \in Callers : th[u].pc # "resume") => \A u \in Callers : th'[u].pc # "resume"
      BY <2>3, <2>4
    <3> QED BY <2>4, <2>5, <2>7, <3>1, <3>2 DEF ClientInv, ClientNet
  <2>11. ClientOrder'
    BY <2>4, <2>5, <2>6 DEF ClientInv, ClientOrder, Held
  <2> QED BY <2>6, <2>8, <2>9, <2>10, <2>11 DEF ClientInv
<1> QED BY <1>4, <1>5
\* The rest of Stop() is one thread's, and the worker is past its loop or joined.
LEMMA ClientEnds ==
  ASSUME ClientInv, NEW t \in C!Threads, Ending(t)
  PROVE  /\ state = "STOPPING" /\ ClientTypes /\ W \in C!Threads
         /\ \A u \in C!Threads : u # t => ~Ending(u) /\ ~Busy(u)
         /\ \A u \in Callers : ~C!Starting(u) /\ th[u].pc \notin {"thread", "on_connect", "failed"}
         /\ th[W].pc = "idle" => t # W
<1>1. \A u \in C!Threads : u # t => ~Ending(u) /\ ~Busy(u)
  BY DEF ClientInv, ClientCalm, Busy
<1>2. \A u \in Callers : ~C!Starting(u)
  BY <1>1, ClientNames DEF Busy, Ending, C!Starting
<1>3. th[W].pc = "idle" => t # W
  BY DEF Ending
<1>4. state = "STOPPING" /\ ClientTypes
  BY DEF ClientInv, ClientStop
<1> QED BY <1>1, <1>2, <1>3, <1>4, ClientNames DEF C!Starting

\* It goes on from waiting for the worker to p.
LEMMA ClientWaits ==
  ASSUME ClientInv, NEW t \in C!Threads, th[t].pc \in {"wait_worker", "join"},
         NEW p \in {"join", "close"}, C!Goto(t, p), t = W => p = "close",
         UNCHANGED <<state, connected, paused, lsSend, armed, ctx, fails, sock, budget, C!hist>>,
         ev' = ev \/ (ev' = ev \cup {"stop"} /\ t # W),
         running' \in BOOLEAN, p = "join" => running' = running /\ running /\ t # W,
         p = "close" => running' = FALSE /\ (t # W => th[W].pc = "idle")
  PROVE  ClientInv'
<1>1. /\ state = "STOPPING" /\ ClientTypes /\ W \in C!Threads /\ Ending(t)
      /\ \A u \in C!Threads : u # t => ~Ending(u) /\ ~Busy(u)
      /\ \A u \in Callers : ~C!Starting(u) /\ th[u].pc \notin {"thread", "on_connect", "failed"}
      /\ th[W].pc = "idle" => t # W
      /\ UNCHANGED <<events, packets, wire>>
  BY ClientEnds DEF Ending, C!hist
<1>2. /\ th' \in [C!Threads -> ClientTh]
      /\ th'[t].pc = p /\ th'[t].todo = th[t].todo
      /\ th'[t].item = th[t].item /\ th'[t].call = th[t].call
      /\ \A u \in C!Threads : u # t => th'[u] = th[u]
      /\ th'[W].pc \in WorkerPc /\ \A a \in Callers : th'[a].pc \in ClientPc
  BY <1>1, ClientGoes DEF ClientPc, WorkerPc
<1>3. \A u \in C!Threads : u # t => ~Ending(u)' /\ ~Busy(u)'
  BY <1>1, <1>2 DEF Ending, Busy, C!Starting
<1>4. /\ Ending(t)' /\ Busy(t)' /\ \A u \in Callers : ~C!Starting(u)'
  <2>1. Ending(t)' /\ Busy(t)'
    BY <1>2 DEF Ending, Busy
  <2>2. t \in Callers => ~C!Starting(t)'
    BY <1>2 DEF C!Starting
  <2>3. \A u \in Callers : u # t => ~C!Starting(u)'
    BY <1>1, <1>2, ClientNames DEF C!Starting
  <2> QED BY <2>1, <2>2, <2>3
<1>5. \A u \in C!Threads : th'[u].pc # "reset" /\ th[u].pc # "reset"
  BY <1>1, <1>2 DEF Ending
<1>6. Present /\ Present'
  BY <1>1, <1>5 DEF Present
<1>7. /\ t # W => th'[W] = th[W] /\ Told'
      /\ t = W => /\ th[W].pc = "wait_worker" /\ th'[W].pc = "close" /\ ~Told /\ ~Told'
                  /\ ev' = ev
      /\ th'[W].todo = th[W].todo /\ th'[W].call = th[W].call /\ th'[W].item = th[W].item
  <2>1. CASE t # W
    BY <1>1, <1>2, <2>1, ClientNames DEF Told
  <2>2. CASE t = W
    <3>1. th[W].pc # "join"
      BY <1>1 DEF ClientTypes, WorkerPc, Going
    <3>2. ~Told /\ ~Told'
      BY <1>1, <1>3, <2>2, ClientNames DEF Told, Ending
    <3> QED BY <1>2, <2>2, <3>1, <3>2
  <2> QED BY <2>1, <2>2
<1>8. ClientTypes'
  BY <1>1, <1>2 DEF ClientTypes
<1>9. ClientCalm'
  <2>1. ~connected => lsSend = <<>> /\ packets = <<>>
    BY <1>6 DEF ClientInv, ClientCalm
  <2> QED BY <1>1, <1>3, <1>4, <2>1 DEF ClientCalm
<1>10. \A u \in Callers : ClientStart(u)'
  BY <1>4 DEF ClientStart, C!Starting
<1>11. \A u \in C!Threads : ClientStop(u)'
  <2>1. ASSUME NEW u \in C!Threads, u # t PROVE ClientStop(u)'
    BY <1>3, <2>1 DEF ClientStop, Ending
  <2>2. p = "join" => th[W].pc = "idle" \/ connected
    BY DEF ClientInv, ClientStop
  <2>3. ClientStop(t)'
    <3>1. CASE p = "join"
      BY <1>1, <1>2, <1>7, <2>2, <3>1 DEF ClientStop
    <3>2. CASE p = "close"
      BY <1>1, <1>2, <1>7, <3>2 DEF ClientStop
    <3> QED BY <3>1, <3>2
  <2> QED BY <2>1, <2>3
<1>12. ClientWorker'
  <2>1. CASE t # W
    BY <1>7, <2>1 DEF ClientInv, ClientWorker
  <2>2. CASE t = W
    BY <1>7, <2>2 DEF ClientInv, ClientWorker
  <2> QED BY <2>1, <2>2
<1>13. /\ th'[W].pc \in Going => th[W].pc \in Going
       /\ th'[W].pc \in Going => th'[W] = th[W]
       /\ th'[W].pc # th[W].pc => th'[W].pc = "close" /\ th[W].pc = "wait_worker"
  BY <1>7 DEF Going
<1>14. \A u \in Callers : /\ th'[u].pc \notin {"thread", "on_connect", "failed"}
                          /\ th[u].pc = "signal" => th'[u].pc = "signal"
                          /\ th[u].pc = "resume" => th'[u].pc = "resume"
                          /\ th'[u].pc = "resume" => th[u].pc = "resume"
  BY <1>1, <1>2, ClientNames
<1>15. ClientHeard'
  <2>1. th'[W].pc = "on_connect" <=> th[W].pc = "on_connect"
    BY <1>13
  <2>2. th[W].pc \in Going /\ th'[W].pc \notin Going => FALSE
    BY <1>13 DEF Going
  <2> QED BY <1>1, <1>6, <1>13, <1>14, <2>1, <2>2 DEF ClientInv, ClientHeard
<1>16. ClientArmed'
  BY <1>1, <1>13, <1>14 DEF ClientInv, ClientArmed
<1>17. ClientNet'
  <2>1. /\ th'[W].pc \in {"on_connect", "read_net", "write_net", "send", "send_net", "back",
                          "back_net", "hup"} => connected
        /\ th'[W].pc \in {"idle", "reset"} \/ th[W].pc \notin {"idle", "reset"}
        /\ th'[W].pc = "read" => th[W].pc = "read"
        /\ "recv" \in ev' => "recv" \in ev
    BY <1>13 DEF ClientInv, ClientNet
  <2>2. CASE /\ budget["async"] = 0
             /\ th[W].pc \notin {"idle", "reset"} => connected
    BY <1>1, <1>4, <1>14, <2>1, <2>2 DEF ClientNet
  <2>3. CASE /\ budget["pause"] = 0 /\ "recv" \notin ev /\ th[W].pc # "read"
             /\ \A u \in Callers : th[u].pc # "resume"
             /\ th[W].todo \in Seq({"net", "send", "stop"})
    BY <1>1, <1>7, <1>14, <2>1, <2>3 DEF ClientNet
  <2> QED BY <2>2, <2>3 DEF ClientInv, ClientNet
<1>18. ClientOrder'
  <2>1. Held' = Held
    BY <1>13 DEF Held
  <2>2. th[W].pc # "exit" \/ th'[W].pc = "exit"
    BY <1>13
  <2> QED BY <1>1, <1>4, <1>6, <1>7, <1>13, <2>1, <2>2 DEF ClientInv, ClientOrder
<1>19. ClientFails'
  BY <1>1, <1>4, <1>13 DEF ClientInv, ClientFails
<1> QED BY <1>8, <1>9, <1>10, <1>11, <1>12, <1>15, <1>16, <1>17, <1>18, <1>19 DEF ClientInv

LEMMA ClientWaitForWorker ==
  ASSUME ClientInv, NEW t \in C!Threads, C!WaitForWorkerThreadEnd(t) \/ C!Join(t)
  PROVE  ClientInv'
<1>1. /\ running \in BOOLEAN /\ W \in C!Threads /\ th[W].pc # "join"
      /\ th[t].pc \in {"wait_worker", "join"} /\ t # W => th[W].pc = "idle" \/ running
      /\ th[t].pc = "join" => running
  BY ClientNames DEF ClientInv, ClientTypes, ClientStop, WorkerPc, Going
<1>2. CASE C!WaitForWorkerThreadEnd(t)
  <2>1. /\ th[t].pc = "wait_worker"
        /\ UNCHANGED <<state, connected, paused, lsSend, armed, ctx, fails, sock, budget, C!hist>>
        /\ running' = (running /\ t # W)
        /\ ~running \/ t = W => C!Goto(t, "close") /\ ev' = ev
        /\ running /\ t # W => C!Goto(t, "join") /\ ev' = ev \cup {"stop"}
    BY <1>2 DEF C!WaitForWorkerThreadEnd, C!At
  <2>2. CASE running = TRUE /\ t # W
    BY <2>1, <2>2, ClientWaits
  <2>3. CASE running = FALSE \/ t = W
    <3>1. running' = FALSE /\ C!Goto(t, "close") /\ ev' = ev
      BY <1>1, <2>1, <2>3
    <3>2. t # W => th[W].pc = "idle"
      BY <1>1, <2>1, <2>3
    <3> QED BY <2>1, <3>1, <3>2, ClientWaits
  <2> QED BY <1>1, <2>2, <2>3
<1>3. CASE C!Join(t)
  <2>1. /\ th[t].pc = "join" /\ t # W /\ th[W].pc = "idle" /\ running' = FALSE
        /\ UNCHANGED <<state, connected, paused, lsSend, armed, ctx, fails, sock, budget, C!hist>>
        /\ ev' = ev /\ C!Goto(t, "close")
    BY <1>1, <1>3 DEF C!Join, C!At
  <2> QED BY <2>1, ClientWaits
<1> QED BY <1>2, <1>3

LEMMA ClientClose ==
  ASSUME ClientInv, NEW t \in C!Threads, C!Close(t)
  PROVE  ClientInv'
<1>1. /\ th[t].pc = "close" /\ Ending(t) /\ C!Goto(t, "reset") /\ connected' = FALSE
      /\ IF ctx.fire THEN events' = Append(events, "close") ELSE events' = events
      /\ wire' = wire \/ wire' = Append(wire, 0)
      /\ UNCHANGED <<state, paused, lsSend, ev, armed, ctx, running, fails, sock, budget, packets>>
  BY DEF C!Close, C!At, C!Fire, Ending
<1>2. /\ state = "STOPPING" /\ ClientTypes /\ W \in C!Threads
      /\ \A u \in C!Threads : u # t => ~Ending(u) /\ ~Busy(u)
      /\ \A u \in Callers : ~C!Starting(u) /\ th[u].pc \notin {"thread", "on_connect", "failed"}
      /\ th[W].pc = "idle" => t # W
      /\ ~running /\ (t # W => th[W].pc = "idle")
  BY <1>1, ClientEnds DEF ClientInv, ClientStop
<1>3. /\ th' \in [C!Threads -> ClientTh]
      /\ th'[t].pc = "reset" /\ th'[t].todo = th[t].todo
      /\ th'[t].item = th[t].item /\ th'[t].call = th[t].call
      /\ \A u \in C!Threads : u # t => th'[u] = th[u]
      /\ th'[W].pc \in WorkerPc /\ \A a \in Callers : th'[a].pc \in ClientPc
  BY <1>1, <1>2, ClientGoes DEF ClientPc, WorkerPc
<1>4. \A u \in C!Threads : u # t => ~Ending(u)' /\ ~Busy(u)'
  BY <1>2, <1>3 DEF Ending, Busy, C!Starting
<1>5. /\ Ending(t)' /\ Busy(t)' /\ \A u \in Callers : ~C!Starting(u)'
  <2>1. Ending(t)' /\ Busy(t)'
    BY <1>3 DEF Ending, Busy
  <2>2. t \in Callers => ~C!Starting(t)'
    BY <1>3 DEF C!Starting
  <2>3. \A u \in Callers : u # t => ~C!Starting(u)'
    BY <1>2, <1>3, ClientNames DEF C!Starting
  <2> QED BY <2>1, <2>2, <2>3
<1>6. Present /\ ~Present'
  <2>1. \A u \in C!Threads : th[u].pc # "reset"
    BY <1>1, <1>2 DEF Ending
  <2> QED BY <1>2, <1>3, <2>1 DEF Present
<1>7. /\ th'[W].pc \in {"idle", "reset"} /\ th[W].pc \in {"idle", "close"}
      /\ th'[W].pc = "idle" <=> t # W
      /\ th'[W].todo = th[W].todo /\ th'[W].call = th[W].call /\ th'[W].item = th[W].item
      /\ Told' <=> Told
  <2>1. CASE t # W
    BY <1>1, <1>2, <1>3, <2>1, ClientNames DEF Told
  <2>2. CASE t = W
    BY <1>1, <1>2, <1>3, <2>2, ClientNames DEF Told, Ending
  <2> QED BY <2>1, <2>2
<1>8. /\ events \in Seq(Notices) /\ wire \in Seq(Nat)
      /\ ~connected => events = <<>>
      /\ connected => Lives(events) \/ (Refused(events) /\ ~ctx.fire)
  <2>1. /\ th[W].pc # "on_connect" /\ \A u \in Callers : th[u].pc \notin {"on_connect", "failed"}
    BY <1>2, <1>7
  <2> QED BY <1>2, <1>6, <2>1 DEF ClientInv, ClientHeard, ClientTypes
<1>9. /\ events' \in Seq(Notices)
      /\ events' = <<>> \/ Refused(events') \/ Lives(events') \/ Ended(events')
  <2>1. CASE ctx.fire
    <3>1. events' = Append(events, "close") /\ (events = <<>> \/ Lives(events))
      BY <1>1, <1>2, <1>8, <2>1 DEF ClientTypes
    <3> QED BY <1>8, <3>1, Hears DEF Notices
  <2>2. CASE ~ctx.fire
    BY <1>1, <1>2, <1>8, <2>2 DEF ClientTypes
  <2> QED BY <2>1, <2>2
<1>10. /\ wire' \in Seq(Nat)
       /\ \A n \in DOMAIN wire' : \/ wire'[n] = n /\ n <= Len(packets)
                                  \/ wire'[n] = 0 /\ n = Len(wire')
  <2>1. \A n \in DOMAIN wire : wire[n] = n /\ n <= Len(packets)
    BY <1>6 DEF ClientInv, ClientOrder
  <2>2. CASE wire' = wire
    BY <1>8, <2>1, <2>2
  <2>3. CASE wire' = Append(wire, 0)
    <3>1. /\ wire' \in Seq(Nat) /\ Len(wire') = Len(wire) + 1 /\ wire'[Len(wire) + 1] = 0
          /\ \A n \in 1 .. Len(wire) : wire'[n] = wire[n]
      BY <1>8, <2>3, AppendProperties
    <3>2. DOMAIN wire' = 1 .. Len(wire) + 1 /\ DOMAIN wire = 1 .. Len(wire) /\ Len(wire) \in Nat
      BY <1>8, <3>1, LenProperties
    <3>3. \A n \in DOMAIN wire' : n \in DOMAIN wire \/ n = Len(wire) + 1
      BY <3>2, ClientSums
    <3> QED BY <2>1, <3>1, <3>2, <3>3
  <2> QED BY <1>1, <2>2, <2>3
<1>11. ClientTypes'
  BY <1>1, <1>2, <1>3, <1>9, <1>10 DEF ClientTypes
<1>12. ClientCalm'
  BY <1>1, <1>2, <1>4, <1>5, <1>6 DEF ClientCalm
<1>13. \A u \in Callers : ClientStart(u)'
  BY <1>5 DEF ClientStart, C!Starting
<1>14. \A u \in C!Threads : ClientStop(u)'
  <2>1. ASSUME NEW u \in C!Threads, u # t PROVE ClientStop(u)'
    BY <1>4, <2>1 DEF ClientStop, Ending
  <2>2. ClientStop(t)'
    BY <1>1, <1>2, <1>3, <1>7 DEF ClientStop
  <2> QED BY <2>1, <2>2
<1>15. ClientWorker'
  BY <1>1, <1>2, <1>7 DEF ClientInv, ClientWorker
<1>16. ClientHeard'
  BY <1>6, <1>9 DEF ClientHeard
<1>17. ClientArmed'
  BY <1>1 DEF ClientArmed
<1>18. ClientNet'
  <2>1. \A u \in Callers : /\ ~C!Starting(u)' /\ th'[u].pc # "thread"
                           /\ th'[u].pc = "resume" => th[u].pc = "resume"
    BY <1>2, <1>3, <1>5, ClientNames DEF C!Starting
  <2> QED BY <1>1, <1>7, <2>1 DEF ClientInv, ClientNet
<1>19. ClientOrder'
  <2>1. Held' = 0 /\ th'[W].item = C!NoPacket /\ th'[W].pc \notin Going
    BY <1>7 DEF Held, ClientInv, ClientOrder, Going
  <2>2. \A n \in DOMAIN packets' : packets'[n] = n
    BY <1>1 DEF ClientInv, ClientOrder
  <2> QED BY <1>1, <1>5, <1>6, <1>10, <2>1, <2>2 DEF ClientOrder
<1>20. ClientFails'
  BY <1>1, <1>2, <1>5, <1>7 DEF ClientFails, Going
<1> QED BY <1>11, <1>12, <1>13, <1>14, <1>15, <1>16, <1>17, <1>18, <1>19, <1>20 DEF ClientInv

LEMMA ClientReset ==
  ASSUME ClientInv, NEW t \in C!Threads, C!Reset(t)
  PROVE  ClientInv'
<1>1. /\ th[t].pc = "reset" /\ Ending(t) /\ th' = [th EXCEPT ![t] = C!Idle]
      /\ sock' = [sock EXCEPT !.st = "closed", !.in = <<>>] /\ state' = "STOPPED"
      /\ ev' = {} /\ lsSend' = <<>> /\ armed' = {} /\ paused' = FALSE /\ fails' = 0
      /\ UNCHANGED <<connected, ctx, running, budget, events, packets, wire>>
  BY DEF C!Reset, C!At, C!hist, Ending
<1>2. /\ state = "STOPPING" /\ ClientTypes /\ W \in C!Threads /\ Attempts \in Nat
      /\ \A u \in C!Threads : u # t => ~Ending(u) /\ ~Busy(u)
      /\ \A u \in Callers : ~C!Starting(u) /\ th[u].pc \notin {"thread", "on_connect", "failed"}
      /\ ~running /\ ~connected /\ (t # W => th[W].pc = "idle")
  BY <1>1, ClientEnds, ClientAssumption DEF ClientInv, ClientStop
<1>3. /\ C!Idle \in ClientTh /\ C!Idle.pc = "idle" /\ C!Idle.todo = <<>> /\ C!Idle.call
      /\ C!Idle.item = C!NoPacket /\ "idle" \in ClientPc /\ "idle" \in WorkerPc
  BY ClientRests DEF ClientPc, WorkerPc
<1>4. /\ th' \in [C!Threads -> ClientTh] /\ th'[t] = C!Idle
      /\ \A u \in C!Threads : u # t => th'[u] = th[u]
      /\ th'[W].pc \in WorkerPc /\ \A u \in Callers : th'[u].pc \in ClientPc
  BY <1>1, <1>2, <1>3, ClientPuts
<1>5. \A u \in C!Threads : ~Ending(u)' /\ ~Busy(u)'
  <2>1. ~Ending(t)' /\ ~Busy(t)'
    BY <1>3, <1>4 DEF Ending, Busy, C!Starting
  <2>2. ASSUME NEW u \in C!Threads, u # t PROVE ~Ending(u)' /\ ~Busy(u)'
    BY <1>2, <1>4, <2>2 DEF Ending, Busy, C!Starting
  <2> QED BY <2>1, <2>2
<1>6. /\ \A u \in Callers : ~C!Starting(u)' /\ th'[u].pc # "thread"
      /\ ~Told' /\ ~Present /\ ~Present'
  <2>1. \A u \in Callers : ~C!Starting(u)'
    BY <1>5, ClientNames DEF Busy
  <2> QED BY <1>1, <1>5, <2>1, ClientNames DEF Told, Ending, Present, C!Starting
<1>7. /\ th'[W].pc = "idle" /\ th'[W].call /\ th'[W].todo = <<>> /\ th'[W].item = C!NoPacket
  <2>1. CASE t = W
    BY <1>3, <1>4, <2>1
  <2>2. CASE t # W
    <3>1. th'[W] = th[W] /\ th[W].pc = "idle"
      BY <1>2, <1>4, <2>2
    <3>2. th[W].call /\ th[W].todo = <<>> /\ th[W].item = C!NoPacket
      BY <3>1 DEF ClientInv, ClientWorker, ClientOrder, Held
    <3> QED BY <3>1, <3>2
  <2> QED BY <2>1, <2>2
<1>8. ClientTypes'
  <2>1. sock' \in ClientSock
    <3>1. sock \in ClientSock /\ <<>> \in Seq({"data", "zero", "notify"})
      BY <1>2 DEF ClientTypes
    <3> QED BY <1>1, <3>1 DEF ClientSock
  <2>2. lsSend' \in Seq(Packet) /\ fails' \in 0 .. Attempts + 1
    BY <1>1, <1>2
  <2> QED BY <1>1, <1>2, <1>4, <2>1, <2>2 DEF ClientTypes
<1>9. ClientCalm'
  BY <1>1, <1>2, <1>5, <1>6, <1>7 DEF ClientCalm
<1>10. \A u \in Callers : ClientStart(u)'
  BY <1>6 DEF ClientStart, C!Starting
<1>11. \A u \in C!Threads : ClientStop(u)'
  BY <1>5 DEF ClientStop, Ending
<1>12. ClientWorker'
  <2>1. <<>> \in Seq({"net", "send", "recv"})
    OBVIOUS
  <2> QED BY <1>1, <1>7, <2>1 DEF ClientWorker
<1>13. ClientHeard'
  BY <1>1, <1>6 DEF ClientInv, ClientHeard
<1>14. ClientArmed'
  BY <1>1, <1>2 DEF ClientArmed
<1>15. ClientNet'
  <2>1. <<>> \in Seq({"net", "send", "stop"})
    OBVIOUS
  <2>2. (\A u \in Callers : th[u].pc # "resume") => \A u \in Callers : th'[u].pc # "resume"
    BY <1>3, <1>4, ClientNames
  <2> QED BY <1>1, <1>6, <1>7, <2>1, <2>2 DEF ClientInv, ClientNet
<1>16. ClientOrder'
  <2>1. Held' = 0 /\ th'[W].pc \notin Going
    BY <1>7 DEF Held, Going
  <2>2. /\ \A n \in DOMAIN packets' : packets'[n] = n
        /\ \A n \in DOMAIN wire' : \/ wire'[n] = n /\ n <= Len(packets')
                                   \/ wire'[n] = 0 /\ n = Len(wire')
    BY <1>1 DEF ClientInv, ClientOrder
  <2> QED BY <1>6, <1>7, <2>1, <2>2 DEF ClientOrder
<1>17. ClientFails'
  BY <1>1, <1>2 DEF ClientFails
<1> QED BY <1>8, <1>9, <1>10, <1>11, <1>12, <1>13, <1>14, <1>15, <1>16, <1>17 DEF ClientInv

-----------------------------------------------------------------------------
(* All of it.                                                              *)

LEMMA ClientInit ==
  ASSUME C!Init
  PROVE  ClientInv
<1>1. /\ state = "STOPPED" /\ connected = FALSE /\ paused = FALSE /\ lsSend = <<>> /\ ev = {}
      /\ armed = {} /\ ctx = [fire |-> TRUE, notify |-> TRUE] /\ running = FALSE /\ fails = 0
      /\ sock = [st |-> "closed", in |-> <<>>, full |-> FALSE]
      /\ th = [t \in C!Threads |-> C!Idle] /\ budget \in ClientBudgets
      /\ events = <<>> /\ packets = <<>> /\ wire = <<>>
  BY DEF C!Init
<1>2. /\ C!Idle \in ClientTh /\ C!Idle.pc = "idle" /\ C!Idle.todo = <<>> /\ C!Idle.call
      /\ C!Idle.item = C!NoPacket /\ "idle" \in ClientPc /\ "idle" \in WorkerPc
  BY ClientRests DEF ClientPc, WorkerPc
<1>3. /\ th \in [C!Threads -> ClientTh] /\ W \in C!Threads
      /\ \A t \in C!Threads : th[t] = C!Idle /\ th[t].pc = "idle"
  BY <1>1, <1>2, ClientNames
<1>4. /\ Attempts \in Nat /\ budget \in [C!Events -> Nat] /\ budget["early"] = 0
      /\ budget["pause"] = 0 \/ budget["async"] = 0
  BY <1>1, ClientAssumption
<1>5. /\ \A t \in C!Threads : ~Ending(t) /\ ~Busy(t)
      /\ \A a \in Callers : th[a].pc = "idle" /\ ~C!Starting(a)
  BY <1>3, ClientNames DEF Ending, Busy, C!Starting
<1>6. ClientTypes
  <2>1. sock \in ClientSock
    BY <1>1 DEF ClientSock
  <2>2. /\ <<>> \in Seq(Packet) /\ <<>> \in Seq(Nat) /\ <<>> \in Seq(Notices)
        /\ 0 \in 0 .. Attempts + 1
    BY <1>4
  <2> QED BY <1>1, <1>2, <1>3, <1>4, <1>5, <2>1, <2>2, ClientContext DEF ClientTypes
<1>7. ClientCalm
  BY <1>1, <1>3, <1>5 DEF ClientCalm, Present
<1>8. (\A a \in Callers : ClientStart(a)) /\ \A t \in C!Threads : ClientStop(t)
  BY <1>3, <1>5 DEF ClientStart, ClientStop, Ending
<1>9. ClientWorker
  <2>1. <<>> \in Seq({"net", "send", "recv"})
    OBVIOUS
  <2> QED BY <1>1, <1>2, <1>3, <2>1 DEF ClientWorker
<1>10. ClientHeard
  BY <1>1 DEF ClientHeard, Present
<1>11. ClientArmed
  BY <1>1 DEF ClientArmed
<1>12. ClientNet
  <2>1. <<>> \in Seq({"net", "send", "stop"})
    OBVIOUS
  <2> QED BY <1>1, <1>2, <1>3, <1>4, <1>5, <2>1 DEF ClientNet
<1>13. ClientOrder
  <2>1. Held = 0 /\ th[W].pc \notin Going
    BY <1>3 DEF Held, Going
  <2>2. DOMAIN packets = {} /\ DOMAIN wire = {}
    BY <1>1
  <2> QED BY <1>2, <1>3, <1>5, <2>1, <2>2 DEF ClientOrder
<1>14. ClientFails
  BY <1>1, <1>4 DEF ClientFails
<1> QED BY <1>6, <1>7, <1>8, <1>9, <1>10, <1>11, <1>12, <1>13, <1>14 DEF ClientInv

LEMMA ClientNext ==
  ASSUME ClientInv, C!Next \/ UNCHANGED cvars
  PROVE  ClientInv'
<1>1. ASSUME NEW a \in Callers, NEW x \in BOOLEAN, C!CheckStarting(a, x) \/ C!SendUdp(a, x)
      PROVE  ClientInv'
  BY <1>1, ClientCheckStarting, ClientSendUdp
<1>2. ASSUME NEW a \in Callers, C!Starts(a)
      PROVE  ClientInv'
  BY <1>2, ClientPrepares, ClientConnectSync, ClientOnConnectSync, ClientCreateWorker DEF C!Starts
<1>3. ASSUME NEW a \in Callers, C!CallStop(a) \/ C!Signals(a) \/ C!PauseReceive(a) \/ C!SendTcp(a)
      PROVE  ClientInv'
  BY <1>3, ClientCallStop, ClientSignals, ClientPauses, ClientSendTcp
<1>4. ASSUME NEW t \in C!Threads, C!Stopping(t)
      PROVE  ClientInv'
  BY <1>4, ClientOwnStop, ClientWaitForWorker, ClientClose, ClientReset DEF C!Stopping
<1>5. CASE C!Worker \/ C!CheckConnection
  <2>1. CASE C!Loop \/ C!ReadNothing \/ C!ReadEnd \/ C!HungUp \/ C!CheckConnection
    BY <2>1, ClientSteps
  <2>2. CASE C!Poll \/ C!NextReady \/ C!Again \/ C!HandleConnect \/ C!OnConnect
    BY <2>2, ClientPoll, ClientNextReady, ClientAgain, ClientHandle, ClientOnConnect
  <2>3. CASE C!ReadSome \/ C!Pop \/ C!DoSendData \/ C!PushFront \/ C!Exit
    BY <2>3, ClientReadSome, ClientPop, ClientDoSendData, ClientPushFront, ClientExit
  <2> QED BY <1>5, <2>1, <2>2, <2>3 DEF C!Worker
<1>6. CASE C!Connected \/ C!PeerEnds \/ C!PeerReads
             \/ \E d \in {"data", "zero", "notify"} : C!PeerSends(d)
  BY <1>6, ClientNetwork
<1>7. CASE UNCHANGED cvars
  <2>1. /\ UNCHANGED <<state, C!conn, th, C!hist, budget>> /\ sock' = sock
    BY <1>7 DEF cvars, C!conn, C!hist
  <2>2. sock' \in ClientSock
    BY <2>1 DEF ClientInv, ClientTypes
  <2> QED BY <2>1, <2>2, ClientOutside
<1> QED BY <1>1, <1>2, <1>3, <1>4, <1>5, <1>6, <1>7 DEF C!Next

LEMMA ClientHolds ==
  ASSUME ClientInv
  PROVE  NothingForgotten /\ ClientCloseIsLast
<1>1. C!TypeOK
  <2>1. th[W].pc \notin {"idle", "join", "close", "reset"} => running
    BY DEF ClientInv, ClientWorker
  <2>2. sock.st \in {"closed", "new", "connecting", "open", "hung", "refused"}
    BY ClientFields DEF ClientInv
  <2> QED BY <2>1, <2>2 DEF C!TypeOK, ClientInv, ClientTypes, ClientPc
<1>2. C!NothingForgotten
  <2>1. CASE th[W].pc = "poll"
    BY <2>1 DEF ClientInv, ClientArmed, ClientStart, C!NothingForgotten, C!At, C!Starting
  <2>2. ASSUME NEW a \in Callers, th[a].pc = "prepare"
        PROVE  lsSend = <<>> /\ "stop" \notin ev
    <3>1. C!Starting(a)
      BY <2>2 DEF C!Starting
    <3>2. ~connected /\ Present /\ "stop" \notin ev
      BY <2>2, <3>1, ClientAlone DEF ClientInv, ClientStart
    <3> QED BY <3>2 DEF ClientInv, ClientCalm
  <2> QED BY <2>1, <2>2 DEF C!NothingForgotten, C!At
<1>3. C!SentInOrder
  <2>1. packets \in Seq(Nat) /\ wire \in Seq(Nat)
    BY DEF ClientInv, ClientTypes
  <2>2. ASSUME NEW n \in DOMAIN wire, wire[n] = n, n <= Len(packets)
        PROVE  wire[n] = packets[n]
    <3>1. n \in DOMAIN packets
      BY <2>1, <2>2
    <3> QED BY <2>2, <3>1 DEF ClientInv, ClientOrder
  <2> QED BY <2>2 DEF C!SentInOrder, ClientInv, ClientOrder
<1>4. C!CloseIsLast
  <2>1. events \in Seq(Notices)
    BY DEF ClientInv, ClientTypes
  <2>2. CASE events = <<>>
    BY <2>2 DEF C!CloseIsLast
  <2>3. CASE Opening(events) \/ Refused(events)
    BY <2>1, <2>3 DEF C!CloseIsLast, Opening, Refused
  <2>4. CASE Lives(events)
    BY <2>1, <2>4 DEF C!CloseIsLast, Lives, Flows
  <2>5. CASE Ended(events)
    <3>1. DOMAIN events = 1 .. Len(events) /\ Len(events) \in Nat
      BY <2>1
    <3>2. CASE Len(events) = 1
      BY <2>5, <3>1, <3>2 DEF C!CloseIsLast, Ended, C!Came
    <3>3. CASE Flows(events, Len(events) - 1)
      <4>1. /\ Len(events) >= 3 /\ events[1] = "connect" /\ events[2] = "connected"
            /\ \A n \in 3 .. Len(events) - 1 : events[n] \in {"receive", "send"}
            /\ events[Len(events)] = "close"
        BY <2>5, <3>1, <3>3 DEF Flows, Ended
      <4>2. ASSUME NEW n \in DOMAIN events
            PROVE  n = 1 \/ n = 2 \/ n \in 3 .. Len(events) - 1 \/ n = Len(events)
        BY <3>1
      <4>3. ~C!Came("refused")
        BY <4>1, <4>2 DEF C!Came
      <4>4. ASSUME NEW n \in DOMAIN events
            PROVE  /\ events[n] = "connect" => n = 1
                   /\ events[n] \in {"receive", "send"} => n > 2
                   /\ events[n] = "close" => n = Len(events)
        BY <3>1, <4>1, <4>2
      <4> QED BY <4>1, <4>3, <4>4 DEF C!CloseIsLast
    <3> QED BY <2>5, <3>2, <3>3 DEF Ended
  <2> QED BY <2>2, <2>3, <2>4, <2>5 DEF ClientInv, ClientHeard
<1> QED BY <1>1, <1>2, <1>3, <1>4 DEF NothingForgotten, ClientCloseIsLast

(* Nothing a client was asked for is forgotten: a worker that sleeps has   *)
(* armed the socket or an event for what there is to send and to receive,  *)
(* or someone is about to set it; the events of one connection do not      *)
(* reach the next; and what is written is what was sent, in order and      *)
(* without a gap.  For any callers, budgets and attempts of the detection, *)
(* if no Stop() overtakes a Start() and none that pauses opens a           *)
(* connection with bAsyncConnect.                                          *)
THEOREM ClientsNothingForgotten == MCSpec => []NothingForgotten
<1>1. MCInit => ClientInv
  BY ClientInit DEF MCInit
<1>2. ClientInv /\ [MCNext]_all => ClientInv'
  BY ClientNext DEF MCNext, OfArq, OfKcp, OfClient, all
<1>3. ClientInv => NothingForgotten
  BY ClientHolds
<1> QED BY <1>1, <1>2, <1>3, PTL DEF MCSpec

(* A client's listener hears of OnConnect first, of data only if it did    *)
(* not refuse the connection, and of OnClose once and last, whoever calls  *)
(* Stop(), the worker or one of several threads.  For the same clients.    *)
THEOREM ClientsCloseIsLast == MCSpec => []ClientCloseIsLast
<1>1. MCInit => ClientInv
  BY ClientInit DEF MCInit
<1>2. ClientInv /\ [MCNext]_all => ClientInv'
  BY ClientNext DEF MCNext, OfArq, OfKcp, OfClient, all
<1>3. ClientInv => ClientCloseIsLast
  BY ClientHolds
<1> QED BY <1>1, <1>2, <1>3, PTL DEF MCSpec
=============================================================================
