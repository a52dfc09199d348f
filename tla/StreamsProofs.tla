--------------------------- MODULE StreamsProofs ---------------------------
(***************************************************************************)
(* Proofs about what MCStreams runs.  TcpAgent: what is heard of a         *)
(* connection, whoever connects it, and what its caller is told.           *)
(***************************************************************************)
EXTENDS MCStreams, FiniteSetTheorems, SequenceTheorems, TLAPS

-----------------------------------------------------------------------------
(* CTcpAgent.  1. Types.                                                   *)
AgentPc == {"idle", "prepare", "publish", "connect", "on_connect", "failed", "lock",
            "handle_connect", "read", "write", "user", "after", "unlock", "invalid", "close",
            "remove"}
AgentTh == [pc : AgentPc, c : Targets \cup {None}, ev : {"none", "read", "write", "user"},
            flag : {"none", "close"}, back : {"idle", "failed", "unlock", "after"}]
Notices == {"connect", "connected", "refused", "receive", "send", "close"}
AgentTypes ==
  /\ G!TypeOK
  /\ ath \in [G!Threads -> AgentTh]
  /\ heard \in [Targets -> Seq(Notices)]

(* 2. What the listener may have heard of a connection: OnConnect, that it *)
(* was accepted and then data, that it was refused, and its end.           *)
Opening(h) == Len(h) = 1 /\ h[1] = "connect"
Refused(h) == Len(h) = 2 /\ h[1] = "connect" /\ h[2] = "refused"
Flows(h, n) == /\ n >= 2 /\ h[1] = "connect" /\ h[2] = "connected"
               /\ \A i \in 3 .. n : h[i] \in {"receive", "send"}
Lives(h)  == Flows(h, Len(h))
Ended(h)  == /\ Len(h) > 0 /\ h[Len(h)] = "close"
             /\ Len(h) = 1 \/ Flows(h, Len(h) - 1)

(* 3. What a thread at work for a connection may count on: it has csIo     *)
(* from here to there, and what was heard fits where it is.                *)
Locked == AgentPc \ {"idle", "prepare", "publish", "lock"}
AgentThread(t) ==
  LET k == ath[t]
      o == aobj[k.c]
      h == heard[k.c]
  IN  /\ k.pc = "idle" <=> k.c = None
      /\ k.pc \in {"prepare", "publish", "connect", "failed"} => t \in Connectors
      /\ k.pc \in {"lock", "handle_connect", "read", "write", "user", "after", "unlock"}
           => t \in Workers
      /\ k.pc \in {"prepare", "publish"} =>
           /\ k.c \notin aids /\ told[k.c] = "none" /\ o.io = None
           /\ \A u \in G!Threads \ {t} : ath[u].c # k.c
      /\ k.pc = "lock" => k.ev # "none"
      /\ k.pc \in Locked =>
           o.io = t /\ told[k.c] = IF t \in Connectors THEN "none" ELSE "true"
      /\ k.pc = "connect" => o.valid /\ ~o.connected /\ h = <<>>
      /\ k.pc = "handle_connect" => o.valid /\ ~o.connected /\ h = <<>>
      /\ k.pc = "on_connect" => o.valid /\ o.connected /\ Opening(h)
      /\ k.pc \in {"read", "write", "user"} => o.valid /\ o.connected /\ Lives(h)
      /\ k.pc \in {"after", "unlock"} => IF o.valid THEN o.connected /\ Lives(h)
                                         ELSE Ended(h) \/ Refused(h)
      /\ k.pc = "invalid" => o.valid
      /\ k.pc \in {"close", "remove", "failed"} => ~o.valid
      /\ k.pc \in {"invalid", "close", "remove"} =>
           /\ IF t \in Connectors THEN k.back = "failed" /\ k.flag = "none"
              ELSE k.back \in {"unlock", "after"}
           /\ k.flag = "none" => Refused(h) \/ (t \in Connectors /\ (h = <<>> \/ Lives(h)))
           /\ k.flag = "close" => IF k.pc = "remove" THEN Ended(h) ELSE h = <<>> \/ Lives(h)
      /\ k.pc = "failed" => h = <<>> \/ Refused(h) \/ Lives(h)

(* 4. A connection nobody is at work for.                                  *)
AgentConn(c) ==
  LET o == aobj[c]
      h == heard[c]
  IN  /\ o.valid => asock[c].st # "closed"
      /\ o.io # None => ath[o.io].c = c /\ ath[o.io].pc \in Locked
      /\ o.io = None =>
           /\ told[c] = "none" => ~o.valid /\ h = <<>> /\ asock[c].st = "new" /\ c \notin aids
           /\ told[c] = "false" => ~o.valid /\ (h = <<>> \/ Refused(h) \/ Lives(h))
           /\ told[c] = "true" => IF ~o.valid THEN Ended(h) \/ Refused(h)
                                  ELSE IF o.connected THEN Lives(h) ELSE h = <<>>

AgentInv == /\ AgentTypes
            /\ \A t \in G!Threads : AgentThread(t)
            /\ \A c \in Targets : AgentConn(c)

LEMMA AgentFields ==
  ASSUME AgentTypes
  PROVE  /\ \A t \in G!Threads :
              /\ ath[t].pc \in AgentPc /\ ath[t].c \in Targets \cup {None}
              /\ ath[t].ev \in {"none", "read", "write", "user"}
              /\ ath[t].flag \in {"none", "close"}
              /\ ath[t].back \in {"idle", "failed", "unlock", "after"}
         /\ \A c \in Targets :
              /\ aobj[c].valid \in BOOLEAN /\ aobj[c].connected \in BOOLEAN
              /\ aobj[c].paused \in BOOLEAN /\ aobj[c].io \in G!Threads \cup {None}
              /\ aobj[c].buf \in Nat /\ aobj[c].armed \subseteq {"read", "write"}
              /\ asock[c].st \in {"new", "connecting", "open", "failed", "closed"}
              /\ asock[c].in \in Nat /\ asock[c].eof \in BOOLEAN /\ asock[c].full \in BOOLEAN
              /\ told[c] \in {"none", "true", "false"}
              /\ heard[c] \in Seq(Notices)
  BY DEF AgentTypes, AgentTh, G!TypeOK

LEMMA AgentNames ==
  /\ G!Threads = Workers \cup Connectors /\ None \notin G!Threads /\ None \notin Targets
  /\ \A t \in G!Threads : t \in Workers <=> t \notin Connectors
  BY AgentAssumption DEF G!Threads

\* What Append() makes of what was heard.
LEMMA Hears ==
  ASSUME NEW h \in Seq(Notices)
  PROVE  /\ \A e \in Notices : Append(h, e) \in Seq(Notices)
         /\ h = <<>> => Opening(Append(h, "connect")) /\ Ended(Append(h, "close"))
         /\ Opening(h) => Lives(Append(h, "connected")) /\ Refused(Append(h, "refused"))
         /\ Lives(h) => /\ Ended(Append(h, "close"))
                        /\ \A e \in {"receive", "send"} : Lives(Append(h, e))
<1>1. \A e \in Notices : /\ Append(h, e) \in Seq(Notices) /\ Len(Append(h, e)) = Len(h) + 1
                             /\ Append(h, e)[Len(h) + 1] = e
                             /\ \A n \in 1 .. Len(h) : Append(h, e)[n] = h[n]
  BY AppendProperties
<1>2. Len(h) \in Nat
  OBVIOUS
<1>3. h = <<>> => Opening(Append(h, "connect")) /\ Ended(Append(h, "close"))
  BY <1>1, <1>2 DEF Opening, Ended, Notices
<1>4. Opening(h) => Lives(Append(h, "connected")) /\ Refused(Append(h, "refused"))
  BY <1>1, <1>2 DEF Opening, Refused, Lives, Flows, Notices
<1>5. ASSUME Lives(h)
      PROVE  /\ Ended(Append(h, "close"))
             /\ \A e \in {"receive", "send"} : Lives(Append(h, e))
  BY <1>1, <1>2, <1>5 DEF Ended, Lives, Flows, Notices
<1> QED BY <1>1, <1>3, <1>4, <1>5

\* Where a thread that is not idle works.
LEMMA AgentAt ==
  ASSUME AgentInv, NEW t \in G!Threads
  PROVE  /\ ath[t].pc # "idle" => ath[t].c \in Targets
         /\ ath[t].pc = "idle" => ath[t].c = None
  BY AgentFields, AgentNames DEF AgentInv, AgentThread

\* What a step of t at work for c leaves alone.
AgentFrame(t, c) ==
  /\ \A u \in G!Threads \ {t} : ath'[u] = ath[u]
  /\ \A d \in Targets \ {c} : /\ aobj'[d] = aobj[d] /\ asock'[d] = asock[d]
                              /\ heard'[d] = heard[d] /\ told'[d] = told[d]
                              /\ d \in aids' <=> d \in aids

\* A step of a thread that has csIo, or that is about to get it: then the others at work for
\* the connection wait for it.
LEMMA AgentStep ==
  ASSUME AgentInv, AgentTypes', NEW t \in G!Threads, NEW c \in Targets,
         ath'[t].c \in {c, None}, aobj[c].io \in {None, t},
         ath[t].c = c \/ (ath[t].c = None /\ \A u \in G!Threads : ath[u].c # c),
         AgentFrame(t, c), AgentThread(t)', AgentConn(c)'
  PROVE  AgentInv'
<1>1. ASSUME NEW u \in G!Threads, u # t
      PROVE  AgentThread(u)'
  <2>1. ath'[u] = ath[u] /\ AgentThread(u) /\ AgentThread(t)
    BY <1>1 DEF AgentFrame, AgentInv
  <2>2. ath[u].pc \in AgentPc /\ ath[t].pc \in AgentPc /\ ath[u].c \in Targets \cup {None}
    BY AgentFields DEF AgentInv
  <2>3. CASE ath[u].c = c
    <3>1. ath[u].pc = "lock"
      <4>1. ath[u].pc \notin {"prepare", "publish"}
        BY <2>1, <2>3, <1>1 DEF AgentThread
      <4>2. ath[u].pc \notin Locked
        BY <2>1, <2>3, <1>1, AgentNames DEF AgentThread
      <4>3. ath[u].pc # "idle"
        BY <2>1, <2>3, AgentNames DEF AgentThread
      <4> QED BY <4>1, <4>2, <4>3, <2>2 DEF Locked
    <3> QED BY <2>1, <3>1, <2>3, AgentNames DEF AgentThread, Locked
  <2>4. CASE ath[u].c = None
    BY <2>1, <2>4, AgentNames DEF AgentThread, Locked
  <2>5. CASE ath[u].c \in Targets \ {c}
    <3> DEFINE d == ath[u].c
    <3>1. /\ aobj'[d] = aobj[d] /\ asock'[d] = asock[d] /\ heard'[d] = heard[d]
          /\ told'[d] = told[d] /\ (d \in aids' <=> d \in aids)
      BY <2>5 DEF AgentFrame
    <3>2. ath[u].pc \in {"prepare", "publish"} => \A v \in G!Threads \ {u} : ath'[v].c # d
      BY <2>1, <2>5, AgentNames DEF AgentThread, AgentFrame
    <3> QED BY <2>1, <3>1, <3>2 DEF AgentThread
  <2> QED BY <2>2, <2>3, <2>4, <2>5
<1>2. ASSUME NEW d \in Targets, d # c
      PROVE  AgentConn(d)'
  <2>1. AgentConn(d) /\ aobj[d].io \in G!Threads \cup {None}
    BY AgentFields DEF AgentInv
  <2>2. /\ aobj'[d] = aobj[d] /\ asock'[d] = asock[d] /\ heard'[d] = heard[d]
        /\ told'[d] = told[d] /\ (d \in aids' <=> d \in aids)
    BY <1>2 DEF AgentFrame
  <2>3. aobj[d].io # None => ath'[aobj[d].io] = ath[aobj[d].io]
    BY <2>1, <1>2, AgentNames DEF AgentFrame, AgentConn
  <2> QED BY <2>1, <2>2, <2>3 DEF AgentConn
<1> QED BY <1>1, <1>2 DEF AgentInv

\* A step that nobody hears of and that leaves csIo and validity alone.
LEMMA AgentCalm ==
  ASSUME AgentInv, AgentTypes', heard' = heard, told' = told, aids' = aids,
         \A c \in Targets : /\ aobj'[c].valid = aobj[c].valid /\ aobj'[c].io = aobj[c].io
                            /\ aobj'[c].connected = aobj[c].connected
                            /\ asock'[c].st = "new" <=> asock[c].st = "new"
                            /\ asock'[c].st = "closed" <=> asock[c].st = "closed",
         \A t \in G!Threads : \/ ath'[t] = ath[t]
                             \/ /\ ath[t].pc = "idle" /\ t \in Workers
                                /\ ath'[t].pc = "lock" /\ ath'[t].ev # "none"
                                /\ ath'[t].c \in aids
                             \/ /\ ath[t].pc = "lock"
                                /\ ath'[t].pc = "idle" /\ ath'[t].c = None
  PROVE  AgentInv'
<1>1. ASSUME NEW t \in G!Threads
      PROVE  AgentThread(t)'
  <2>1. AgentThread(t) /\ ath[t].c \in Targets \cup {None} /\ aids \subseteq Targets
    BY AgentFields DEF AgentInv, AgentTypes, G!TypeOK
  <2>2. CASE ath'[t] = ath[t]
    <3>1. CASE ath[t].c = None
      BY <2>1, <2>2, <3>1, AgentNames DEF AgentThread, Locked
    <3>2. CASE ath[t].c # None
      <4> DEFINE c == ath[t].c
      <4>1. /\ aobj'[c].valid = aobj[c].valid /\ aobj'[c].io = aobj[c].io
            /\ aobj'[c].connected = aobj[c].connected
        BY <2>1, <3>2
      <4>2. c \notin aids => \A u \in G!Threads \ {t} : ath[u].c # c => ath'[u].c # c
        BY <3>2
      <4> QED BY <2>1, <2>2, <4>1, <4>2 DEF AgentThread
    <3> QED BY <3>1, <3>2
  <2>3. CASE ath'[t] # ath[t]
    BY <2>1, <2>3, AgentNames DEF AgentThread, Locked
  <2> QED BY <2>2, <2>3
<1>2. ASSUME NEW c \in Targets
      PROVE  AgentConn(c)'
  <2>1. AgentConn(c) /\ aobj[c].io \in G!Threads \cup {None}
    BY AgentFields DEF AgentInv
  <2>2. aobj[c].io # None => ath'[aobj[c].io] = ath[aobj[c].io]
    BY <2>1 DEF AgentConn, Locked
  <2> QED BY <2>1, <2>2 DEF AgentConn
<1> QED BY <1>1, <1>2 DEF AgentInv

\* The ways a thread goes on.
LEMMA AgentGoes ==
  ASSUME AgentTypes, NEW t \in G!Threads, NEW p \in AgentPc, G!Goto(t, p)
  PROVE  /\ ath' \in [G!Threads -> AgentTh]
         /\ ath'[t].pc = p /\ ath'[t].c = ath[t].c /\ ath'[t].ev = ath[t].ev
         /\ ath'[t].flag = ath[t].flag /\ ath'[t].back = ath[t].back
         /\ \A u \in G!Threads \ {t} : ath'[u] = ath[u]
  BY DEF AgentTypes, AgentTh, G!Goto

LEMMA AgentLeaves ==
  ASSUME AgentTypes, NEW t \in G!Threads, G!Leave(t)
  PROVE  /\ ath' \in [G!Threads -> AgentTh]
         /\ ath'[t].pc = "idle" /\ ath'[t].c = None
         /\ \A u \in G!Threads \ {t} : ath'[u] = ath[u]
  BY DEF AgentTypes, AgentTh, AgentPc, G!Leave, G!Idle

LEMMA AgentFrees ==
  ASSUME AgentTypes, NEW t \in G!Threads, NEW f \in {"none", "close"},
         NEW b \in {"failed", "unlock", "after"}, G!AddFree(t, f, b)
  PROVE  /\ ath' \in [G!Threads -> AgentTh]
         /\ ath'[t].pc = "invalid" /\ ath'[t].c = ath[t].c
         /\ ath'[t].flag = f /\ ath'[t].back = b
         /\ \A u \in G!Threads \ {t} : ath'[u] = ath[u]
<1> DEFINE k == ath'[t]
<1>1. ath[t] \in AgentTh /\ ath \in [G!Threads -> AgentTh]
  BY DEF AgentTypes
<1>2. /\ k = [ath[t] EXCEPT !.pc = "invalid", !.flag = f, !.back = b]
      /\ DOMAIN ath' = G!Threads /\ \A u \in G!Threads \ {t} : ath'[u] = ath[u]
  BY <1>1 DEF G!AddFree, AgentTh
<1>3. k \in AgentTh
  BY <1>1, <1>2 DEF AgentTh, AgentPc
<1>4. k.pc = "invalid" /\ k.c = ath[t].c /\ k.flag = f /\ k.back = b
  BY <1>1, <1>2 DEF AgentTh
<1>5. ath' \in [G!Threads -> AgentTh]
  <2>1. ath' = [u \in G!Threads |-> ath'[u]]
    BY <1>1 DEF G!AddFree
  <2> QED BY <2>1, <1>1, <1>2, <1>3
<1> QED BY <1>2, <1>4, <1>5

LEMMA AgentFires ==
  ASSUME AgentTypes, NEW c \in Targets, NEW e \in Notices, G!Fire(c, e)
  PROVE  /\ heard' \in [Targets -> Seq(Notices)] /\ heard'[c] = Append(heard[c], e)
         /\ \A d \in Targets \ {c} : heard'[d] = heard[d]
  BY AppendProperties DEF AgentTypes, G!Fire
-----------------------------------------------------------------------------
(* Connect().                                                              *)
LEMMA AgentConnect ==
  ASSUME AgentInv, NEW a \in Connectors, NEW c \in Targets, G!Connect(a, c)
  PROVE  AgentInv'
<1> DEFINE k == ath'[a]
<1>1. /\ a \in G!Threads /\ AgentThread(a) /\ AgentConn(c) /\ ath[a].pc = "idle"
      /\ AgentTypes /\ ath[a].c = None /\ aobj[c].io \in G!Threads \cup {None}
  BY AgentNames, AgentAt, AgentFields DEF AgentInv, G!Connect, G!At
<1>2. /\ told[c] = "none" /\ asock[c].st = "new" /\ \A u \in G!Threads : ath[u].c # c
      /\ UNCHANGED <<asock, aobj, aids, told, heard>>
  BY DEF G!Connect
<1>3. /\ k = [G!Idle EXCEPT !.pc = "prepare", !.c = c]
      /\ \A u \in G!Threads \ {a} : ath'[u] = ath[u]
      /\ ath' = [u \in G!Threads |-> ath'[u]]
  BY <1>1 DEF G!Connect, AgentTypes
<1>4. k \in AgentTh /\ k.pc = "prepare" /\ k.c = c
  BY <1>3 DEF G!Idle, AgentTh, AgentPc
<1>5. ath' \in [G!Threads -> AgentTh]
  BY <1>1, <1>3, <1>4 DEF AgentTypes
<1>6. abudget' \in [G!Events -> Nat]
  BY <1>1 DEF G!Connect, G!Spend, AgentTypes, G!TypeOK, G!Events
<1>7. AgentTypes'
  BY <1>1, <1>2, <1>5, <1>6 DEF AgentTypes, G!TypeOK
<1>8. aobj[c].io = None
  BY <1>1, <1>2, AgentNames DEF AgentConn
<1>9. AgentThread(a)'
  BY <1>1, <1>2, <1>3, <1>4, <1>8, AgentNames DEF AgentThread, AgentConn, Locked
<1>10. AgentConn(c)'
  BY <1>1, <1>2, <1>8 DEF AgentConn
<1>11. AgentFrame(a, c)
  BY <1>2, <1>3 DEF AgentFrame
<1> QED BY <1>1, <1>2, <1>4, <1>7, <1>8, <1>9, <1>10, <1>11, AgentStep

\* A change of what a connection is.
AgentObj == [valid : BOOLEAN, connected : BOOLEAN, paused : BOOLEAN,
             io : G!Threads \cup {None}, buf : Nat, armed : SUBSET {"read", "write"}]

LEMMA AgentTurns ==
  ASSUME AgentTypes, NEW c \in Targets, NEW o \in AgentObj, aobj' = [aobj EXCEPT ![c] = o]
  PROVE  /\ aobj' \in [Targets -> AgentObj] /\ aobj'[c] = o
         /\ \A d \in Targets \ {c} : aobj'[d] = aobj[d]
  BY DEF AgentTypes, G!TypeOK, AgentObj

LEMMA AgentOpens ==
  ASSUME AgentTypes, NEW c \in Targets, NEW x \in SUBSET {"read", "write"},
         aobj' = [aobj EXCEPT ![c].armed = x, ![c].io = None]
  PROVE  /\ aobj' \in [Targets -> AgentObj]
         /\ aobj'[c].valid = aobj[c].valid /\ aobj'[c].connected = aobj[c].connected
         /\ aobj'[c].io = None
         /\ \A d \in Targets \ {c} : aobj'[d] = aobj[d]
<1> DEFINE o == aobj'[c]
<1>1. aobj[c] \in AgentObj /\ aobj \in [Targets -> AgentObj]
  BY DEF AgentTypes, AgentObj, G!TypeOK
<1>2. /\ o = [aobj[c] EXCEPT !.armed = x, !.io = None]
      /\ aobj' = [d \in Targets |-> aobj'[d]] /\ \A d \in Targets \ {c} : aobj'[d] = aobj[d]
  BY <1>1
<1>3. o \in AgentObj
  BY <1>1, <1>2 DEF AgentObj
<1>4. o.valid = aobj[c].valid /\ o.connected = aobj[c].connected /\ o.io = None
  BY <1>1, <1>2 DEF AgentObj
<1>5. aobj' \in [Targets -> AgentObj]
  BY <1>1, <1>2, <1>3
<1> QED BY <1>2, <1>4, <1>5

LEMMA AgentConnects ==
  ASSUME AgentTypes, NEW c \in Targets, NEW x \in BOOLEAN, aobj' = [aobj EXCEPT ![c].connected = x]
  PROVE  /\ aobj' \in [Targets -> AgentObj] /\ aobj'[c].connected = x
         /\ aobj'[c].valid = aobj[c].valid /\ aobj'[c].io = aobj[c].io
         /\ \A d \in Targets \ {c} : aobj'[d] = aobj[d]
<1> DEFINE o == aobj'[c]
<1>1. aobj[c] \in AgentObj /\ aobj \in [Targets -> AgentObj]
  BY DEF AgentTypes, AgentObj, G!TypeOK
<1>2. /\ o = [aobj[c] EXCEPT !.connected = x]
      /\ aobj' = [d \in Targets |-> aobj'[d]] /\ \A d \in Targets \ {c} : aobj'[d] = aobj[d]
  BY <1>1
<1>3. o \in AgentObj /\ o.connected = x /\ o.valid = aobj[c].valid /\ o.io = aobj[c].io
  BY <1>1, <1>2 DEF AgentObj
<1>4. aobj' \in [Targets -> AgentObj]
  BY <1>1, <1>2, <1>3
<1> QED BY <1>2, <1>3, <1>4

LEMMA AgentUnlocks ==
  ASSUME AgentTypes, NEW c \in Targets, NEW x \in G!Threads \cup {None},
         aobj' = [aobj EXCEPT ![c].io = x]
  PROVE  /\ aobj' \in [Targets -> AgentObj] /\ aobj'[c].io = x
         /\ aobj'[c].valid = aobj[c].valid /\ aobj'[c].connected = aobj[c].connected
         /\ \A d \in Targets \ {c} : aobj'[d] = aobj[d]
<1> DEFINE o == aobj'[c]
<1>1. aobj[c] \in AgentObj /\ aobj \in [Targets -> AgentObj]
  BY DEF AgentTypes, AgentObj, G!TypeOK
<1>2. /\ o = [aobj[c] EXCEPT !.io = x]
      /\ aobj' = [d \in Targets |-> aobj'[d]] /\ \A d \in Targets \ {c} : aobj'[d] = aobj[d]
  BY <1>1
<1>3. o \in AgentObj /\ o.io = x /\ o.valid = aobj[c].valid /\ o.connected = aobj[c].connected
  BY <1>1, <1>2 DEF AgentObj
<1>4. aobj' \in [Targets -> AgentObj]
  BY <1>1, <1>2, <1>3
<1> QED BY <1>2, <1>3, <1>4

LEMMA AgentArms ==
  ASSUME AgentTypes, NEW c \in Targets, NEW x \in SUBSET {"read", "write"},
         aobj' = [aobj EXCEPT ![c].armed = x]
  PROVE  /\ aobj' \in [Targets -> AgentObj] /\ aobj'[c].armed = x
         /\ aobj'[c].valid = aobj[c].valid /\ aobj'[c].connected = aobj[c].connected
         /\ aobj'[c].io = aobj[c].io
         /\ \A d \in Targets \ {c} : aobj'[d] = aobj[d]
<1> DEFINE o == aobj'[c]
<1>1. aobj[c] \in AgentObj /\ aobj \in [Targets -> AgentObj]
  BY DEF AgentTypes, AgentObj, G!TypeOK
<1>2. /\ o = [aobj[c] EXCEPT !.armed = x]
      /\ aobj' = [d \in Targets |-> aobj'[d]] /\ \A d \in Targets \ {c} : aobj'[d] = aobj[d]
  BY <1>1
<1>3. /\ o \in AgentObj /\ o.armed = x /\ o.valid = aobj[c].valid
      /\ o.connected = aobj[c].connected /\ o.io = aobj[c].io
  BY <1>1, <1>2 DEF AgentObj
<1>4. aobj' \in [Targets -> AgentObj]
  BY <1>1, <1>2, <1>3
<1> QED BY <1>2, <1>3, <1>4

LEMMA AgentCounts ==
  ASSUME AgentTypes, NEW c \in Targets, NEW x \in Nat, aobj' = [aobj EXCEPT ![c].buf = x]
  PROVE  /\ aobj' \in [Targets -> AgentObj] /\ aobj'[c].buf = x
         /\ aobj'[c].valid = aobj[c].valid /\ aobj'[c].connected = aobj[c].connected
         /\ aobj'[c].io = aobj[c].io
         /\ \A d \in Targets \ {c} : aobj'[d] = aobj[d]
<1> DEFINE o == aobj'[c]
<1>1. aobj[c] \in AgentObj /\ aobj \in [Targets -> AgentObj]
  BY DEF AgentTypes, AgentObj, G!TypeOK
<1>2. /\ o = [aobj[c] EXCEPT !.buf = x]
      /\ aobj' = [d \in Targets |-> aobj'[d]] /\ \A d \in Targets \ {c} : aobj'[d] = aobj[d]
  BY <1>1
<1>3. /\ o \in AgentObj /\ o.buf = x /\ o.valid = aobj[c].valid
      /\ o.connected = aobj[c].connected /\ o.io = aobj[c].io
  BY <1>1, <1>2 DEF AgentObj
<1>4. aobj' \in [Targets -> AgentObj]
  BY <1>1, <1>2, <1>3
<1> QED BY <1>2, <1>3, <1>4

LEMMA AgentPauses ==
  ASSUME AgentTypes, NEW c \in Targets, NEW x \in BOOLEAN, aobj' = [aobj EXCEPT ![c].paused = x]
  PROVE  /\ aobj' \in [Targets -> AgentObj] /\ aobj'[c].paused = x
         /\ aobj'[c].valid = aobj[c].valid /\ aobj'[c].connected = aobj[c].connected
         /\ aobj'[c].io = aobj[c].io
         /\ \A d \in Targets \ {c} : aobj'[d] = aobj[d]
<1> DEFINE o == aobj'[c]
<1>1. aobj[c] \in AgentObj /\ aobj \in [Targets -> AgentObj]
  BY DEF AgentTypes, AgentObj, G!TypeOK
<1>2. /\ o = [aobj[c] EXCEPT !.paused = x]
      /\ aobj' = [d \in Targets |-> aobj'[d]] /\ \A d \in Targets \ {c} : aobj'[d] = aobj[d]
  BY <1>1
<1>3. /\ o \in AgentObj /\ o.paused = x /\ o.valid = aobj[c].valid
      /\ o.connected = aobj[c].connected /\ o.io = aobj[c].io
  BY <1>1, <1>2 DEF AgentObj
<1>4. aobj' \in [Targets -> AgentObj]
  BY <1>1, <1>2, <1>3
<1> QED BY <1>2, <1>3, <1>4
AgentSock == [st : {"new", "connecting", "open", "failed", "closed"}, in : Nat,
              eof : BOOLEAN, full : BOOLEAN]

LEMMA AgentSockets ==
  ASSUME AgentTypes, NEW c \in Targets,
         NEW x \in {"new", "connecting", "open", "failed", "closed"},
         asock' = [asock EXCEPT ![c].st = x]
  PROVE  /\ asock' \in [Targets -> AgentSock] /\ asock'[c].st = x
         /\ \A d \in Targets \ {c} : asock'[d] = asock[d]
<1>1. asock \in [Targets -> AgentSock]
  BY DEF AgentTypes, G!TypeOK, AgentSock
<1> QED BY <1>1 DEF AgentSock

LEMMA AgentReads ==
  ASSUME AgentTypes, NEW c \in Targets, NEW x \in Nat, asock' = [asock EXCEPT ![c].in = x]
  PROVE  /\ asock' \in [Targets -> AgentSock] /\ asock'[c].st = asock[c].st
         /\ \A d \in Targets \ {c} : asock'[d] = asock[d]
<1>1. asock \in [Targets -> AgentSock]
  BY DEF AgentTypes, G!TypeOK, AgentSock
<1> QED BY <1>1 DEF AgentSock

\* Where a step of a thread starts.
LEMMA AgentFrom ==
  ASSUME AgentInv, NEW t \in G!Threads, NEW c \in Targets, ath[t].c = c
  PROVE  /\ AgentTypes /\ AgentThread(t) /\ AgentConn(c)
         /\ ath[t].pc \in AgentPc /\ aobj[c].io \in G!Threads \cup {None}
         /\ ath[t].pc \in Locked => aobj[c].io = t
  BY AgentFields DEF AgentInv, AgentThread

LEMMA AgentPrepare ==
  ASSUME AgentInv, NEW a \in Connectors, NEW c \in Targets, ath[a].c = c, G!Prepare(a)
  PROVE  AgentInv'
<1>1. a \in G!Threads /\ ath[a].pc = "prepare"
  BY AgentNames DEF G!Prepare, G!At
<1>2. AgentTypes /\ AgentThread(a) /\ AgentConn(c)
  BY <1>1, AgentFrom
<1>3. UNCHANGED <<asock, aobj, aids, abudget, heard>>
  BY DEF G!Prepare
<1>4. CASE G!Goto(a, "publish") /\ told' = told
  <2>1. /\ ath' \in [G!Threads -> AgentTh] /\ ath'[a].pc = "publish" /\ ath'[a].c = c
        /\ \A u \in G!Threads \ {a} : ath'[u] = ath[u]
    BY <1>1, <1>2, <1>4, AgentGoes DEF AgentPc
  <2>2. AgentTypes' /\ AgentFrame(a, c)
    BY <1>2, <1>3, <1>4, <2>1 DEF AgentTypes, G!TypeOK, AgentFrame
  <2>3. AgentThread(a)'
    BY <1>1, <1>2, <1>3, <1>4, <2>1, AgentNames DEF AgentThread, Locked
  <2>4. AgentConn(c)' /\ aobj[c].io = None
    BY <1>1, <1>2, <1>3, <1>4 DEF AgentConn, AgentThread
  <2> QED BY <1>1, <1>2, <2>1, <2>2, <2>3, <2>4, AgentStep
<1>5. CASE G!Leave(a) /\ told' = [told EXCEPT ![c] = "false"]
  <2>1. /\ ath' \in [G!Threads -> AgentTh] /\ ath'[a].pc = "idle" /\ ath'[a].c = None
        /\ \A u \in G!Threads \ {a} : ath'[u] = ath[u]
    BY <1>1, <1>2, <1>5, AgentLeaves
  <2>2. told' \in [Targets -> {"none", "true", "false"}] /\ told'[c] = "false"
        /\ \A d \in Targets \ {c} : told'[d] = told[d]
    BY <1>2, <1>5 DEF AgentTypes, G!TypeOK
  <2>3. AgentTypes' /\ AgentFrame(a, c)
    BY <1>2, <1>3, <2>1, <2>2 DEF AgentTypes, G!TypeOK, AgentFrame
  <2>4. AgentThread(a)'
    BY <2>1, AgentNames DEF AgentThread, Locked
  <2>5. AgentConn(c)' /\ aobj[c].io = None
    BY <1>1, <1>2, <1>3, <2>2 DEF AgentConn, AgentThread
  <2> QED BY <1>1, <1>2, <2>1, <2>3, <2>4, <2>5, AgentStep
<1> QED BY <1>4, <1>5 DEF G!Prepare

LEMMA AgentPublish ==
  ASSUME AgentInv, NEW a \in Connectors, NEW c \in Targets, ath[a].c = c, G!Publish(a)
  PROVE  AgentInv'
<1>1. a \in G!Threads /\ ath[a].pc = "publish"
  BY AgentNames DEF G!Publish, G!At
<1>2. AgentTypes /\ AgentThread(a) /\ AgentConn(c)
  BY <1>1, AgentFrom
<1>3. UNCHANGED <<asock, told, abudget, heard>> /\ aids' = aids \cup {c}
  BY DEF G!Publish
<1>4. /\ ath' \in [G!Threads -> AgentTh] /\ ath'[a].pc = "connect" /\ ath'[a].c = c
      /\ \A u \in G!Threads \ {a} : ath'[u] = ath[u]
  BY <1>1, <1>2, AgentGoes DEF AgentPc, G!Publish
<1> DEFINE o == [G!NewObj EXCEPT !.valid = TRUE, !.io = a]
<1>5. /\ aobj' = [aobj EXCEPT ![c] = o] /\ o \in AgentObj
      /\ o.valid /\ ~o.connected /\ o.io = a
  <2>1. G!NewObj \in AgentObj /\ ~G!NewObj.connected
    BY DEF G!NewObj, AgentObj
  <2>2. o \in AgentObj
    BY <1>1, <2>1 DEF AgentObj
  <2>3. o.valid /\ ~o.connected /\ o.io = a
    BY <1>1, <2>1 DEF AgentObj
  <2> QED BY <2>2, <2>3 DEF G!Publish
<1> HIDE DEF o
<1>6. /\ aobj' \in [Targets -> AgentObj] /\ aobj'[c] = o
      /\ \A d \in Targets \ {c} : aobj'[d] = aobj[d]
  BY <1>2, <1>5, AgentTurns
<1>7. AgentTypes' /\ AgentFrame(a, c)
  BY <1>2, <1>3, <1>4, <1>6 DEF AgentTypes, G!TypeOK, AgentObj, AgentFrame
<1>8. /\ aobj[c].io = None /\ told[c] = "none" /\ heard[c] = <<>> /\ asock[c].st = "new"
      /\ aobj'[c].valid /\ ~aobj'[c].connected /\ aobj'[c].io = a
  BY <1>1, <1>2, <1>5, <1>6 DEF AgentThread, AgentConn
<1>9. AgentThread(a)'
  BY <1>1, <1>3, <1>4, <1>8, AgentNames DEF AgentThread, Locked
<1>10. AgentConn(c)'
  BY <1>1, <1>3, <1>4, <1>8, AgentNames DEF AgentConn, Locked, AgentPc
<1> QED BY <1>1, <1>4, <1>7, <1>8, <1>9, <1>10, AgentStep

LEMMA AgentAsync ==
  ASSUME AgentInv, NEW a \in Connectors, NEW c \in Targets, ath[a].c = c, G!ConnectAsync(a)
  PROVE  AgentInv'
<1>1. a \in G!Threads /\ ath[a].pc = "connect"
  BY AgentNames DEF G!ConnectAsync, G!At
<1>2. AgentTypes /\ AgentThread(a) /\ AgentConn(c) /\ aobj[c].io = a
  BY <1>1, AgentFrom DEF Locked, AgentPc
<1>3. UNCHANGED <<aids, abudget, heard>>
  BY DEF G!ConnectAsync
<1>4. CASE /\ \E st \in {"connecting", "open"} : asock' = [asock EXCEPT ![c].st = st]
           /\ aobj' = [aobj EXCEPT ![c].armed = {"write"}, ![c].io = None]
           /\ told' = [told EXCEPT ![c] = "true"] /\ G!Leave(a)
  <2>1. /\ ath' \in [G!Threads -> AgentTh] /\ ath'[a].pc = "idle" /\ ath'[a].c = None
        /\ \A u \in G!Threads \ {a} : ath'[u] = ath[u]
    BY <1>1, <1>2, <1>4, AgentLeaves
  <2>2. /\ aobj' \in [Targets -> AgentObj] /\ aobj'[c].valid = aobj[c].valid
        /\ aobj'[c].connected = aobj[c].connected /\ aobj'[c].io = None
        /\ \A d \in Targets \ {c} : aobj'[d] = aobj[d]
    <3>1. {"write"} \in SUBSET {"read", "write"}
      OBVIOUS
    <3> QED BY <1>2, <1>4, <3>1, AgentOpens
  <2>3. /\ told' \in [Targets -> {"none", "true", "false"}] /\ told'[c] = "true"
        /\ \A d \in Targets \ {c} : told'[d] = told[d]
    BY <1>2, <1>4 DEF AgentTypes, G!TypeOK
  <2>4. /\ asock'[c].st \in {"connecting", "open"} /\ asock' \in [Targets -> AgentSock]
        /\ \A d \in Targets \ {c} : asock'[d] = asock[d]
    <3>1. PICK x \in {"connecting", "open"} : asock' = [asock EXCEPT ![c].st = x]
      BY <1>4
    <3> QED BY <1>2, <3>1, AgentSockets
  <2>5. AgentTypes' /\ AgentFrame(a, c)
    BY <1>2, <1>3, <2>1, <2>2, <2>3, <2>4
       DEF AgentTypes, G!TypeOK, AgentObj, AgentSock, AgentFrame
  <2>6. AgentThread(a)'
    BY <2>1, AgentNames DEF AgentThread, Locked
  <2>7. AgentConn(c)'
    BY <1>1, <1>2, <1>3, <2>2, <2>3, <2>4 DEF AgentThread, AgentConn
  <2> QED BY <1>1, <1>2, <2>1, <2>5, <2>6, <2>7, AgentStep
<1>5. CASE G!AddFree(a, "none", "failed") /\ UNCHANGED <<asock, aobj, told>>
  <2>1. /\ ath' \in [G!Threads -> AgentTh] /\ ath'[a].pc = "invalid" /\ ath'[a].c = c
        /\ ath'[a].flag = "none" /\ ath'[a].back = "failed"
        /\ \A u \in G!Threads \ {a} : ath'[u] = ath[u]
    BY <1>1, <1>2, <1>5, AgentFrees
  <2>2. AgentTypes' /\ AgentFrame(a, c)
    BY <1>2, <1>3, <1>5, <2>1 DEF AgentTypes, G!TypeOK, AgentFrame
  <2>3. AgentThread(a)'
    BY <1>1, <1>2, <1>3, <1>5, <2>1, AgentNames DEF AgentThread, Locked, AgentPc
  <2>4. AgentConn(c)'
    BY <1>1, <1>2, <1>3, <1>5, <2>1, AgentNames DEF AgentConn, Locked, AgentPc
  <2> QED BY <1>1, <1>2, <2>1, <2>2, <2>3, <2>4, AgentStep
<1> QED BY <1>4, <1>5 DEF G!ConnectAsync

LEMMA AgentSync ==
  ASSUME AgentInv, NEW a \in Connectors, NEW c \in Targets, ath[a].c = c, G!ConnectSync(a)
  PROVE  AgentInv'
<1>1. a \in G!Threads /\ ath[a].pc = "connect"
  BY AgentNames DEF G!ConnectSync, G!At
<1>2. AgentTypes /\ AgentThread(a) /\ AgentConn(c) /\ aobj[c].io = a
  BY <1>1, AgentFrom DEF Locked, AgentPc
<1>3. UNCHANGED <<aids, abudget, told>>
  BY DEF G!ConnectSync
<1>4. CASE /\ asock' = [asock EXCEPT ![c].st = "open"]
           /\ aobj' = [aobj EXCEPT ![c].connected = TRUE]
           /\ G!Fire(c, "connect") /\ G!Goto(a, "on_connect")
  <2>1. /\ ath' \in [G!Threads -> AgentTh] /\ ath'[a].pc = "on_connect" /\ ath'[a].c = c
        /\ \A u \in G!Threads \ {a} : ath'[u] = ath[u]
    BY <1>1, <1>2, <1>4, AgentGoes DEF AgentPc
  <2>2. /\ aobj' \in [Targets -> AgentObj] /\ aobj'[c].valid = aobj[c].valid
        /\ aobj'[c].connected /\ aobj'[c].io = a
        /\ \A d \in Targets \ {c} : aobj'[d] = aobj[d]
    BY <1>2, <1>4, AgentConnects
  <2>3. /\ asock'[c].st = "open" /\ asock' \in [Targets -> AgentSock]
        /\ \A d \in Targets \ {c} : asock'[d] = asock[d]
    BY <1>2, <1>4, AgentSockets
  <2>4. /\ heard' \in [Targets -> Seq(Notices)] /\ Opening(heard'[c])
        /\ \A d \in Targets \ {c} : heard'[d] = heard[d]
    <3>1. heard[c] = <<>> /\ heard[c] \in Seq(Notices) /\ "connect" \in Notices
      BY <1>1, <1>2 DEF AgentThread, AgentTypes, Notices
    <3> QED BY <1>2, <1>4, <3>1, AgentFires, Hears
  <2>5. AgentTypes' /\ AgentFrame(a, c)
    BY <1>2, <1>3, <2>1, <2>2, <2>3, <2>4
       DEF AgentTypes, G!TypeOK, AgentObj, AgentSock, AgentFrame
  <2>6. AgentThread(a)'
    BY <1>1, <1>2, <1>3, <2>1, <2>2, <2>4, AgentNames DEF AgentThread, Locked, AgentPc
  <2>7. AgentConn(c)'
    BY <1>1, <1>2, <2>1, <2>2, <2>3, AgentNames DEF AgentConn, Locked, AgentPc
  <2> QED BY <1>1, <1>2, <2>1, <2>5, <2>6, <2>7, AgentStep
<1>5. CASE G!AddFree(a, "none", "failed") /\ UNCHANGED <<asock, aobj, heard>>
  <2>1. /\ ath' \in [G!Threads -> AgentTh] /\ ath'[a].pc = "invalid" /\ ath'[a].c = c
        /\ ath'[a].flag = "none" /\ ath'[a].back = "failed"
        /\ \A u \in G!Threads \ {a} : ath'[u] = ath[u]
    BY <1>1, <1>2, <1>5, AgentFrees
  <2>2. AgentTypes' /\ AgentFrame(a, c)
    BY <1>2, <1>3, <1>5, <2>1 DEF AgentTypes, G!TypeOK, AgentFrame
  <2>3. AgentThread(a)'
    BY <1>1, <1>2, <1>3, <1>5, <2>1, AgentNames DEF AgentThread, Locked, AgentPc
  <2>4. AgentConn(c)'
    BY <1>1, <1>2, <1>3, <1>5, <2>1, AgentNames DEF AgentConn, Locked, AgentPc
  <2> QED BY <1>1, <1>2, <2>1, <2>2, <2>3, <2>4, AgentStep
<1> QED BY <1>4, <1>5 DEF G!ConnectSync

LEMMA AgentOnConnectSync ==
  ASSUME AgentInv, NEW a \in Connectors, NEW c \in Targets, ath[a].c = c, G!OnConnectSync(a)
  PROVE  AgentInv'
<1>1. a \in G!Threads /\ ath[a].pc = "on_connect"
  BY AgentNames DEF G!OnConnectSync, G!At
<1>2. AgentTypes /\ AgentThread(a) /\ AgentConn(c) /\ aobj[c].io = a
  BY <1>1, AgentFrom DEF Locked, AgentPc
<1>3. /\ UNCHANGED <<asock, aids, abudget>> /\ Opening(heard[c])
      /\ heard[c] \in Seq(Notices) /\ "connected" \in Notices /\ "refused" \in Notices
  BY <1>1, <1>2 DEF G!OnConnectSync, AgentThread, AgentTypes, Notices
<1>4. CASE /\ aobj' = [aobj EXCEPT ![c].armed = G!Filter(aobj[c]), ![c].io = None]
           /\ told' = [told EXCEPT ![c] = "true"]
           /\ G!Fire(c, "connected") /\ G!Leave(a)
  <2>1. /\ ath' \in [G!Threads -> AgentTh] /\ ath'[a].pc = "idle" /\ ath'[a].c = None
        /\ \A u \in G!Threads \ {a} : ath'[u] = ath[u]
    BY <1>1, <1>2, <1>4, AgentLeaves
  <2>2. /\ aobj' \in [Targets -> AgentObj] /\ aobj'[c].valid = aobj[c].valid
        /\ aobj'[c].connected = aobj[c].connected /\ aobj'[c].io = None
        /\ \A d \in Targets \ {c} : aobj'[d] = aobj[d]
    <3>1. G!Filter(aobj[c]) \in SUBSET {"read", "write"}
      BY DEF G!Filter
    <3> QED BY <1>2, <1>4, <3>1, AgentOpens
  <2>3. /\ told' \in [Targets -> {"none", "true", "false"}] /\ told'[c] = "true"
        /\ \A d \in Targets \ {c} : told'[d] = told[d]
    BY <1>2, <1>4 DEF AgentTypes, G!TypeOK
  <2>4. /\ heard' \in [Targets -> Seq(Notices)] /\ Lives(heard'[c])
        /\ \A d \in Targets \ {c} : heard'[d] = heard[d]
    BY <1>2, <1>3, <1>4, AgentFires, Hears
  <2>5. AgentTypes' /\ AgentFrame(a, c)
    BY <1>2, <1>3, <2>1, <2>2, <2>3, <2>4
       DEF AgentTypes, G!TypeOK, AgentObj, AgentSock, AgentFrame
  <2>6. AgentThread(a)'
    BY <2>1, AgentNames DEF AgentThread, Locked
  <2>7. AgentConn(c)'
    BY <1>1, <1>2, <1>3, <2>2, <2>3, <2>4 DEF AgentThread, AgentConn
  <2> QED BY <1>1, <1>2, <2>1, <2>5, <2>6, <2>7, AgentStep
<1>5. ASSUME NEW e \in {"connected", "refused"}, G!AddFree(a, "none", "failed"),
             G!Fire(c, e), UNCHANGED <<aobj, told>>
      PROVE  AgentInv'
  <2>1. /\ ath' \in [G!Threads -> AgentTh] /\ ath'[a].pc = "invalid" /\ ath'[a].c = c
        /\ ath'[a].flag = "none" /\ ath'[a].back = "failed"
        /\ \A u \in G!Threads \ {a} : ath'[u] = ath[u]
    BY <1>1, <1>2, <1>5, AgentFrees
  <2>2. /\ heard' \in [Targets -> Seq(Notices)]
        /\ Refused(heard'[c]) \/ Lives(heard'[c])
        /\ \A d \in Targets \ {c} : heard'[d] = heard[d]
    BY <1>2, <1>3, <1>5, AgentFires, Hears
  <2>3. AgentTypes' /\ AgentFrame(a, c)
    <3>1. aobj' = aobj /\ told' = told /\ asock' = asock /\ aids' = aids /\ abudget' = abudget
      BY <1>3, <1>5
    <3>2. AgentTypes'
      BY <1>2, <2>1, <2>2, <3>1 DEF AgentTypes, G!TypeOK
    <3>3. AgentFrame(a, c)
      BY <2>1, <2>2, <3>1 DEF AgentFrame
    <3> QED BY <3>2, <3>3
  <2>4. AgentThread(a)'
    BY <1>1, <1>2, <1>3, <1>5, <2>1, <2>2, AgentNames DEF AgentThread, Locked, AgentPc
  <2>5. AgentConn(c)'
    BY <1>1, <1>2, <1>3, <1>5, <2>1, AgentNames DEF AgentConn, Locked, AgentPc
  <2> QED BY <1>1, <1>2, <2>1, <2>3, <2>4, <2>5, AgentStep
<1> QED BY <1>4, <1>5 DEF G!OnConnectSync

LEMMA AgentFailed ==
  ASSUME AgentInv, NEW a \in Connectors, NEW c \in Targets, ath[a].c = c, G!ConnectFailed(a)
  PROVE  AgentInv'
<1>1. a \in G!Threads /\ ath[a].pc = "failed"
  BY AgentNames DEF G!ConnectFailed, G!At
<1>2. AgentTypes /\ AgentThread(a) /\ AgentConn(c) /\ aobj[c].io = a
  BY <1>1, AgentFrom DEF Locked, AgentPc
<1>3. UNCHANGED <<asock, aids, abudget, heard>>
  BY DEF G!ConnectFailed
<1>4. /\ ath' \in [G!Threads -> AgentTh] /\ ath'[a].pc = "idle" /\ ath'[a].c = None
      /\ \A u \in G!Threads \ {a} : ath'[u] = ath[u]
  BY <1>1, <1>2, AgentLeaves DEF G!ConnectFailed
<1>5. /\ aobj' \in [Targets -> AgentObj] /\ aobj'[c].valid = aobj[c].valid
      /\ aobj'[c].io = None
      /\ \A d \in Targets \ {c} : aobj'[d] = aobj[d]
  BY <1>2, AgentUnlocks DEF G!ConnectFailed
<1>6. /\ told' \in [Targets -> {"none", "true", "false"}] /\ told'[c] = "false"
      /\ \A d \in Targets \ {c} : told'[d] = told[d]
  BY <1>2 DEF G!ConnectFailed, AgentTypes, G!TypeOK
<1>7. AgentTypes' /\ AgentFrame(a, c)
  BY <1>2, <1>3, <1>4, <1>5, <1>6 DEF AgentTypes, G!TypeOK, AgentObj, AgentFrame
<1>8. AgentThread(a)'
  BY <1>4, AgentNames DEF AgentThread, Locked
<1>9. AgentConn(c)'
  BY <1>1, <1>2, <1>3, <1>5, <1>6 DEF AgentThread, AgentConn
<1> QED BY <1>1, <1>2, <1>4, <1>7, <1>8, <1>9, AgentStep
-----------------------------------------------------------------------------
(* The workers.                                                            *)

\* From here to there with nothing else changed, or with a change of what was heard.
LEMMA AgentMoves ==
  ASSUME AgentInv, NEW t \in G!Threads, NEW c \in Targets, ath[t].c = c, ath[t].pc \in Locked,
         ath' \in [G!Threads -> AgentTh], ath'[t].c = c, ath'[t].pc \in Locked,
         \A u \in G!Threads \ {t} : ath'[u] = ath[u],
         aobj' \in [Targets -> AgentObj], \A d \in Targets \ {c} : aobj'[d] = aobj[d],
         aobj'[c].valid = aobj[c].valid, aobj'[c].io = aobj[c].io,
         asock' \in [Targets -> AgentSock], \A d \in Targets \ {c} : asock'[d] = asock[d],
         asock'[c].st = asock[c].st,
         heard' \in [Targets -> Seq(Notices)], \A d \in Targets \ {c} : heard'[d] = heard[d],
         UNCHANGED <<aids, told, abudget>>, AgentThread(t)'
  PROVE  AgentInv'
<1>1. AgentTypes /\ AgentThread(t) /\ AgentConn(c) /\ aobj[c].io = t /\ t # None
  BY AgentFrom, AgentNames
<1>2. AgentTypes' /\ AgentFrame(t, c)
  BY <1>1 DEF AgentTypes, G!TypeOK, AgentObj, AgentSock, AgentFrame
<1>3. AgentConn(c)'
  BY <1>1 DEF AgentConn
<1> QED BY <1>1, <1>2, <1>3, AgentStep

LEMMA AgentLock ==
  ASSUME AgentInv, NEW w \in Workers, NEW c \in Targets, ath[w].c = c, G!LockIo(w)
  PROVE  AgentInv'
<1>1. w \in G!Threads /\ w \notin Connectors /\ ath[w].pc = "lock"
  BY AgentNames DEF G!LockIo, G!At
<1>2. /\ AgentTypes /\ AgentThread(w) /\ AgentConn(c)
      /\ ath[w].ev \in {"read", "write", "user"}
  <2>1. AgentTypes /\ AgentThread(w) /\ AgentConn(c)
    BY <1>1, AgentFrom
  <2> QED BY <2>1, <1>1, AgentFields DEF AgentThread
<1>3. UNCHANGED <<asock, aids, abudget, told, heard>>
  BY DEF G!LockIo
<1>4. CASE ~aobj[c].valid
  <2>1. G!Leave(w) /\ aobj' = aobj
    BY <1>4 DEF G!LockIo
  <2>2. /\ ath' \in [G!Threads -> AgentTh] /\ ath'[w].pc = "idle" /\ ath'[w].c = None
        /\ \A u \in G!Threads \ {w} : ath'[u] = ath[u]
    BY <1>1, <1>2, <2>1, AgentLeaves
  <2>3. AgentTypes'
    BY <1>2, <1>3, <2>1, <2>2 DEF AgentTypes, G!TypeOK
  <2> QED BY <1>1, <1>3, <2>1, <2>2, <2>3, AgentCalm
<1>5. CASE aobj[c].valid
  <2> DEFINE p == IF aobj[c].connected THEN ath[w].ev ELSE "handle_connect"
  <2>1. aobj[c].io = None /\ aobj' = [aobj EXCEPT ![c].io = w] /\ G!Goto(w, p)
    BY <1>5 DEF G!LockIo
  <2>2. p \in AgentPc
    BY <1>2 DEF AgentPc
  <2>3. /\ ath' \in [G!Threads -> AgentTh] /\ ath'[w].pc = p /\ ath'[w].c = c
        /\ \A u \in G!Threads \ {w} : ath'[u] = ath[u]
    BY <1>1, <1>2, <2>1, <2>2, AgentGoes
  <2>4. /\ aobj' \in [Targets -> AgentObj] /\ aobj'[c].valid = aobj[c].valid
        /\ aobj'[c].connected = aobj[c].connected /\ aobj'[c].io = w
        /\ \A d \in Targets \ {c} : aobj'[d] = aobj[d]
    BY <1>1, <1>2, <2>1, AgentUnlocks
  <2>5. AgentTypes' /\ AgentFrame(w, c)
    BY <1>2, <1>3, <2>3, <2>4 DEF AgentTypes, G!TypeOK, AgentObj, AgentFrame
  <2>6. told[c] = "true"
    BY <1>2, <1>5, <2>1, AgentFields DEF AgentConn
  <2>7. AgentThread(w)'
    BY <1>1, <1>2, <1>3, <1>5, <2>1, <2>3, <2>4, <2>6, AgentNames
       DEF AgentThread, AgentConn, Locked, AgentPc
  <2>8. AgentConn(c)'
    BY <1>1, <1>2, <1>3, <2>3, <2>4, AgentNames DEF AgentConn, Locked, AgentPc
  <2> QED BY <1>1, <1>2, <2>1, <2>3, <2>5, <2>7, <2>8, AgentStep
<1> QED BY <1>4, <1>5

\* A worker that has csIo.
LEMMA AgentHas ==
  ASSUME AgentInv, NEW w \in Workers, NEW c \in Targets, ath[w].c = c, ath[w].pc \in Locked
  PROVE  /\ w \in G!Threads /\ w \notin Connectors /\ AgentTypes /\ AgentThread(w) /\ AgentConn(c)
         /\ aobj[c].io = w /\ told[c] = "true"
         /\ aobj \in [Targets -> AgentObj] /\ asock \in [Targets -> AgentSock]
         /\ heard \in [Targets -> Seq(Notices)] /\ heard[c] \in Seq(Notices)
<1>1. w \in G!Threads /\ w \notin Connectors
  BY AgentNames
<1>2. AgentTypes /\ AgentThread(w) /\ AgentConn(c) /\ aobj[c].io = w
  BY <1>1, AgentFrom
<1> QED BY <1>1, <1>2 DEF AgentThread, AgentTypes, G!TypeOK, AgentObj, AgentSock

LEMMA AgentHandle ==
  ASSUME AgentInv, NEW w \in Workers, NEW c \in Targets, ath[w].c = c, G!HandleConnect(w)
  PROVE  AgentInv'
<1>1. ath[w].pc = "handle_connect" /\ ath[w].pc \in Locked
  BY DEF G!HandleConnect, G!At, Locked, AgentPc
<1>2. /\ w \in G!Threads /\ w \notin Connectors /\ AgentTypes /\ AgentThread(w) /\ AgentConn(c)
      /\ aobj[c].io = w /\ told[c] = "true"
      /\ aobj \in [Targets -> AgentObj] /\ asock \in [Targets -> AgentSock]
      /\ heard \in [Targets -> Seq(Notices)] /\ heard[c] \in Seq(Notices)
  BY <1>1, AgentHas
<1>3. UNCHANGED <<asock, aids, abudget, told>> /\ aobj[c].valid /\ heard[c] = <<>>
  BY <1>1, <1>2 DEF G!HandleConnect, AgentThread
<1>4. CASE G!AddFree(w, "close", "unlock") /\ UNCHANGED <<aobj, heard>>
  <2>1. /\ ath' \in [G!Threads -> AgentTh] /\ ath'[w].pc = "invalid" /\ ath'[w].c = c
        /\ ath'[w].flag = "close" /\ ath'[w].back = "unlock"
        /\ \A u \in G!Threads \ {w} : ath'[u] = ath[u]
    BY <1>1, <1>2, <1>4, AgentFrees
  <2>2. AgentThread(w)'
    BY <1>2, <1>3, <1>4, <2>1, AgentNames DEF AgentThread, Locked, AgentPc
  <2> QED BY <1>1, <1>2, <1>3, <1>4, <2>1, <2>2, AgentMoves DEF Locked, AgentPc
<1>5. CASE /\ aobj' = [aobj EXCEPT ![c].connected = TRUE]
           /\ G!Fire(c, "connect") /\ G!Goto(w, "on_connect")
  <2>1. /\ ath' \in [G!Threads -> AgentTh] /\ ath'[w].pc = "on_connect" /\ ath'[w].c = c
        /\ \A u \in G!Threads \ {w} : ath'[u] = ath[u]
    BY <1>1, <1>2, <1>5, AgentGoes DEF AgentPc
  <2>2. /\ aobj' \in [Targets -> AgentObj] /\ aobj'[c].valid = aobj[c].valid
        /\ aobj'[c].connected /\ aobj'[c].io = w
        /\ \A d \in Targets \ {c} : aobj'[d] = aobj[d]
    BY <1>2, <1>5, AgentConnects
  <2>3. /\ heard' \in [Targets -> Seq(Notices)] /\ Opening(heard'[c])
        /\ \A d \in Targets \ {c} : heard'[d] = heard[d]
    <3>1. "connect" \in Notices
      BY DEF Notices
    <3> QED BY <1>2, <1>3, <1>5, <3>1, AgentFires, Hears
  <2>4. AgentThread(w)'
    BY <1>2, <1>3, <2>1, <2>2, <2>3, AgentNames DEF AgentThread, Locked, AgentPc
  <2> QED BY <1>1, <1>2, <1>3, <2>1, <2>2, <2>3, <2>4, AgentMoves DEF Locked, AgentPc
<1> QED BY <1>4, <1>5 DEF G!HandleConnect

LEMMA AgentOnConnect ==
  ASSUME AgentInv, NEW w \in Workers, NEW c \in Targets, ath[w].c = c, G!OnConnect(w)
  PROVE  AgentInv'
<1>1. ath[w].pc = "on_connect" /\ ath[w].pc \in Locked
  BY DEF G!OnConnect, G!At, Locked, AgentPc
<1>2. /\ w \in G!Threads /\ w \notin Connectors /\ AgentTypes /\ AgentThread(w) /\ AgentConn(c)
      /\ aobj[c].io = w /\ told[c] = "true"
      /\ aobj \in [Targets -> AgentObj] /\ asock \in [Targets -> AgentSock]
      /\ heard \in [Targets -> Seq(Notices)] /\ heard[c] \in Seq(Notices)
  BY <1>1, AgentHas
<1>3. /\ UNCHANGED <<asock, aids, abudget, told>> /\ aobj[c].valid /\ aobj[c].connected
      /\ Opening(heard[c]) /\ "connected" \in Notices /\ "refused" \in Notices
  BY <1>1, <1>2 DEF G!OnConnect, AgentThread, Notices
<1>4. CASE /\ aobj' = [aobj EXCEPT ![c].armed = G!Filter(aobj[c])]
           /\ G!Fire(c, "connected") /\ G!Goto(w, "unlock")
  <2>1. /\ ath' \in [G!Threads -> AgentTh] /\ ath'[w].pc = "unlock" /\ ath'[w].c = c
        /\ \A u \in G!Threads \ {w} : ath'[u] = ath[u]
    BY <1>1, <1>2, <1>4, AgentGoes DEF AgentPc
  <2>2. /\ aobj' \in [Targets -> AgentObj] /\ aobj'[c].valid = aobj[c].valid
        /\ aobj'[c].connected = aobj[c].connected /\ aobj'[c].io = w
        /\ \A d \in Targets \ {c} : aobj'[d] = aobj[d]
    <3>1. G!Filter(aobj[c]) \in SUBSET {"read", "write"}
      BY DEF G!Filter
    <3> QED BY <1>2, <1>4, <3>1, AgentArms
  <2>3. /\ heard' \in [Targets -> Seq(Notices)] /\ Lives(heard'[c])
        /\ \A d \in Targets \ {c} : heard'[d] = heard[d]
    BY <1>2, <1>3, <1>4, AgentFires, Hears
  <2>4. AgentThread(w)'
    BY <1>2, <1>3, <2>1, <2>2, <2>3, AgentNames DEF AgentThread, Locked, AgentPc
  <2> QED BY <1>1, <1>2, <1>3, <2>1, <2>2, <2>3, <2>4, AgentMoves DEF Locked, AgentPc
<1>5. CASE G!AddFree(w, "none", "unlock") /\ G!Fire(c, "refused") /\ aobj' = aobj
  <2>1. /\ ath' \in [G!Threads -> AgentTh] /\ ath'[w].pc = "invalid" /\ ath'[w].c = c
        /\ ath'[w].flag = "none" /\ ath'[w].back = "unlock"
        /\ \A u \in G!Threads \ {w} : ath'[u] = ath[u]
    BY <1>1, <1>2, <1>5, AgentFrees
  <2>2. /\ heard' \in [Targets -> Seq(Notices)] /\ Refused(heard'[c])
        /\ \A d \in Targets \ {c} : heard'[d] = heard[d]
    BY <1>2, <1>3, <1>5, AgentFires, Hears
  <2>3. AgentThread(w)'
    BY <1>2, <1>3, <1>5, <2>1, <2>2, AgentNames DEF AgentThread, Locked, AgentPc
  <2> QED BY <1>1, <1>2, <1>3, <1>5, <2>1, <2>2, <2>3, AgentMoves DEF Locked, AgentPc
<1> QED BY <1>4, <1>5 DEF G!OnConnect

LEMMA AgentReceive ==
  ASSUME AgentInv, NEW w \in Workers, NEW c \in Targets, ath[w].c = c, G!Receive(w)
  PROVE  AgentInv'
<1>1. ath[w].pc = "read" /\ ath[w].pc \in Locked
  BY DEF G!Receive, G!At, Locked, AgentPc
<1>2. /\ w \in G!Threads /\ w \notin Connectors /\ AgentTypes /\ AgentThread(w) /\ AgentConn(c)
      /\ aobj[c].io = w /\ told[c] = "true"
      /\ aobj \in [Targets -> AgentObj] /\ asock \in [Targets -> AgentSock]
      /\ heard \in [Targets -> Seq(Notices)] /\ heard[c] \in Seq(Notices)
  BY <1>1, AgentHas
<1>3. /\ UNCHANGED <<aobj, aids, abudget, told>> /\ aobj[c].valid /\ aobj[c].connected
      /\ Lives(heard[c]) /\ "receive" \in Notices
  BY <1>1, <1>2 DEF G!Receive, AgentThread, Notices
<1>4. /\ asock' \in [Targets -> AgentSock] /\ \A d \in Targets \ {c} : asock'[d] = asock[d]
      /\ asock'[c].st = asock[c].st
      /\ heard' \in [Targets -> Seq(Notices)] /\ Lives(heard'[c])
      /\ \A d \in Targets \ {c} : heard'[d] = heard[d]
  <2>1. CASE UNCHANGED <<asock, heard>>
    BY <1>2, <1>3, <2>1
  <2>2. CASE asock[c].in > 0 /\ asock' = [asock EXCEPT ![c].in = @ - 1] /\ G!Fire(c, "receive")
    <3>1. asock[c].in \in Nat /\ asock[c].in - 1 \in Nat
      BY <1>2, <2>2, AgentFields
    <3>2. /\ asock' \in [Targets -> AgentSock] /\ asock'[c].st = asock[c].st
          /\ \A d \in Targets \ {c} : asock'[d] = asock[d]
      <4>1. asock' = [asock EXCEPT ![c].in = asock[c].in - 1]
        BY <2>2
      <4> QED BY <1>2, <3>1, <4>1, AgentReads
    <3>3. /\ heard' \in [Targets -> Seq(Notices)] /\ heard'[c] = Append(heard[c], "receive")
          /\ \A d \in Targets \ {c} : heard'[d] = heard[d]
      BY <1>2, <1>3, <2>2, AgentFires
    <3>4. Lives(Append(heard[c], "receive"))
      BY <1>2, <1>3, Hears
    <3> QED BY <3>2, <3>3, <3>4
  <2> QED BY <2>1, <2>2 DEF G!Receive
<1>5. CASE G!AddFree(w, "close", "after")
  <2>1. /\ ath' \in [G!Threads -> AgentTh] /\ ath'[w].pc = "invalid" /\ ath'[w].c = c
        /\ ath'[w].flag = "close" /\ ath'[w].back = "after"
        /\ \A u \in G!Threads \ {w} : ath'[u] = ath[u]
    BY <1>1, <1>2, <1>5, AgentFrees
  <2>2. AgentThread(w)'
    BY <1>2, <1>3, <1>4, <2>1, AgentNames DEF AgentThread, Locked, AgentPc
  <2> QED BY <1>1, <1>2, <1>3, <1>4, <2>1, <2>2, AgentMoves DEF Locked, AgentPc
<1>6. ASSUME NEW p \in {"read", "after"}, G!Goto(w, p)
      PROVE  AgentInv'
  <2>1. /\ ath' \in [G!Threads -> AgentTh] /\ ath'[w].pc = p /\ ath'[w].c = c
        /\ \A u \in G!Threads \ {w} : ath'[u] = ath[u]
    BY <1>1, <1>2, <1>6, AgentGoes DEF AgentPc
  <2>2. AgentThread(w)'
    BY <1>2, <1>3, <1>4, <1>6, <2>1, AgentNames DEF AgentThread, Locked, AgentPc
  <2> QED BY <1>1, <1>2, <1>3, <1>4, <1>6, <2>1, <2>2, AgentMoves DEF Locked, AgentPc
<1> QED BY <1>5, <1>6 DEF G!Receive

LEMMA AgentSend ==
  ASSUME AgentInv, NEW w \in Workers, NEW c \in Targets, ath[w].c = c, G!SendItem(w)
  PROVE  AgentInv'
<1>1. ath[w].pc = "write" /\ ath[w].pc \in Locked
  BY DEF G!SendItem, G!At, Locked, AgentPc
<1>2. /\ w \in G!Threads /\ w \notin Connectors /\ AgentTypes /\ AgentThread(w) /\ AgentConn(c)
      /\ aobj[c].io = w /\ told[c] = "true"
      /\ aobj \in [Targets -> AgentObj] /\ asock \in [Targets -> AgentSock]
      /\ heard \in [Targets -> Seq(Notices)] /\ heard[c] \in Seq(Notices)
  BY <1>1, AgentHas
<1>3. /\ UNCHANGED <<aids, abudget, told>> /\ aobj[c].valid /\ aobj[c].connected
      /\ Lives(heard[c]) /\ "send" \in Notices
  BY <1>1, <1>2 DEF G!SendItem, AgentThread, Notices
<1>4. CASE G!Goto(w, "after") /\ UNCHANGED <<asock, aobj, heard>>
  <2>1. /\ ath' \in [G!Threads -> AgentTh] /\ ath'[w].pc = "after" /\ ath'[w].c = c
        /\ \A u \in G!Threads \ {w} : ath'[u] = ath[u]
    BY <1>1, <1>2, <1>4, AgentGoes DEF AgentPc
  <2>2. AgentThread(w)'
    BY <1>2, <1>3, <1>4, <2>1, AgentNames DEF AgentThread, Locked, AgentPc
  <2> QED BY <1>1, <1>2, <1>3, <1>4, <2>1, <2>2, AgentMoves DEF Locked, AgentPc
<1>5. CASE G!AddFree(w, "close", "after") /\ UNCHANGED <<asock, aobj, heard>>
  <2>1. /\ ath' \in [G!Threads -> AgentTh] /\ ath'[w].pc = "invalid" /\ ath'[w].c = c
        /\ ath'[w].flag = "close" /\ ath'[w].back = "after"
        /\ \A u \in G!Threads \ {w} : ath'[u] = ath[u]
    BY <1>1, <1>2, <1>5, AgentFrees
  <2>2. AgentThread(w)'
    BY <1>2, <1>3, <1>5, <2>1, AgentNames DEF AgentThread, Locked, AgentPc
  <2> QED BY <1>1, <1>2, <1>3, <1>5, <2>1, <2>2, AgentMoves DEF Locked, AgentPc
<1>6. CASE /\ aobj[c].buf > 0 /\ aobj' = [aobj EXCEPT ![c].buf = @ - 1]
           /\ \E full \in BOOLEAN : asock' = [asock EXCEPT ![c].full = full]
           /\ G!Fire(c, "send") /\ ath' = ath
  <2>1. /\ aobj' \in [Targets -> AgentObj] /\ aobj'[c].valid = aobj[c].valid
        /\ aobj'[c].connected = aobj[c].connected
         /\ aobj'[c].io = aobj[c].io
        /\ \A d \in Targets \ {c} : aobj'[d] = aobj[d]
    <3>1. aobj[c].buf - 1 \in Nat /\ aobj' = [aobj EXCEPT ![c].buf = aobj[c].buf - 1]
      BY <1>2, <1>6, AgentFields
    <3> QED BY <1>2, <3>1, AgentCounts
  <2>2. PICK full \in BOOLEAN : asock' = [asock EXCEPT ![c].full = full]
    BY <1>6
  <2>3. /\ asock' \in [Targets -> AgentSock] /\ asock'[c].st = asock[c].st
        /\ \A d \in Targets \ {c} : asock'[d] = asock[d]
    BY <1>2, <2>2, ZenonT(60) DEF AgentSock
  <2>4. /\ heard' \in [Targets -> Seq(Notices)] /\ Lives(heard'[c])
        /\ \A d \in Targets \ {c} : heard'[d] = heard[d]
    BY <1>2, <1>3, <1>6, AgentFires, Hears, ZenonT(60)
  <2>5. AgentThread(w)'
    BY <1>1, <1>2, <1>3, <1>6, <2>1, <2>4, AgentNames DEF AgentThread, Locked, AgentPc
  <2>6. /\ ath' \in [G!Threads -> AgentTh] /\ ath'[w].c = c /\ ath'[w].pc \in Locked
        /\ \A u \in G!Threads \ {w} : ath'[u] = ath[u]
    BY <1>1, <1>2, <1>6 DEF AgentTypes
  <2> QED BY <1>1, <1>2, <1>3, <2>1, <2>3, <2>4, <2>5, <2>6, AgentMoves
<1> QED BY <1>4, <1>5, <1>6 DEF G!SendItem

LEMMA AgentHungUp ==
  ASSUME AgentInv, NEW w \in Workers, NEW c \in Targets, ath[w].c = c, G!HungUp(w)
  PROVE  AgentInv'
<1>1. ath[w].pc = "user" /\ ath[w].pc \in Locked
  BY DEF G!HungUp, G!At, Locked, AgentPc
<1>2. /\ w \in G!Threads /\ w \notin Connectors /\ AgentTypes /\ AgentThread(w) /\ AgentConn(c)
      /\ aobj[c].io = w /\ told[c] = "true"
      /\ aobj \in [Targets -> AgentObj] /\ asock \in [Targets -> AgentSock]
      /\ heard \in [Targets -> Seq(Notices)] /\ heard[c] \in Seq(Notices)
  BY <1>1, AgentHas
<1>3. /\ UNCHANGED <<asock, aobj, heard, aids, abudget, told>> /\ aobj[c].valid
      /\ Lives(heard[c]) /\ G!AddFree(w, "close", "after")
  BY <1>1, <1>2 DEF G!HungUp, AgentThread
<1>4. /\ ath' \in [G!Threads -> AgentTh] /\ ath'[w].pc = "invalid" /\ ath'[w].c = c
      /\ ath'[w].flag = "close" /\ ath'[w].back = "after"
      /\ \A u \in G!Threads \ {w} : ath'[u] = ath[u]
  BY <1>1, <1>2, <1>3, AgentFrees
<1>5. AgentThread(w)'
  BY <1>2, <1>3, <1>4, AgentNames DEF AgentThread, Locked, AgentPc
<1> QED BY <1>1, <1>2, <1>3, <1>4, <1>5, AgentMoves DEF Locked, AgentPc

LEMMA AgentAfter ==
  ASSUME AgentInv, NEW w \in Workers, NEW c \in Targets, ath[w].c = c, G!After(w)
  PROVE  AgentInv'
<1>1. ath[w].pc \in {"after", "unlock"} /\ ath[w].pc \in Locked
  BY DEF G!After, G!At, Locked, AgentPc
<1>2. /\ w \in G!Threads /\ w \notin Connectors /\ AgentTypes /\ AgentThread(w) /\ AgentConn(c)
      /\ aobj[c].io = w /\ told[c] = "true"
      /\ aobj \in [Targets -> AgentObj] /\ asock \in [Targets -> AgentSock]
      /\ heard \in [Targets -> Seq(Notices)] /\ heard[c] \in Seq(Notices)
  BY <1>1, AgentHas
<1>3. UNCHANGED <<asock, aids, abudget, told, heard>>
  BY DEF G!After
<1>4. /\ ath' \in [G!Threads -> AgentTh] /\ ath'[w].pc = "idle" /\ ath'[w].c = None
      /\ \A u \in G!Threads \ {w} : ath'[u] = ath[u]
  BY <1>1, <1>2, AgentLeaves DEF G!After
<1>5. /\ aobj' \in [Targets -> AgentObj] /\ aobj'[c].valid = aobj[c].valid
      /\ aobj'[c].connected = aobj[c].connected /\ aobj'[c].io = None
      /\ \A d \in Targets \ {c} : aobj'[d] = aobj[d]
  <2> DEFINE x == IF aobj[c].valid /\ G!At(w, "after") THEN aobj[c].armed \cup G!Filter(aobj[c])
                  ELSE aobj[c].armed
  <2>1. x \in SUBSET {"read", "write"}
    BY <1>2, AgentFields DEF G!Filter
  <2>2. aobj' = [aobj EXCEPT ![c].armed = x, ![c].io = None]
    BY <1>2 DEF G!After, AgentObj
  <2> HIDE DEF x
  <2> QED BY <1>2, <2>1, <2>2, AgentOpens
<1>6. AgentTypes' /\ AgentFrame(w, c)
  BY <1>2, <1>3, <1>4, <1>5 DEF AgentTypes, G!TypeOK, AgentObj, AgentFrame
<1>7. AgentThread(w)'
  BY <1>4, AgentNames DEF AgentThread, Locked
<1>8. AgentConn(c)'
  BY <1>1, <1>2, <1>3, <1>5 DEF AgentThread, AgentConn
<1> QED BY <1>1, <1>2, <1>4, <1>6, <1>7, <1>8, AgentStep

-----------------------------------------------------------------------------
(* AddFreeSocketObj().                                                     *)
LEMMA AgentInvalid ==
  ASSUME AgentInv, NEW t \in G!Threads, NEW c \in Targets, ath[t].c = c, G!Invalid(t)
  PROVE  AgentInv'
<1>1. ath[t].pc = "invalid" /\ ath[t].pc \in Locked
  BY DEF G!Invalid, G!At, Locked, AgentPc
<1>2. AgentTypes /\ AgentThread(t) /\ AgentConn(c) /\ aobj[c].io = t
  BY <1>1, AgentFrom
<1>3. /\ UNCHANGED <<asock, aids, abudget, told, heard>> /\ aobj[c].valid /\ G!Goto(t, "close")
      /\ aobj' = [aobj EXCEPT ![c].valid = FALSE, ![c].connected = FALSE]
  BY <1>1, <1>2 DEF G!Invalid, AgentThread
<1>4. /\ ath' \in [G!Threads -> AgentTh] /\ ath'[t].pc = "close" /\ ath'[t].c = c
      /\ ath'[t].flag = ath[t].flag /\ ath'[t].back = ath[t].back
      /\ \A u \in G!Threads \ {t} : ath'[u] = ath[u]
  BY <1>1, <1>2, <1>3, AgentGoes DEF AgentPc
<1>5. /\ aobj' \in [Targets -> AgentObj] /\ ~aobj'[c].valid /\ aobj'[c].io = t
      /\ \A d \in Targets \ {c} : aobj'[d] = aobj[d]
  <2> DEFINE o == aobj'[c]
  <2>1. aobj[c] \in AgentObj /\ aobj \in [Targets -> AgentObj]
    BY <1>2 DEF AgentTypes, AgentObj, G!TypeOK
  <2>2. /\ o = [aobj[c] EXCEPT !.valid = FALSE, !.connected = FALSE]
        /\ aobj' = [d \in Targets |-> aobj'[d]] /\ \A d \in Targets \ {c} : aobj'[d] = aobj[d]
    BY <1>3, <2>1
  <2>3. o \in AgentObj
    BY <2>1, <2>2 DEF AgentObj
  <2>4. ~o.valid /\ o.io = aobj[c].io
    BY <2>1, <2>2 DEF AgentObj
  <2>5. aobj' \in [Targets -> AgentObj]
    BY <2>1, <2>2, <2>3
  <2> QED BY <1>2, <2>2, <2>4, <2>5
<1>6. AgentTypes' /\ AgentFrame(t, c)
  BY <1>2, <1>3, <1>4, <1>5 DEF AgentTypes, G!TypeOK, AgentObj, AgentFrame
<1>7. AgentThread(t)'
  BY <1>1, <1>2, <1>3, <1>4, <1>5, AgentNames DEF AgentThread, Locked, AgentPc
<1>8. AgentConn(c)'
  BY <1>2, <1>4, <1>5, AgentNames DEF AgentConn, Locked, AgentPc
<1> QED BY <1>1, <1>2, <1>4, <1>6, <1>7, <1>8, AgentStep

LEMMA AgentClose ==
  ASSUME AgentInv, NEW t \in G!Threads, NEW c \in Targets, ath[t].c = c, G!Close(t)
  PROVE  AgentInv'
<1>1. ath[t].pc = "close" /\ ath[t].pc \in Locked
  BY DEF G!Close, G!At, Locked, AgentPc
<1>2. AgentTypes /\ AgentThread(t) /\ AgentConn(c) /\ aobj[c].io = t /\ ~aobj[c].valid
  BY <1>1, AgentFrom DEF AgentThread
<1>3. UNCHANGED <<aids, abudget, told>>
  BY DEF G!Close
<1>4. /\ ath' \in [G!Threads -> AgentTh] /\ ath'[t].pc = "remove" /\ ath'[t].c = c
      /\ ath'[t].flag = ath[t].flag /\ ath'[t].back = ath[t].back
      /\ \A u \in G!Threads \ {t} : ath'[u] = ath[u]
  BY <1>1, <1>2, AgentGoes DEF AgentPc, G!Close
<1>5. /\ aobj' \in [Targets -> AgentObj] /\ ~aobj'[c].valid /\ aobj'[c].io = t
      /\ \A d \in Targets \ {c} : aobj'[d] = aobj[d]
  <2>1. {} \in SUBSET {"read", "write"}
    OBVIOUS
  <2> QED BY <1>2, <2>1, AgentArms DEF G!Close
<1>6. /\ asock' \in [Targets -> AgentSock] /\ \A d \in Targets \ {c} : asock'[d] = asock[d]
  BY <1>2, AgentSockets DEF G!Close
<1>7. /\ heard' \in [Targets -> Seq(Notices)]
      /\ \A d \in Targets \ {c} : heard'[d] = heard[d]
      /\ IF ath[t].flag = "none" THEN heard'[c] = heard[c] ELSE Ended(heard'[c])
  <2>1. CASE ath[t].flag = "none"
    BY <1>2, <2>1 DEF G!Close, AgentTypes
  <2>2. CASE ath[t].flag # "none"
    <3>1. G!Fire(c, "close") /\ heard[c] \in Seq(Notices) /\ "close" \in Notices
      BY <1>2, <2>2 DEF G!Close, AgentTypes, Notices
    <3>2. heard[c] = <<>> \/ Lives(heard[c])
      BY <1>1, <1>2, <2>2, AgentFields DEF AgentThread
    <3> QED BY <1>2, <2>2, <3>1, <3>2, AgentFires, Hears
  <2> QED BY <2>1, <2>2
<1>8. AgentTypes' /\ AgentFrame(t, c)
  BY <1>2, <1>3, <1>4, <1>5, <1>6, <1>7 DEF AgentTypes, G!TypeOK, AgentObj, AgentSock, AgentFrame
<1>9. AgentThread(t)'
  BY <1>1, <1>2, <1>3, <1>4, <1>5, <1>7, AgentNames DEF AgentThread, Locked, AgentPc
<1>10. AgentConn(c)'
  BY <1>2, <1>4, <1>5, AgentNames DEF AgentConn, Locked, AgentPc
<1> QED BY <1>1, <1>2, <1>4, <1>8, <1>9, <1>10, AgentStep

LEMMA AgentRemove ==
  ASSUME AgentInv, NEW t \in G!Threads, NEW c \in Targets, ath[t].c = c, G!Remove(t)
  PROVE  AgentInv'
<1>1. ath[t].pc = "remove" /\ ath[t].pc \in Locked
  BY DEF G!Remove, G!At, Locked, AgentPc
<1>2. /\ AgentTypes /\ AgentThread(t) /\ AgentConn(c) /\ aobj[c].io = t /\ ~aobj[c].valid
      /\ ath[t].flag \in {"none", "close"}
  BY <1>1, AgentFrom, AgentFields DEF AgentThread
<1>3. UNCHANGED <<asock, abudget, told, heard>> /\ aids' = aids \ {c}
  BY DEF G!Remove
<1> DEFINE p == ath[t].back
<1>4. p \in {"failed", "unlock", "after"} /\ (p = "failed" <=> t \in Connectors)
  BY <1>1, <1>2 DEF AgentThread
<1>5. /\ ath' \in [G!Threads -> AgentTh] /\ ath'[t].pc = p /\ ath'[t].c = c
      /\ \A u \in G!Threads \ {t} : ath'[u] = ath[u]
  BY <1>1, <1>2, <1>4, AgentGoes DEF AgentPc, G!Remove
<1>6. /\ aobj' \in [Targets -> AgentObj] /\ ~aobj'[c].valid /\ aobj'[c].io = t
      /\ \A d \in Targets \ {c} : aobj'[d] = aobj[d]
  BY <1>2, AgentCounts DEF G!Remove
<1>7. AgentTypes' /\ AgentFrame(t, c)
  BY <1>2, <1>3, <1>5, <1>6 DEF AgentTypes, G!TypeOK, AgentObj, AgentFrame
<1>8. AgentThread(t)'
  BY <1>1, <1>2, <1>3, <1>4, <1>5, <1>6, AgentNames DEF AgentThread, Locked, AgentPc
<1>9. AgentConn(c)'
  BY <1>2, <1>3, <1>4, <1>5, <1>6, AgentNames DEF AgentConn, Locked, AgentPc
<1> QED BY <1>1, <1>2, <1>5, <1>7, <1>8, <1>9, AgentStep

-----------------------------------------------------------------------------
(* What is left: events and commands, the kernel and the peers, the other  *)
(* calls and Stop().                                                       *)
LEMMA AgentTake ==
  ASSUME AgentInv, NEW w \in Workers, G!Take(w)
  PROVE  AgentInv'
<1>1. w \in G!Threads /\ AgentTypes /\ ath[w].pc = "idle" /\ aids \subseteq Targets
  BY AgentNames DEF AgentInv, AgentTypes, G!TypeOK, G!Take, G!TakeEvent, G!TakeCommand, G!At
<1>2. UNCHANGED <<asock, aids, abudget, told, heard>>
  BY DEF G!Take, G!TakeEvent, G!TakeCommand
<1>3. ASSUME NEW c \in aids, NEW e \in {"read", "write", "user"},
             ath' = [ath EXCEPT ![w] = [G!Idle EXCEPT !.pc = "lock", !.c = c, !.ev = e]],
             aobj' \in [Targets -> AgentObj],
             \A d \in Targets : /\ aobj'[d].valid = aobj[d].valid /\ aobj'[d].io = aobj[d].io
                                /\ aobj'[d].connected = aobj[d].connected
      PROVE  AgentInv'
  <2> DEFINE k == [G!Idle EXCEPT !.pc = "lock", !.c = c, !.ev = e]
  <2>1. G!Idle \in AgentTh
    BY AgentNames DEF G!Idle, AgentTh, AgentPc
  <2>2. k \in AgentTh
    BY <1>1, <1>3, <2>1 DEF AgentTh, AgentPc
  <2>3. k.pc = "lock" /\ k.c = c /\ k.ev = e
    BY <2>1 DEF AgentTh
  <2> HIDE DEF k
  <2>4. ath' = [ath EXCEPT ![w] = k]
    BY <1>3 DEF k
  <2>5. /\ ath' \in [G!Threads -> AgentTh] /\ ath'[w] = k
        /\ \A u \in G!Threads \ {w} : ath'[u] = ath[u]
    BY <1>1, <2>2, <2>4 DEF AgentTypes
  <2>6. AgentTypes'
    BY <1>1, <1>2, <1>3, <2>5 DEF AgentTypes, G!TypeOK, AgentObj
  <2> QED BY <1>1, <1>2, <1>3, <2>3, <2>5, <2>6, AgentCalm
<1>4. CASE G!TakeEvent(w)
  <2>0. PICK c \in aids : \E e \in aobj[c].armed :
             /\ aobj' = [aobj EXCEPT ![c].armed = @ \ {e}]
             /\ ath' = [ath EXCEPT ![w] = [G!Idle EXCEPT !.pc = "lock", !.c = c, !.ev = e]]
    BY <1>4 DEF G!TakeEvent
  <2>1. PICK e \in aobj[c].armed :
             /\ aobj' = [aobj EXCEPT ![c].armed = @ \ {e}]
             /\ ath' = [ath EXCEPT ![w] = [G!Idle EXCEPT !.pc = "lock", !.c = c, !.ev = e]]
    BY <2>0
  <2> DEFINE x == aobj[c].armed \ {e}
  <2>2. x \in SUBSET {"read", "write"} /\ e \in {"read", "write", "user"} /\ c \in Targets
    BY <1>1, <2>1, AgentFields
  <2>3. aobj' = [aobj EXCEPT ![c].armed = x]
    BY <2>1
  <2> HIDE DEF x
  <2>4. /\ aobj' \in [Targets -> AgentObj]
        /\ aobj'[c].valid = aobj[c].valid /\ aobj'[c].io = aobj[c].io
        /\ aobj'[c].connected = aobj[c].connected
        /\ \A d \in Targets \ {c} : aobj'[d] = aobj[d]
    BY <1>1, <2>2, <2>3, AgentArms
  <2>5. \A d \in Targets : /\ aobj'[d].valid = aobj[d].valid /\ aobj'[d].io = aobj[d].io
                           /\ aobj'[d].connected = aobj[d].connected
    BY <2>4
  <2> QED BY <1>3, <2>1, <2>2, <2>4, <2>5
<1>5. CASE G!TakeCommand(w) /\ ath' = ath
  BY <1>1, <1>2, <1>5, AgentCalm DEF G!TakeCommand, AgentTypes, G!TypeOK
<1>6. CASE G!TakeCommand(w) /\ ath' # ath
  <2>1. /\ G!Valid(Head(acmds).c) /\ aobj' = aobj
        /\ ath' = [ath EXCEPT ![w] = [G!Idle EXCEPT !.pc = "lock", !.c = Head(acmds).c,
                                                    !.ev = G!EventOf(Head(acmds).type)]]
    BY <1>6 DEF G!TakeCommand
  <2>2. /\ Head(acmds).c \in aids /\ G!EventOf(Head(acmds).type) \in {"read", "write", "user"}
        /\ aobj' \in [Targets -> AgentObj]
    BY <1>1, <2>1 DEF G!Valid, G!EventOf, AgentTypes, G!TypeOK, AgentObj
  <2> QED BY <1>3, <2>1, <2>2
<1> QED BY <1>4, <1>5, <1>6 DEF G!Take

LEMMA AgentOutside ==
  ASSUME AgentInv, NEW c \in Targets,
         \/ G!Kernel(c) \/ G!PeerSends(c) \/ G!PeerReads(c)
         \/ G!Send(c) \/ G!PauseReceive(c) \/ G!Disconnect(c)
  PROVE  AgentInv'
<1>1. /\ AgentTypes /\ asock \in [Targets -> AgentSock] /\ aobj \in [Targets -> AgentObj]
      /\ asock[c].in \in Nat /\ aobj[c].buf \in Nat /\ aobj[c].paused \in BOOLEAN
  BY AgentFields DEF AgentInv, AgentTypes, G!TypeOK, AgentSock, AgentObj
<1>2. UNCHANGED <<ath, aids, told, heard>>
  BY DEF G!Kernel, G!PeerSends, G!PeerReads, G!Send, G!PauseReceive, G!Disconnect
<1>3. abudget' \in [G!Events -> Nat]
  <2>1. \A e \in G!Events : G!Spend(e) => abudget' \in [G!Events -> Nat]
    BY <1>1 DEF G!Spend, AgentTypes, G!TypeOK
  <2> QED BY <1>1, <2>1 DEF G!Kernel, G!PeerSends, G!PeerReads, G!Send, G!PauseReceive,
                            G!Disconnect, G!Events, AgentTypes, G!TypeOK
<1>4. /\ asock' \in [Targets -> AgentSock] /\ \A d \in Targets \ {c} : asock'[d] = asock[d]
      /\ asock'[c].st = "new" <=> asock[c].st = "new"
      /\ asock'[c].st = "closed" <=> asock[c].st = "closed"
  <2>1. CASE G!Kernel(c)
    <3>1. PICK x \in {"open", "failed"} : asock' = [asock EXCEPT ![c].st = x]
      BY <2>1 DEF G!Kernel
    <3>2. asock[c].st = "connecting"
      BY <2>1 DEF G!Kernel
    <3> QED BY <1>1, <3>1, <3>2, AgentSockets
  <2>2. ASSUME NEW x \in Nat, asock' = [asock EXCEPT ![c].in = x]
        PROVE  /\ asock' \in [Targets -> AgentSock] /\ \A d \in Targets \ {c} : asock'[d] = asock[d]
               /\ asock'[c].st = asock[c].st
    BY <1>1, <2>2 DEF AgentSock
  <2>3. CASE asock' = [asock EXCEPT ![c].eof = TRUE]
    BY <1>1, <2>3 DEF AgentSock
  <2>4. CASE asock' = [asock EXCEPT ![c].full = FALSE]
    BY <1>1, <2>4 DEF AgentSock
  <2>5. CASE asock' = asock
    BY <1>1, <2>5
  <2>6. CASE asock' = [asock EXCEPT ![c].in = @ + 1]
    <3>1. asock[c].in + 1 \in Nat /\ asock' = [asock EXCEPT ![c].in = asock[c].in + 1]
      BY <1>1, <2>6
    <3> QED BY <2>2, <3>1
  <2> QED BY <2>1, <2>3, <2>4, <2>5, <2>6
          DEF G!PeerSends, G!PeerReads, G!Send, G!PauseReceive, G!Disconnect
<1>5. /\ aobj' \in [Targets -> AgentObj] /\ \A d \in Targets \ {c} : aobj'[d] = aobj[d]
      /\ aobj'[c].valid = aobj[c].valid /\ aobj'[c].io = aobj[c].io
      /\ aobj'[c].connected = aobj[c].connected
  <2>1. CASE aobj' = aobj
    BY <1>1, <2>1
  <2>2. CASE aobj' = [aobj EXCEPT ![c].buf = @ + 1]
    <3>1. aobj[c].buf + 1 \in Nat /\ aobj' = [aobj EXCEPT ![c].buf = aobj[c].buf + 1]
      BY <1>1, <2>2
    <3> QED BY <1>1, <3>1, AgentCounts
  <2>3. CASE aobj' = [aobj EXCEPT ![c].paused = ~@]
    <3>1. \E x \in BOOLEAN : aobj' = [aobj EXCEPT ![c].paused = x]
      <4>1. CASE aobj[c].paused = TRUE
        <5>1. aobj' = [aobj EXCEPT ![c].paused = FALSE]
          BY <2>3, <4>1
        <5> QED BY <5>1
      <4>2. CASE aobj[c].paused = FALSE
        <5>1. aobj' = [aobj EXCEPT ![c].paused = TRUE]
          BY <2>3, <4>2
        <5> QED BY <5>1
      <4> QED BY <1>1, <4>1, <4>2
    <3> QED BY <1>1, <3>1, AgentPauses
  <2> QED BY <2>1, <2>2, <2>3
          DEF G!Kernel, G!PeerSends, G!PeerReads, G!Send, G!PauseReceive, G!Disconnect
<1>6. AgentTypes'
  BY <1>1, <1>2, <1>3, <1>4, <1>5 DEF AgentTypes, G!TypeOK, AgentSock, AgentObj
<1> QED BY <1>2, <1>4, <1>5, <1>6, AgentCalm

LEMMA AgentStop ==
  ASSUME AgentInv, G!StopBegin \/ G!StopDisconnect \/ G!StopEnd
  PROVE  AgentInv'
<1>1. UNCHANGED <<asock, aobj, aids, ath, told, heard>> /\ AgentTypes
  BY DEF G!StopBegin, G!StopDisconnect, G!StopEnd, AgentInv
<1>2. abudget' \in [G!Events -> Nat]
  BY <1>1 DEF G!StopBegin, G!StopDisconnect, G!StopEnd, G!Spend, AgentTypes, G!TypeOK, G!Events
<1>3. AgentTypes'
  BY <1>1, <1>2 DEF AgentTypes, G!TypeOK
<1> QED BY <1>1, <1>3, AgentCalm

-----------------------------------------------------------------------------

LEMMA AgentInit ==
  ASSUME G!Init
  PROVE  AgentInv
<1>1. AgentTypes
  BY AgentNames, AgentAssumption
     DEF G!Init, AgentTypes, G!TypeOK, G!NewSock, G!NewObj, G!Idle, AgentTh, AgentPc
<1>2. \A t \in G!Threads : AgentThread(t)
  BY DEF G!Init, G!Idle, AgentThread, Locked
<1>3. \A c \in Targets : AgentConn(c)
  BY DEF G!Init, G!NewSock, G!NewObj, AgentConn
<1> QED BY <1>1, <1>2, <1>3 DEF AgentInv

LEMMA AgentNext ==
  ASSUME AgentInv, G!Next \/ UNCHANGED gvars
  PROVE  AgentInv'
<1>1. ASSUME NEW t \in G!Threads, G!Free(t)
      PROVE  AgentInv'
  <2>1. ath[t].c \in Targets
    BY <1>1, AgentAt DEF G!Free, G!Invalid, G!Close, G!Remove, G!At
  <2> QED BY <1>1, <2>1, AgentInvalid, AgentClose, AgentRemove DEF G!Free
<1>2. ASSUME NEW w \in Workers, G!Work(w)
      PROVE  AgentInv'
  <2>1. ath[w].c \in Targets
    BY <1>2, AgentAt, AgentNames
       DEF G!Work, G!LockIo, G!HandleConnect, G!OnConnect, G!Receive, G!SendItem, G!HungUp,
           G!After, G!At
  <2> QED BY <1>2, <2>1, AgentLock, AgentHandle, AgentOnConnect, AgentReceive, AgentSend,
             AgentHungUp, AgentAfter DEF G!Work
<1>3. ASSUME NEW a \in Connectors, G!Call(a)
      PROVE  AgentInv'
  <2>1. ath[a].c \in Targets
    BY <1>3, AgentAt, AgentNames
       DEF G!Call, G!Prepare, G!Publish, G!ConnectAsync, G!ConnectSync, G!OnConnectSync,
           G!ConnectFailed, G!At
  <2> QED BY <1>3, <2>1, AgentPrepare, AgentPublish, AgentAsync, AgentSync, AgentOnConnectSync,
             AgentFailed DEF G!Call
<1>4. CASE UNCHANGED gvars
  BY <1>4, AgentCalm DEF gvars, AgentInv, AgentTypes, G!TypeOK
<1> QED BY <1>1, <1>2, <1>3, <1>4, AgentTake, AgentConnect, AgentOutside, AgentStop DEF G!Next

\* The properties follow from what may be heard.
LEMMA AgentHolds ==
  ASSUME AgentInv
  PROVE  ConnectIsTold
<1>1. G!TypeOK
  BY DEF AgentInv, AgentTypes
<1>2. ASSUME NEW c \in Targets
      PROVE  LET h == heard[c]
             IN  /\ h = <<>> \/ Opening(h) \/ Refused(h) \/ Lives(h) \/ Ended(h)
                 /\ h \in Seq(Notices)
  <2>1. /\ AgentConn(c) /\ heard[c] \in Seq(Notices) /\ aobj[c].io \in G!Threads \cup {None}
        /\ told[c] \in {"none", "true", "false"}
    BY AgentFields DEF AgentInv
  <2>2. CASE aobj[c].io = None
    BY <2>1, <2>2 DEF AgentConn
  <2>3. CASE aobj[c].io # None
    <3> DEFINE t == aobj[c].io
    <3>1. /\ t \in G!Threads /\ AgentThread(t) /\ ath[t].c = c /\ ath[t].pc \in Locked
          /\ ath[t].flag \in {"none", "close"}
      BY <2>1, <2>3, AgentFields DEF AgentConn, AgentInv
    <3> QED BY <2>1, <3>1 DEF AgentThread, Locked, AgentPc
  <2> QED BY <2>1, <2>2, <2>3
<1>3. G!ConnectIsFirst
  <2> SUFFICES ASSUME NEW c \in Targets, NEW n \in DOMAIN heard[c]
               PROVE  /\ heard[c][n] = "connect" => n = 1
                      /\ heard[c][n] \in {"receive", "send"} => heard[c][2] = "connected" /\ n > 2
                      /\ heard[c][n] = "close" => n = Len(heard[c]) /\ ~G!Came(c, "refused")
    BY DEF G!ConnectIsFirst
  <2> DEFINE h == heard[c]
  <2>1. h \in Seq(Notices) /\ DOMAIN h = 1 .. Len(h) /\ Len(h) \in Nat /\ n \in 1 .. Len(h)
    BY <1>2
  <2>2. CASE Opening(h) \/ Refused(h)
    BY <2>1, <2>2 DEF Opening, Refused
  <2>3. CASE Lives(h)
    BY <2>1, <2>3 DEF Lives, Flows
  <2>4. CASE Ended(h)
    <3>1. ~G!Came(c, "refused")
      BY <2>1, <2>4 DEF Ended, Flows, G!Came
    <3> QED BY <2>1, <2>4, <3>1 DEF Ended, Flows
  <2> QED BY <1>2, <2>1, <2>2, <2>3, <2>4
<1>4. G!Accounted
  <2> SUFFICES ASSUME NEW c \in Targets, asock[c].st = "closed",
                      \A t \in G!Threads : ath[t].c # c
               PROVE  G!Came(c, "close") <=> told[c] = "true" /\ ~G!Came(c, "refused")
    BY DEF G!Accounted
  <2> DEFINE h == heard[c]
  <2>1. /\ AgentConn(c) /\ aobj[c].io = None /\ told[c] \in {"none", "true", "false"}
        /\ h \in Seq(Notices) /\ DOMAIN h = 1 .. Len(h) /\ Len(h) \in Nat
    BY <1>2, AgentFields DEF AgentInv, AgentConn
  <2>2. Ended(h) => G!Came(c, "close") /\ ~G!Came(c, "refused")
    BY <2>1 DEF Ended, Flows, G!Came
  <2>3. Refused(h) => ~G!Came(c, "close") /\ G!Came(c, "refused")
    BY <2>1 DEF Refused, G!Came
  <2>4. h = <<>> \/ Lives(h) => ~G!Came(c, "close")
    BY <2>1 DEF Lives, Flows, G!Came
  <2> QED BY <2>1, <2>2, <2>3, <2>4 DEF AgentConn
<1> QED BY <1>1, <1>3, <1>4 DEF ConnectIsTold

(* The agent's listener hears of OnConnect first and of OnClose once and   *)
(* last, and of every connection that is gone it was told, by OnClose or   *)
(* by what Connect() returned, never twice: whoever connects, disconnects  *)
(* or stops meanwhile, for any workers, callers, connections and budgets.  *)
THEOREM StreamsConnectIsTold == MCSpec => []ConnectIsTold
<1>1. MCInit => AgentInv
  BY AgentInit DEF MCInit
<1>2. AgentInv /\ [MCNext]_<<part, vars, gvars, svars, kvars, hvars, rvars, yvars>>
        => AgentInv'
  BY AgentNext DEF MCNext
<1>3. AgentInv => ConnectIsTold
  BY AgentHolds
<1> QED BY <1>1, <1>2, <1>3, PTL DEF MCSpec
=============================================================================
