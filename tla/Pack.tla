------------------------------- MODULE Pack -------------------------------
(***************************************************************************)
(* The Pack components (TcpPackServer.h, TcpPackAgent.h, TcpPackClient.h)  *)
(* and ParsePack() (MiscHelper.h): packets, each a header with its length  *)
(* and a body, are found in a stream of bytes that is read in pieces,      *)
(* while applications pause and resume the connection.  What was read when *)
(* the pause came stays in the buffer: the command DISP_CMD_UNPAUSE parses *)
(* it.  The client has one worker, and its event m_evRecv is the command.  *)
(***************************************************************************)
EXTENDS Integers, Sequences, FiniteSets
LOCAL Seqs == INSTANCE SequencesExt

CONSTANTS Workers, Apps, None,
          HeaderLen,   (* sizeof(DWORD)                                    *)
          MaxPackSize, (* m_dwMaxPackSize                                  *)
          Sizes,       (* bound: the sequences of sizes the peer may send  *)
          MaxPauses    (* bound: calls of PauseReceive()                   *)

VARIABLES
  packs,    (* the sizes of the packets sent so far                        *)
  toSend,   (* the sizes of those that will follow                         *)
  stream,   (* the bytes in the socket: [pack, at]                         *)
  buffer,   (* the TBuffer                                                 *)
  info,     (* the TPackInfo: [header, length]                             *)
  armed,    (* the socket's read event will be reported, once              *)
  paused, valid,
  csIo,     (* the worker that holds it                                    *)
  cmds,     (* how many DISP_CMD_UNPAUSE are queued                        *)
  asking,   (* the applications between paused = FALSE and SendCommand()   *)
  pauses,
  wk,       (* [Workers -> [pc, required, pack, back]]                     *)
  received, (* history: what OnReceive was given                           *)
  failed    (* history: how much that was when HR_ERROR came, or None      *)

packVars == <<packs, toSend, stream, buffer, info, armed, paused, valid, csIo, cmds, asking, pauses,
              wk, received, failed>>
history == <<received, failed>>
source == <<packs, toSend>>
pausing == <<armed, paused, cmds, asking, pauses>>

Bytes(n, size) == [i \in 1 .. HeaderLen + size |-> [pack |-> n, at |-> i]]
Body(n)   == [i \in 1 .. packs[n] |-> [pack |-> n, at |-> HeaderLen + i]]
Header(n) == [i \in 1 .. HeaderLen |-> [pack |-> n, at |-> i]]
NewInfo == [header |-> TRUE, length |-> HeaderLen]
Idle == [pc |-> "idle", required |-> 0, pack |-> <<>>, back |-> "idle"]

At(w, p)   == wk[w].pc = p
Goto(w, p) == wk' = [wk EXCEPT ![w].pc = p]
First(n) == SubSeq(buffer, 1, n)
Fetch(n) == buffer' = SubSeq(buffer, n + 1, Len(buffer))

-----------------------------------------------------------------------------
(* The peer: a Pack component adds headers of legal lengths, another one   *)
(* may send any header.                                                    *)
PeerSends ==
  /\ toSend # <<>>
  /\ packs' = Append(packs, Head(toSend))
  /\ toSend' = Tail(toSend)
  /\ stream' = stream \o Bytes(Len(packs) + 1, Head(toSend))
  /\ UNCHANGED <<buffer, info, pausing, valid, csIo, wk, history>>

-----------------------------------------------------------------------------
(* ParsePack(), under csIo.                                                *)

Begin(w, back) ==
  wk' = [wk EXCEPT ![w] = [pc |-> "parse", required |-> info.length, pack |-> <<>>, back |-> back]]

\* The lengths a header may tell: bytes that are none may tell any.
LengthsOf(h) == IF \E n \in DOMAIN packs : h = Header(n) THEN {packs[h[1].pack]}
                ELSE 0 .. MaxPackSize + 1

\* HR_ERROR: the worker closes; after BeforeUnpause() it leaves csIo first.
Fail(w, given) ==
  /\ Goto(w, IF wk[w].back = "unlock_io" THEN "leave" ELSE "close")
  /\ failed' = IF failed = None THEN given ELSE failed

\* One round of the loop; atPause is what a pause leaves in the TPackInfo.
Round(w, atPause) ==
  LET n == wk[w].required
      bytes == First(n)
  IN  /\ At(w, "parse")
      /\ IF Len(buffer) < n \/ paused
         THEN /\ Goto(w, wk[w].back) /\ UNCHANGED <<buffer, failed>>
              /\ info' = IF paused THEN atPause ELSE info
         ELSE /\ Fetch(n)
              /\ IF ~info.header
                 THEN /\ wk' = [wk EXCEPT ![w].pc = "on_receive", ![w].pack = bytes]
                      /\ UNCHANGED <<info, failed>>
                 ELSE \E len \in LengthsOf(bytes) :
                        IF len \in 1 .. MaxPackSize
                        THEN /\ info' = [header |-> FALSE, length |-> len]
                             /\ wk' = [wk EXCEPT ![w].required = len]
                             /\ failed' = failed
                        ELSE Fail(w, Len(received)) /\ info' = info
      /\ UNCHANGED <<source, stream, pausing, valid, csIo, received>>

ParsePack(w) == Round(w, info)

\* DoFireSuperReceive(); the next header is due once it returned.
OnReceive(w) ==
  /\ At(w, "on_receive")
  /\ received' = Append(received, wk[w].pack)
  /\ \/ /\ info' = NewInfo
        /\ wk' = [wk EXCEPT ![w].pc = "parse", ![w].required = HeaderLen]
        /\ failed' = failed
     \/ Fail(w, Len(received) + 1) /\ info' = info
  /\ UNCHANGED <<source, stream, buffer, pausing, valid, csIo>>

-----------------------------------------------------------------------------
(* HandleReceive(), for a read event or after a command.                   *)

Ready(w) ==
  /\ At(w, "idle") /\ armed /\ valid /\ stream # <<>>
  /\ armed' = FALSE
  /\ wk' = [wk EXCEPT ![w] = [Idle EXCEPT !.pc = "lock_io"]]
  /\ UNCHANGED <<source, stream, buffer, info, paused, cmds, asking, pauses, valid, csIo, history>>

LockIo(w) ==
  /\ At(w, "lock_io") /\ csIo = None
  /\ IF valid THEN csIo' = w /\ Goto(w, "receive")
     ELSE csIo' = csIo /\ Goto(w, "idle")
  /\ UNCHANGED <<source, stream, buffer, info, pausing, valid, history>>

\* A piece of what arrived goes to the buffer and is parsed.
Receive(w) ==
  /\ At(w, "receive") \/ At(w, "again")
  /\ ~paused
  /\ \E n \in 1 .. Len(stream) :
       /\ buffer' = buffer \o SubSeq(stream, 1, n)
       /\ stream' = SubSeq(stream, n + 1, Len(stream))
  /\ Begin(w, "again")
  /\ UNCHANGED <<source, info, pausing, valid, csIo, history>>

\* Paused, or nothing there, or MAX_CONTINUE_READS; OnAfterProcessIo() arms.
Received(w) ==
  /\ At(w, "again") \/ (At(w, "receive") /\ (paused \/ stream = <<>>))
  /\ armed' = (armed \/ ~paused)
  /\ csIo' = None
  /\ Goto(w, "idle")
  /\ UNCHANGED <<source, stream, buffer, info, paused, cmds, asking, pauses, valid, history>>

\* The command's own way to AddFreeSocketObj().
Leave(w) ==
  /\ At(w, "leave")
  /\ csIo' = None
  /\ Goto(w, "lock_close")
  /\ UNCHANGED <<source, stream, buffer, info, pausing, valid, history>>

LockClose(w) ==
  /\ At(w, "lock_close") /\ csIo = None
  /\ IF valid THEN csIo' = w /\ Goto(w, "close")
     ELSE csIo' = csIo /\ Goto(w, "idle")
  /\ UNCHANGED <<source, stream, buffer, info, pausing, valid, history>>

\* AddFreeSocketObj(); DoFireClose() gives up the buffer and the TPackInfo.
Close(w) ==
  /\ At(w, "close")
  /\ valid' = FALSE
  /\ buffer' = <<>> /\ info' = NewInfo
  /\ csIo' = None
  /\ Goto(w, "idle")
  /\ UNCHANGED <<source, stream, pausing, history>>

-----------------------------------------------------------------------------
(* HandleCmdUnpause().                                                     *)

TakeCommand(w) ==
  /\ At(w, "idle") /\ cmds > 0
  /\ cmds' = cmds - 1
  /\ IF valid THEN Goto(w, "unpause") ELSE wk' = wk
  /\ UNCHANGED <<source, stream, buffer, info, armed, paused, asking, pauses, valid, csIo, history>>

\* A bug to be caught: the BeforeUnpause() of CTcpServer.
DoNotParse(w) ==
  /\ At(w, "unpause")
  /\ Goto(w, "lock_io")
  /\ UNCHANGED <<source, stream, buffer, info, pausing, valid, csIo, history>>

BeforeUnpause(w) ==
  /\ At(w, "unpause") /\ csIo = None
  /\ CASE ~valid          -> Goto(w, "idle") /\ csIo' = csIo
       [] valid /\ paused -> Goto(w, "lock_io") /\ csIo' = csIo
       [] OTHER           -> Begin(w, "unlock_io") /\ csIo' = w
  /\ UNCHANGED <<source, stream, buffer, info, pausing, valid, history>>

UnlockIo(w) ==
  /\ At(w, "unlock_io")
  /\ csIo' = None
  /\ Goto(w, "lock_io")
  /\ UNCHANGED <<source, stream, buffer, info, pausing, valid, history>>

-----------------------------------------------------------------------------
(* PauseReceive().                                                         *)

Pause(a) ==
  /\ a \notin asking /\ valid /\ pauses < MaxPauses
  /\ pauses' = pauses + 1
  /\ paused' = ~paused
  /\ asking' = IF paused THEN asking \cup {a} ELSE asking
  /\ UNCHANGED <<source, stream, buffer, info, armed, valid, csIo, cmds, wk, history>>

SendCommand(a) ==
  /\ a \in asking
  /\ asking' = asking \ {a}
  /\ cmds' = cmds + 1
  /\ UNCHANGED <<source, stream, buffer, info, armed, paused, pauses, valid, csIo, wk, history>>

-----------------------------------------------------------------------------
Init ==
  /\ packs = <<>> /\ toSend \in Sizes
  /\ stream = <<>> /\ buffer = <<>> /\ info = NewInfo
  /\ armed = TRUE /\ paused = FALSE /\ valid = TRUE
  /\ csIo = None /\ cmds = 0 /\ asking = {} /\ pauses = 0
  /\ wk = [w \in Workers |-> Idle]
  /\ received = <<>> /\ failed = None

Work(w) ==
  \/ ParsePack(w) \/ OnReceive(w) \/ LockIo(w) \/ Receive(w) \/ Received(w)
  \/ Leave(w) \/ LockClose(w) \/ Close(w)
  \/ BeforeUnpause(w) \/ UnlockIo(w)
Take(w) == Ready(w) \/ TakeCommand(w)

Next ==
  \/ PeerSends
  \/ \E w \in Workers : Work(w) \/ Take(w)
  \/ \E a \in Apps : Pause(a) \/ SendCommand(a)

\* Threads run, and kevent() hands events and commands to idle workers.
Fairness ==
  /\ \A w \in Workers : WF_packVars(Work(w))
  /\ WF_packVars(\E w \in Workers : Ready(w)) /\ WF_packVars(\E w \in Workers : TakeCommand(w))
  /\ \A a \in Apps : WF_packVars(SendCommand(a))

Spec == Init /\ [][Next]_packVars /\ Fairness

-----------------------------------------------------------------------------
(* What the components promise.                                            *)

\* Type invariant.
PackTypeOK ==
  /\ info \in [header : BOOLEAN, length : 1 .. HeaderLen + MaxPackSize]
  /\ csIo \in Workers \cup {None} /\ cmds \in Nat /\ asking \subseteq Apps
  /\ armed \in BOOLEAN /\ paused \in BOOLEAN /\ valid \in BOOLEAN

\* OnReceive gets the bodies of the packets, whole and in order, up to one that
\* is illegal and up to HR_ERROR, however the stream was cut and the connection
\* was paused; and the buffer is parsed by one worker, of a connection that is
\* there.
PacksInOrder ==
  /\ \A n \in DOMAIN received : (failed # None => n <= failed) =>
       /\ n \in DOMAIN packs /\ received[n] = Body(n)
       /\ \A m \in 1 .. n : packs[m] \in 1 .. MaxPackSize
  /\ \A w \in Workers : wk[w].pc \in {"parse", "on_receive"} => valid /\ csIo = w

\* A packet that is there is handed over, also one that was held back by a
\* pause and after which the peer sends nothing any more.
HandedOver == paused \/ ~valid \/ (stream = <<>> /\ Len(buffer) < info.length)
NothingHeldBack == []<>HandedOver
=============================================================================
