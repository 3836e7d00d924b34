--------------------------- MODULE GelfTransport ----------------------------
(***************************************************************************)
(* sinks/gelf.py: GelfTcpTransport, the one socket a GelfSink ships its    *)
(* frames through.  There is no lock: every statement that reads or writes *)
(* self._sock is a step of its own, and send blocks in create_connection   *)
(* and in sendall, where other threads run.  A frame leaves as two chunks, *)
(* the second one carrying the NUL that ends it.  Graylog may close or     *)
(* lose a connection at any time; what the client writes after that is     *)
(* lost without notice until a write raises.                               *)
(***************************************************************************)
EXTENDS Integers, Sequences, FiniteSets

CONSTANTS Senders,    \* threads that emit through the transport
          MaxFrames,  \* bound: frames each of them sends
          MaxCloses,  \* bound: calls of close
          MaxOutages, \* bound: connections that Graylog drops
          NoSock      \* self._sock is None

ASSUME FrameAssumption == MaxFrames \in Nat
ASSUME OutageAssumption == MaxOutages \in Nat /\ MaxCloses \in Nat

Frame == [by : Senders, n : 1..MaxFrames]

VARIABLES pc,     \* where each sender is in send
          frame,  \* the frame it is sending
          mine,   \* the socket its sendall writes to
          part,   \* the chunk of the frame it writes next
          sock,   \* self._sock: an index into conns, or NoSock
          conns,  \* every connection made: whether it still reaches Graylog,
                  \* whether the client holds its socket open, what was read
          sent,   \* bound: frames each sender has begun
          closes, \* bound: calls of close so far
          outages, \* bound: connections dropped so far
          result,  \* history, per frame: what send did with it
          serial   \* history: no two calls on the transport ever overlapped

local == <<frame, mine, part>>
counts == <<sent, closes, outages, serial>>
vars == <<pc, local, sock, conns, counts, result>>

Init ==
  /\ pc = [t \in Senders |-> "idle"]
  /\ frame = [t \in Senders |-> [by |-> t, n |-> 1]]
  /\ mine = [t \in Senders |-> NoSock]
  /\ part = [t \in Senders |-> 1]
  /\ sock = NoSock
  /\ conns = <<>>
  /\ sent = [t \in Senders |-> 0]
  /\ closes = 0
  /\ outages = 0
  /\ result = [f \in Frame |-> "none"]
  /\ serial = TRUE

Goto(t, from, to) ==
  /\ pc[t] = from
  /\ pc' = [pc EXCEPT ![t] = to]

\* A call begins: does it overlap another one?
Enter(t) == serial' = (serial /\ \A u \in Senders \ {t} : pc[u] = "idle")

Finish(t, from, outcome) ==
  /\ Goto(t, from, "idle")
  /\ result' = [result EXCEPT ![frame[t]] = outcome]

-----------------------------------------------------------------------------
(* The steps of send.                                                       *)

\* send(frame): `if self._sock is None` decides whether to connect.
Send(t) ==
  /\ sent[t] < MaxFrames
  /\ Goto(t, "idle", IF sock = NoSock THEN "connect" ELSE "send")
  /\ sent' = [sent EXCEPT ![t] = @ + 1]
  /\ frame' = [frame EXCEPT ![t] = [by |-> t, n |-> sent[t] + 1]]
  /\ Enter(t)
  /\ UNCHANGED <<mine, part, sock, conns, closes, outages, result>>

\* create_connection succeeds and is stored, whatever was there before.
ConnectOk(t) ==
  /\ Goto(t, "connect", "check")
  /\ conns' = Append(conns, [up |-> TRUE, held |-> TRUE, read |-> <<>>])
  /\ sock' = Len(conns')
  /\ UNCHANGED <<local, counts, result>>

\* create_connection raises OSError: refused, or timed out.
ConnectFails(t) ==
  /\ Goto(t, "connect", "check")
  /\ sock' = NoSock
  /\ UNCHANGED <<local, conns, counts, result>>

\* The second look at self._sock: still None means unreachable.
Unreachable(t) ==
  /\ sock = NoSock
  /\ Finish(t, "check", "false")
  /\ UNCHANGED <<local, sock, conns, counts>>

Connected(t) ==
  /\ sock # NoSock
  /\ Goto(t, "check", "send")
  /\ UNCHANGED <<local, sock, conns, counts, result>>

\* Mutant: a frame is resumed where the last one broke off.
ResumedPart(t) == part[t]

FirstPart(t) == 1

\* self._sock.sendall(frame) reads the attribute once more.
BeginSendall(t) ==
  /\ sock # NoSock
  /\ Goto(t, "send", "write")
  /\ mine' = [mine EXCEPT ![t] = sock]
  /\ part' = [part EXCEPT ![t] = FirstPart(t)]
  /\ UNCHANGED <<frame, sock, conns, counts, result>>

\* None has no sendall: AttributeError is not an OSError and leaves send.
SendallOnNone(t) ==
  /\ sock = NoSock
  /\ Finish(t, "send", "raised")
  /\ UNCHANGED <<local, sock, conns, counts>>

\* Mutant: send without the rest, as socket.send may do.
LastPartAny(t) == TRUE

LastPart(t) == part[t] = 2

\* The kernel takes a chunk; Graylog reads it if the connection still stands.
WriteChunk(t) ==
  /\ pc[t] = "write"
  /\ conns[mine[t]].held
  /\ LET chunk == [frame |-> frame[t], part |-> part[t]] IN
     conns' = IF conns[mine[t]].up
              THEN [conns EXCEPT ![mine[t]].read = Append(@, chunk)]
              ELSE conns
  /\ IF LastPart(t) THEN Finish(t, "write", "true") ELSE UNCHANGED <<pc, result>>
  /\ part' = [part EXCEPT ![t] = 3 - @]
  /\ UNCHANGED <<frame, mine, sock, counts>>

\* A write raises OSError: the connection is gone, its socket was closed by
\* another thread, or the write timed out on a connection that still stands.
WriteFails(t) ==
  /\ Goto(t, "write", "handler")
  /\ UNCHANGED <<local, sock, conns, counts, result>>

\* except OSError: self._sock.close() closes whatever is in the attribute
\* now, which need not be the socket that failed.  The descriptor is gone
\* either way, but close may raise an OSError of its own, and no except
\* clause stands around this one.
CloseFailed(t) ==
  /\ sock # NoSock
  /\ \E next \in {"forget", "unwind"} : Goto(t, "handler", next)
  /\ conns' = [conns EXCEPT ![sock].held = FALSE]
  /\ UNCHANGED <<local, sock, counts, result>>

\* None has no close: the finally clause runs and AttributeError leaves send.
CloseNone(t) ==
  /\ sock = NoSock
  /\ Finish(t, "handler", "raised")
  /\ UNCHANGED <<local, sock, conns, counts>>

\* finally: self._sock = None; return False
Forget(t) ==
  /\ Finish(t, "forget", "false")
  /\ sock' = NoSock
  /\ UNCHANGED <<local, conns, counts>>

\* Mutant: self._sock = None without the finally, skipped by the exception.
SockKept == sock

SockAfterRaise == NoSock

\* close raised: the finally clause runs and its OSError leaves send.
Unwind(t) ==
  /\ Finish(t, "unwind", "oserror")
  /\ sock' = SockAfterRaise
  /\ UNCHANGED <<local, conns, counts>>

-----------------------------------------------------------------------------
(* close, from any thread.  Nothing remembers that it happened: a send that *)
(* comes later opens a new connection.                                      *)

Close(t) ==
  /\ closes < MaxCloses
  /\ closes' = closes + 1
  /\ Goto(t, "idle", IF sock = NoSock THEN "idle" ELSE "close")
  /\ Enter(t)
  /\ UNCHANGED <<local, sock, conns, sent, outages, result>>

\* self._sock.close(), whose OSError is ignored; on None it raises.
CloseSocket(t) ==
  /\ Goto(t, "close", IF sock = NoSock THEN "idle" ELSE "clear")
  /\ conns' = IF sock = NoSock THEN conns ELSE [conns EXCEPT ![sock].held = FALSE]
  /\ UNCHANGED <<local, sock, counts, result>>

ClearSocket(t) ==
  /\ Goto(t, "clear", "idle")
  /\ sock' = NoSock
  /\ UNCHANGED <<local, conns, counts, result>>

-----------------------------------------------------------------------------
(* Graylog, and the network.                                                *)

DropConnection(c) ==
  /\ conns[c].up
  /\ outages < MaxOutages
  /\ outages' = outages + 1
  /\ conns' = [conns EXCEPT ![c].up = FALSE]
  /\ UNCHANGED <<pc, local, sock, sent, closes, result, serial>>

AllSent ==
  /\ \A t \in Senders : pc[t] = "idle" /\ sent[t] = MaxFrames
  /\ closes = MaxCloses
  /\ UNCHANGED vars

Step(t) ==
  \/ ConnectOk(t) \/ ConnectFails(t)
  \/ Unreachable(t) \/ Connected(t)
  \/ BeginSendall(t) \/ SendallOnNone(t)
  \/ WriteChunk(t) \/ WriteFails(t)
  \/ CloseFailed(t) \/ CloseNone(t) \/ Forget(t) \/ Unwind(t)
  \/ CloseSocket(t) \/ ClearSocket(t)

Next ==
  \/ \E t \in Senders : Send(t) \/ Close(t) \/ Step(t)
  \/ \E c \in DOMAIN conns : DropConnection(c)
  \/ AllSent

Spec == Init /\ [][Next]_vars
-----------------------------------------------------------------------------
(* Properties.                                                              *)

AnyFrame == [by : Senders, n : Nat]
Conn == [up : BOOLEAN, held : BOOLEAN, read : Seq([frame : AnyFrame, part : 1..2])]

\* Every variable of the transport and of its callers keeps its type.
TypeOK ==
  /\ pc \in [Senders -> {"idle", "connect", "check", "send", "write", "handler",
                          "forget", "unwind", "close", "clear"}]
  /\ frame \in [Senders -> AnyFrame]
  /\ mine \in [Senders -> Nat \cup {NoSock}]
  /\ \A t \in Senders : pc[t] = "write" => mine[t] \in DOMAIN conns
  /\ part \in [Senders -> 1..2]
  /\ conns \in Seq(Conn)
  /\ sock \in DOMAIN conns \cup {NoSock}
  /\ sent \in [Senders -> 0..MaxFrames]
  /\ closes \in 0..MaxCloses
  /\ outages \in 0..MaxOutages
  /\ result \in [Frame -> {"none", "true", "false", "raised", "oserror"}]
  /\ serial \in BOOLEAN

\* Graylog cuts each connection at NUL bytes: what stands between two of them
\* must be one frame (gelf.py:78-79), so a half-written frame is never
\* continued by another.
Intact(read) ==
  \A i \in DOMAIN read :
    IF i % 2 = 1 THEN read[i].part = 1
                 ELSE read[i] = [frame |-> read[i - 1].frame, part |-> 2]

\* On every connection Graylog reads whole frames, in whatever order.
FramesIntact == \A c \in DOMAIN conns : Intact(conns[c].read)

\* As long as calls do not overlap, frames stay whole across every failure
\* and reconnect.
SerialFramesIntact == serial => FramesIntact

ReadWhole(f) == \E c \in DOMAIN conns : \E i \in 2..Len(conns[c].read) :
                  \A k \in 1..2 : conns[c].read[i - 2 + k] = [frame |-> f, part |-> k]

\* ... a frame for which send returned True, which promises no more than
\* "handed to the socket", reaches Graylog whole unless a connection was
\* dropped; no failure on the client's side loses or cuts it,
SerialLossNeedsOutage ==
  serial /\ outages = 0 => \A f \in Frame : result[f] = "true" => ReadWhole(f)

\* ... and send, which is to reconnect "on the next frame after any send
\* failure" (gelf.py:81-82), never finds its socket gone (AttributeError) and
\* never leaves a socket behind that it has closed, not even where closing it
\* raised.  Threads that overlap can make both happen.
SerialReconnects ==
  serial =>
    /\ \A f \in Frame : result[f] # "raised"
    /\ (\A t \in Senders : pc[t] = "idle") /\ sock # NoSock => conns[sock].held
=============================================================================
