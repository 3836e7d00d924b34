------------------------- MODULE GelfTransportProofs -------------------------
(* Theorems about GelfTransport, for any number of threads, frames, closes  *)
(* and outages.                                                             *)
EXTENDS GelfTransport, TLAPS

Chunk == [frame : AnyFrame, part : 1..2]

-----------------------------------------------------------------------------
(* Types.                                                                   *)

\* A connection that is replaced by another connection leaves connections.
LEMMA ConnsExcept ==
  ASSUME NEW s \in Seq(Conn), NEW c \in DOMAIN s, NEW new \in Conn
  PROVE  /\ [s EXCEPT ![c] = new] \in Seq(Conn)
         /\ DOMAIN [s EXCEPT ![c] = new] = DOMAIN s
         /\ Len([s EXCEPT ![c] = new]) = Len(s)
         /\ [s EXCEPT ![c] = new][c] = new
         /\ \A d \in DOMAIN s \ {c} : [s EXCEPT ![c] = new][d] = s[d]
  OBVIOUS

\* One field of a connection changes, the others do not.
LEMMA HeldFlag ==
  ASSUME NEW r \in Conn
  PROVE  LET new == [r EXCEPT !.held = FALSE] IN
         /\ new \in Conn /\ new.up = r.up /\ new.held = FALSE /\ new.read = r.read
  BY DEF Conn

LEMMA UpFlag ==
  ASSUME NEW r \in Conn
  PROVE  LET new == [r EXCEPT !.up = FALSE] IN
         /\ new \in Conn /\ new.up = FALSE /\ new.held = r.held /\ new.read = r.read
  BY DEF Conn

LEMMA OneMoreChunk ==
  ASSUME NEW r \in Conn, NEW chunk \in Chunk
  PROVE  LET new == [r EXCEPT !.read = Append(@, chunk)] IN
         /\ new \in Conn /\ new.up = r.up /\ new.held = r.held /\ new.read = Append(r.read, chunk)
<1>1. r.read \in Seq(Chunk)
  BY DEF Conn, Chunk
<1>2. Append(r.read, chunk) \in Seq(Chunk)
  BY <1>1
<1>3. QED
  BY <1>2 DEF Conn, Chunk

\* What closing a socket does to the connections,
LEMMA HeldEffect ==
  ASSUME NEW s \in Seq(Conn), NEW c \in DOMAIN s
  PROVE  LET r == [s EXCEPT ![c].held = FALSE] IN
         /\ r \in Seq(Conn) /\ DOMAIN r = DOMAIN s
         /\ r[c].up = s[c].up /\ ~r[c].held /\ r[c].read = s[c].read
         /\ \A d \in DOMAIN s \ {c} : r[d] = s[d]
<1> DEFINE new == [s[c] EXCEPT !.held = FALSE]
           r == [s EXCEPT ![c] = new]
<1>1. s[c] \in Conn
  OBVIOUS
<1>2. new \in Conn /\ new.up = s[c].up /\ ~new.held /\ new.read = s[c].read
  BY <1>1, HeldFlag
<1> HIDE DEF new
<1>3. r \in Seq(Conn) /\ DOMAIN r = DOMAIN s /\ r[c] = new /\ \A d \in DOMAIN s \ {c} : r[d] = s[d]
  BY <1>2, ConnsExcept
<1> HIDE DEF r
<1>4. /\ r \in Seq(Conn) /\ DOMAIN r = DOMAIN s
      /\ r[c].up = s[c].up /\ ~r[c].held /\ r[c].read = s[c].read
      /\ \A d \in DOMAIN s \ {c} : r[d] = s[d]
  BY <1>2, <1>3
<1>5. QED
  BY <1>4 DEF r, new

\* what an outage does,
LEMMA UpEffect ==
  ASSUME NEW s \in Seq(Conn), NEW c \in DOMAIN s
  PROVE  LET r == [s EXCEPT ![c].up = FALSE] IN
         /\ r \in Seq(Conn) /\ DOMAIN r = DOMAIN s
         /\ ~r[c].up /\ r[c].held = s[c].held /\ r[c].read = s[c].read
         /\ \A d \in DOMAIN s \ {c} : r[d] = s[d]
<1> DEFINE new == [s[c] EXCEPT !.up = FALSE]
           r == [s EXCEPT ![c] = new]
<1>1. s[c] \in Conn
  OBVIOUS
<1>2. new \in Conn /\ ~new.up /\ new.held = s[c].held /\ new.read = s[c].read
  BY <1>1, UpFlag
<1> HIDE DEF new
<1>3. r \in Seq(Conn) /\ DOMAIN r = DOMAIN s /\ r[c] = new /\ \A d \in DOMAIN s \ {c} : r[d] = s[d]
  BY <1>2, ConnsExcept
<1> HIDE DEF r
<1>4. /\ r \in Seq(Conn) /\ DOMAIN r = DOMAIN s
      /\ ~r[c].up /\ r[c].held = s[c].held /\ r[c].read = s[c].read
      /\ \A d \in DOMAIN s \ {c} : r[d] = s[d]
  BY <1>2, <1>3
<1>5. QED
  BY <1>4 DEF r, new

\* and what a chunk does that Graylog reads.
LEMMA WriteEffect ==
  ASSUME TypeOK, NEW t \in Senders, WriteChunk(t), conns[mine[t]].up
  PROVE  LET c == mine[t]
             chunk == [frame |-> frame[t], part |-> part[t]] IN
         /\ c \in DOMAIN conns /\ chunk \in Chunk /\ conns[c].read \in Seq(Chunk)
         /\ conns' \in Seq(Conn) /\ DOMAIN conns' = DOMAIN conns
         /\ conns'[c].up /\ conns'[c].held /\ conns'[c].read = Append(conns[c].read, chunk)
         /\ \A d \in DOMAIN conns \ {c} : conns'[d] = conns[d]
<1> DEFINE c == mine[t]
           chunk == [frame |-> frame[t], part |-> part[t]]
           new == [conns[c] EXCEPT !.read = Append(@, chunk)]
<1>1. c \in DOMAIN conns /\ conns[c].held
  BY DEF WriteChunk, TypeOK
<1>2. conns \in Seq(Conn) /\ conns[c] \in Conn
  BY <1>1 DEF TypeOK
<1>3. chunk \in Chunk
  BY DEF TypeOK, Chunk
<1>4. conns[c].read \in Seq(Chunk)
  BY <1>2 DEF Conn, Chunk
<1>5. conns' = [conns EXCEPT ![c].read = Append(@, chunk)]
  BY DEF WriteChunk
<1>6. conns' = [conns EXCEPT ![c] = new]
  BY <1>1, <1>2, <1>5
<1> HIDE DEF c, chunk
<1>7. new \in Conn /\ new.up = conns[c].up /\ new.held = conns[c].held /\ new.read = Append(conns[c].read, chunk)
  BY <1>2, <1>3, OneMoreChunk
<1> HIDE DEF new
<1>8. /\ conns' \in Seq(Conn) /\ DOMAIN conns' = DOMAIN conns /\ conns'[c] = new
      /\ \A d \in DOMAIN conns \ {c} : conns'[d] = conns[d]
  BY <1>1, <1>2, <1>6, <1>7, ConnsExcept
<1>9. conns[c].up
  BY DEF c
<1>10. QED
  BY <1>1, <1>3, <1>4, <1>7, <1>8, <1>9 DEF c, chunk

\* A new connection stands at the end, and nothing was read on it.
LEMMA ConnectEffect ==
  ASSUME TypeOK, NEW t \in Senders, ConnectOk(t)
  PROVE  /\ conns' \in Seq(Conn) /\ DOMAIN conns' = DOMAIN conns \cup {sock'}
         /\ sock' = Len(conns) + 1 /\ sock' \in DOMAIN conns' /\ sock' \notin DOMAIN conns
         /\ conns'[sock'] = [up |-> TRUE, held |-> TRUE, read |-> <<>>]
         /\ \A d \in DOMAIN conns : conns'[d] = conns[d]
<1> DEFINE new == [up |-> TRUE, held |-> TRUE, read |-> <<>>]
<1>1. conns \in Seq(Conn) /\ conns' = Append(conns, new) /\ sock' = Len(conns')
  BY DEF TypeOK, ConnectOk
<1>2. <<>> \in Seq([frame : AnyFrame, part : 1..2])
  OBVIOUS
<1>3. new \in Conn
  BY <1>2 DEF Conn
<1>4. conns' \in Seq(Conn) /\ Len(conns') = Len(conns) + 1 /\ Len(conns) \in Nat
  BY <1>1, <1>3
<1>5. DOMAIN conns = 1..Len(conns) /\ DOMAIN conns' = 1..(Len(conns) + 1)
  BY <1>1, <1>4
<1>6. QED
  BY <1>1, <1>4, <1>5

\* A transport that was just built has the right types.
LEMMA InitTypes == Init => TypeOK
<1> SUFFICES ASSUME Init PROVE TypeOK
  OBVIOUS
<1>1. <<>> \in Seq(Conn) /\ 0 \in 0..MaxFrames /\ 0 \in 0..MaxCloses /\ 0 \in 0..MaxOutages
  BY FrameAssumption, OutageAssumption
<1>2. [t \in Senders |-> [by |-> t, n |-> 1]] \in [Senders -> AnyFrame]
  BY DEF AnyFrame
<1>3. QED
  BY <1>1, <1>2 DEF Init, TypeOK

\* Every step keeps the types.
LEMMA StepTypes == TypeOK /\ [Next]_vars => TypeOK'
<1> SUFFICES ASSUME TypeOK, [Next]_vars PROVE TypeOK'
  OBVIOUS
<1> USE FrameAssumption, OutageAssumption DEF local, counts, Goto, Finish, Enter
<1>1. ASSUME NEW t \in Senders, Send(t)
      PROVE  TypeOK'
  <2>1. sent'[t] \in 0..MaxFrames /\ [by |-> t, n |-> sent[t] + 1] \in AnyFrame
    BY <1>1 DEF Send, TypeOK, AnyFrame
  <2>2. QED
    BY <1>1, <2>1 DEF Send, TypeOK
<1>2. ASSUME NEW t \in Senders, ConnectOk(t)
      PROVE  TypeOK'
  <2>1. UNCHANGED <<local, counts, result>> /\ Goto(t, "connect", "check")
    BY <1>2 DEF ConnectOk
  <2>2. QED
    BY <1>2, <2>1, ConnectEffect DEF TypeOK
<1>3. ASSUME NEW t \in Senders, ConnectFails(t) \/ Connected(t) \/ WriteFails(t) \/ ClearSocket(t)
      PROVE  TypeOK'
  BY <1>3 DEF ConnectFails, Connected, WriteFails, ClearSocket, TypeOK
<1>4. ASSUME NEW t \in Senders, Unreachable(t) \/ SendallOnNone(t) \/ CloseNone(t) \/ Forget(t) \/ Unwind(t)
      PROVE  TypeOK'
  BY <1>4 DEF Unreachable, SendallOnNone, CloseNone, Forget, Unwind, SockAfterRaise, TypeOK
<1>5. ASSUME NEW t \in Senders, BeginSendall(t)
      PROVE  TypeOK'
  <2>1. sock \in DOMAIN conns /\ sock \in Nat
    BY <1>5 DEF BeginSendall, TypeOK
  <2>2. QED
    BY <1>5, <2>1 DEF BeginSendall, FirstPart, TypeOK
<1>6. ASSUME NEW t \in Senders, WriteChunk(t)
      PROVE  TypeOK'
  <2>1. conns' \in Seq(Conn) /\ DOMAIN conns' = DOMAIN conns
    BY <1>6, WriteEffect DEF WriteChunk, TypeOK
  <2>2. part' \in [Senders -> 1..2] /\ UNCHANGED <<frame, mine, sock, counts>>
    <3>1. part \in [Senders -> 1..2] /\ 3 - part[t] \in 1..2
      BY DEF TypeOK
    <3>2. part' = [part EXCEPT ![t] = 3 - part[t]] /\ UNCHANGED <<frame, mine, sock, counts>>
      BY <1>6 DEF WriteChunk
    <3>3. QED
      BY <3>1, <3>2
  <2>3. CASE LastPart(t)
    BY <1>6, <2>1, <2>2, <2>3 DEF WriteChunk, TypeOK
  <2>4. CASE ~LastPart(t)
    BY <1>6, <2>1, <2>2, <2>4 DEF WriteChunk, TypeOK
  <2>5. QED
    BY <2>3, <2>4
<1>7. ASSUME NEW t \in Senders, CloseFailed(t)
      PROVE  TypeOK'
  <2>1. sock \in DOMAIN conns
    BY <1>7 DEF CloseFailed, TypeOK
  <2>2. conns' \in Seq(Conn) /\ DOMAIN conns' = DOMAIN conns
    BY <1>7, <2>1, HeldEffect DEF CloseFailed, TypeOK
  <2>3. QED
    BY <1>7, <2>2 DEF CloseFailed, TypeOK
<1>8. ASSUME NEW t \in Senders, Close(t)
      PROVE  TypeOK'
  BY <1>8 DEF Close, TypeOK
<1>9. ASSUME NEW t \in Senders, CloseSocket(t)
      PROVE  TypeOK'
  <2>1. conns' \in Seq(Conn) /\ DOMAIN conns' = DOMAIN conns
    <3>1. CASE sock = NoSock
      BY <1>9, <3>1 DEF CloseSocket, TypeOK
    <3>2. CASE sock # NoSock
      <4>1. sock \in DOMAIN conns
        BY <3>2 DEF TypeOK
      <4>2. QED
        BY <1>9, <3>2, <4>1, HeldEffect DEF CloseSocket, TypeOK
    <3>3. QED
      BY <3>1, <3>2
  <2>2. QED
    BY <1>9, <2>1 DEF CloseSocket, TypeOK
<1>10. ASSUME NEW c \in DOMAIN conns, DropConnection(c)
       PROVE  TypeOK'
  <2>1. conns' \in Seq(Conn) /\ DOMAIN conns' = DOMAIN conns
    BY <1>10, UpEffect DEF DropConnection, TypeOK
  <2>2. QED
    BY <1>10, <2>1 DEF DropConnection, TypeOK
<1>11. CASE UNCHANGED vars
  BY <1>11 DEF vars, TypeOK
<1>12. QED
  BY <1>1, <1>2, <1>3, <1>4, <1>5, <1>6, <1>7, <1>8, <1>9, <1>10, <1>11 DEF Next, Step, AllSent

\* Every variable of the transport keeps its type, also when calls overlap.
THEOREM TypeCorrect == Spec => []TypeOK
  BY InitTypes, StepTypes, PTL DEF Spec

-----------------------------------------------------------------------------
(* One call at a time.  What holds on a transport whose calls never         *)
(* overlapped: the attribute is the socket the call works with, and outside *)
(* of a write, or after one broke and before its socket is closed, the      *)
(* socket stands between two frames.                                        *)

OneCall == \A t \in Senders, u \in Senders : pc[t] # "idle" /\ pc[u] # "idle" => t = u

HasSocket ==
  \A t \in Senders :
    pc[t] \in {"send", "write", "handler", "forget", "unwind", "close", "clear"} => sock # NoSock

WritesToSocket == \A t \in Senders : pc[t] = "write" => mine[t] = sock

Usable == sock # NoSock /\ conns[sock].up /\ conns[sock].held /\ \A t \in Senders : pc[t] # "handler"

\* The thread has written the first chunk of its frame and not the second.
Halfway(t) == pc[t] = "write" /\ part[t] = 2

AtBoundary ==
  Usable =>
    LET read == conns[sock].read IN
    /\ (\A t \in Senders : ~Halfway(t)) => Len(read) % 2 = 0
    /\ \A t \in Senders : Halfway(t) =>
         Len(read) % 2 = 1 /\ read[Len(read)] = [frame |-> frame[t], part |-> 1]

NoOutageAllUp == outages = 0 => \A c \in DOMAIN conns : conns[c].up

\* A socket that was closed leaves the attribute before the call ends.
HeldUnlessClosing ==
  sock # NoSock =>
    conns[sock].held \/ \E t \in Senders : pc[t] \in {"forget", "unwind", "clear"}

NoneRaised == \A f \in Frame : result[f] # "raised"

TrueWasRead == outages = 0 => \A f \in Frame : result[f] = "true" => ReadWhole(f)

SerialBody ==
  /\ OneCall /\ HasSocket /\ WritesToSocket
  /\ AtBoundary /\ HeldUnlessClosing /\ FramesIntact
  /\ NoOutageAllUp /\ NoneRaised /\ TrueWasRead

SerialInv == serial => SerialBody

\* The next chunk of a frame, or the first of one at a boundary, keeps what was
\* read intact.
LEMMA IntactAppend ==
  ASSUME NEW read \in Seq(Chunk), Intact(read), NEW chunk \in Chunk,
         \/ Len(read) % 2 = 0 /\ chunk.part = 1
         \/ /\ Len(read) % 2 = 1
            /\ chunk = [frame |-> read[Len(read)].frame, part |-> 2]
  PROVE  Intact(Append(read, chunk))
<1> DEFINE new == Append(read, chunk)
<1>1. /\ Len(read) \in Nat /\ DOMAIN read = 1..Len(read) /\ DOMAIN new = 1..(Len(read) + 1)
      /\ \A i \in 1..Len(read) : new[i] = read[i]
      /\ new[Len(read) + 1] = chunk
  OBVIOUS
<1> SUFFICES ASSUME NEW i \in 1..(Len(read) + 1)
             PROVE  IF i % 2 = 1 THEN new[i].part = 1
                    ELSE new[i] = [frame |-> new[i - 1].frame, part |-> 2]
  BY <1>1 DEF Intact
<1>2. CASE i \in 1..Len(read)
  <2>1. CASE i % 2 = 1
    BY <1>1, <1>2, <2>1 DEF Intact
  <2>2. CASE i % 2 # 1
    <3>1. i - 1 \in 1..Len(read)
      BY <1>1, <1>2, <2>2
    <3>2. read[i] = [frame |-> read[i - 1].frame, part |-> 2]
      BY <1>1, <1>2, <2>2 DEF Intact
    <3>3. QED
      BY <1>1, <1>2, <2>2, <3>1, <3>2
  <2>3. QED
    BY <2>1, <2>2
<1>3. CASE i = Len(read) + 1
  <2>1. CASE Len(read) % 2 = 0
    <3>1. i % 2 = 1
      BY <1>1, <1>3, <2>1
    <3>2. QED
      BY <1>1, <1>3, <2>1, <3>1
  <2>2. CASE Len(read) % 2 = 1
    <3>1. i % 2 = 0 /\ i - 1 = Len(read) /\ Len(read) \in 1..Len(read)
      BY <1>1, <1>3, <2>2
    <3>2. QED
      BY <1>1, <1>3, <2>2, <3>1
  <2>3. QED
    BY <1>1, <2>1, <2>2
<1>4. i \in 1..Len(read) \/ i = Len(read) + 1
  BY <1>1
<1>5. QED
  BY <1>2, <1>3, <1>4, Zenon

\* No call has begun.
LEMMA InitSerial == Init => SerialInv
<1> SUFFICES ASSUME Init PROVE SerialBody
  BY DEF SerialInv
<1>1. DOMAIN <<>> = {}
  OBVIOUS
<1>2. OneCall /\ HasSocket /\ WritesToSocket /\ AtBoundary
  BY DEF Init, OneCall, HasSocket, WritesToSocket, AtBoundary, Usable
<1>5. HeldUnlessClosing
  BY DEF Init, HeldUnlessClosing
<1>3. FramesIntact /\ NoOutageAllUp /\ NoneRaised /\ TrueWasRead
  BY <1>1 DEF Init, FramesIntact, NoOutageAllUp, NoneRaised, TrueWasRead
<1>4. QED
  BY <1>2, <1>3, <1>5 DEF SerialBody

\* The part of the invariant that is about what Graylog read.
ReadBody == FramesIntact /\ NoOutageAllUp /\ TrueWasRead

\* It does not see steps that change neither connections nor results, except
\* to a result that is not "true".
LEMMA FrameRead ==
  ASSUME TypeOK, ReadBody, UNCHANGED <<conns, outages>>,
         \A f \in Frame : result'[f] = "true" => result[f] = "true"
  PROVE  ReadBody'
<1>1. FramesIntact' /\ NoOutageAllUp'
  BY DEF ReadBody, FramesIntact, NoOutageAllUp
<1>2. ASSUME NEW f \in Frame
      PROVE  ReadWhole(f)' <=> ReadWhole(f)
  BY DEF ReadWhole
<1>3. TrueWasRead'
  BY <1>2 DEF ReadBody, TrueWasRead
<1>4. QED
  BY <1>1, <1>3 DEF ReadBody

\* Nor steps that only change flags of a connection, if an up flag falls only
\* in an outage, or that make a connection on which nothing was read.
LEMMA FlagRead ==
  ASSUME TypeOK, TypeOK', ReadBody, UNCHANGED result,
         DOMAIN conns \subseteq DOMAIN conns',
         \A c \in DOMAIN conns : conns'[c].read = conns[c].read,
         \A c \in DOMAIN conns' \ DOMAIN conns : conns'[c].read = <<>> /\ conns'[c].up,
         \/ outages' # 0
         \/ outages' = outages /\ \A c \in DOMAIN conns : conns[c].up => conns'[c].up
  PROVE  ReadBody'
<1>1. Intact(<<>>)
  BY DEF Intact
<1>2. FramesIntact'
  <2> SUFFICES ASSUME NEW c \in DOMAIN conns'
               PROVE  Intact(conns'[c].read)
    BY DEF FramesIntact
  <2>1. CASE c \in DOMAIN conns
    BY <2>1 DEF ReadBody, FramesIntact
  <2>2. CASE c \notin DOMAIN conns
    BY <2>2, <1>1
  <2>3. QED
    BY <2>1, <2>2
<1>3. NoOutageAllUp'
  BY DEF ReadBody, NoOutageAllUp
<1>4. ASSUME NEW f \in Frame, ReadWhole(f)
      PROVE  ReadWhole(f)'
  BY <1>4 DEF ReadWhole
<1>5. TrueWasRead'
  BY <1>4 DEF ReadBody, TrueWasRead
<1>6. QED
  BY <1>2, <1>3, <1>5 DEF ReadBody

\* The next chunk goes where the invariant says it may,
LEMMA NextChunk ==
  ASSUME TypeOK, SerialBody, NEW t \in Senders, WriteChunk(t), conns[mine[t]].up
  PROVE  LET read == conns[mine[t]].read
             chunk == [frame |-> frame[t], part |-> part[t]] IN
         /\ part[t] = 1 => Len(read) % 2 = 0
         /\ part[t] = 2 => Len(read) % 2 = 1 /\ read[Len(read)] = [frame |-> frame[t], part |-> 1]
         /\ Intact(Append(read, chunk))
<1> USE DEF SerialBody
<1> DEFINE read == conns[mine[t]].read
           chunk == [frame |-> frame[t], part |-> part[t]]
<1>1. /\ pc[t] = "write" /\ mine[t] = sock /\ sock # NoSock /\ part[t] \in 1..2 /\ conns[sock].held
      /\ \A u \in Senders \ {t} : pc[u] = "idle"
  BY DEF WriteChunk, WritesToSocket, HasSocket, TypeOK, OneCall
<1>2. Usable
  BY <1>1 DEF Usable
<1>3. part[t] = 1 => \A u \in Senders : ~Halfway(u)
  BY <1>1 DEF Halfway
<1>4. part[t] = 1 => Len(read) % 2 = 0
  BY <1>1, <1>2, <1>3 DEF AtBoundary
<1>5. part[t] = 2 => Halfway(t)
  BY <1>1 DEF Halfway
<1>6. part[t] = 2 => Len(read) % 2 = 1 /\ read[Len(read)] = [frame |-> frame[t], part |-> 1]
  BY <1>1, <1>2, <1>5 DEF AtBoundary
<1>7. mine[t] \in DOMAIN conns /\ chunk \in Chunk /\ read \in Seq(Chunk)
  BY WriteEffect
<1>8. Intact(read)
  BY <1>7 DEF FramesIntact
<1>9. /\ chunk.part = part[t]
      /\ part[t] = 2 => chunk = [frame |-> read[Len(read)].frame, part |-> 2]
  <2>1. chunk = [frame |-> frame[t], part |-> part[t]] /\ chunk.part = part[t]
    OBVIOUS
  <2>2. part[t] = 2 => read[Len(read)].frame = frame[t]
    BY <1>6
  <2> HIDE DEF read, chunk
  <2>3. QED
    BY <2>1, <2>2
<1> HIDE DEF read, chunk
<1>10. \/ Len(read) % 2 = 0 /\ chunk.part = 1
       \/ Len(read) % 2 = 1 /\ chunk = [frame |-> read[Len(read)].frame, part |-> 2]
  <2>1. CASE part[t] = 1
    BY <1>4, <1>9, <2>1
  <2>2. CASE part[t] = 2
    BY <1>6, <1>9, <2>2
  <2>3. QED
    BY <1>1, <2>1, <2>2
<1>11. Intact(Append(read, chunk))
  BY <1>7, <1>8, <1>10, IntactAppend
<1>12. QED
  BY <1>4, <1>6, <1>11 DEF read, chunk

\* and the thread goes on to the second chunk, or returns.
LEMMA WriteMoves ==
  ASSUME TypeOK, SerialBody, NEW t \in Senders, WriteChunk(t)
  PROVE  /\ pc[t] = "write" /\ mine[t] = sock /\ sock # NoSock /\ sock \in DOMAIN conns /\ conns[sock].held
         /\ UNCHANGED <<frame, mine, sock, outages>>
         /\ \A u \in Senders \ {t} : pc[u] = "idle" /\ pc'[u] = "idle"
         /\ \/ part[t] = 1 /\ pc' = pc /\ result' = result /\ part'[t] = 2
            \/ part[t] = 2 /\ pc'[t] = "idle" /\ result' = [result EXCEPT ![frame[t]] = "true"]
<1>1. /\ pc[t] = "write" /\ mine[t] = sock /\ sock # NoSock /\ sock \in DOMAIN conns /\ conns[sock].held
      /\ \A u \in Senders \ {t} : pc[u] = "idle"
  BY DEF WriteChunk, WritesToSocket, HasSocket, TypeOK, OneCall, SerialBody
<1>2. UNCHANGED <<frame, mine, sock, outages>>
  BY DEF WriteChunk, counts
<1>3. part[t] \in {1, 2} /\ part' = [part EXCEPT ![t] = 3 - part[t]]
  BY DEF WriteChunk, TypeOK
<1>4. CASE part[t] = 1
  <2>1. UNCHANGED <<pc, result>>
    BY <1>4 DEF WriteChunk, LastPart
  <2>2. part'[t] = 2
    BY <1>3, <1>4 DEF TypeOK
  <2>3. QED
    BY <1>1, <1>2, <1>4, <2>1, <2>2
<1>5. CASE part[t] = 2
  <2>1. pc' = [pc EXCEPT ![t] = "idle"] /\ result' = [result EXCEPT ![frame[t]] = "true"]
    BY <1>5 DEF WriteChunk, LastPart, Finish, Goto
  <2>2. QED
    BY <1>1, <1>2, <1>5, <2>1 DEF TypeOK
<1>6. QED
  BY <1>3, <1>4, <1>5

\* What was read before a chunk is read after it.
LEMMA StillRead ==
  ASSUME TypeOK, NEW t \in Senders, WriteChunk(t), conns[mine[t]].up, NEW f, ReadWhole(f)
  PROVE  ReadWhole(f)'
<1> DEFINE c == mine[t]
           read == conns[c].read
           chunk == [frame |-> frame[t], part |-> part[t]]
<1>1. /\ c \in DOMAIN conns /\ chunk \in Chunk /\ read \in Seq(Chunk) /\ DOMAIN conns' = DOMAIN conns
      /\ conns'[c].read = Append(read, chunk)
      /\ \A d \in DOMAIN conns \ {c} : conns'[d] = conns[d]
  BY WriteEffect
<1>2. PICK d \in DOMAIN conns :
        \E i \in 2..Len(conns[d].read) :
          \A k \in 1..2 : conns[d].read[i - 2 + k] = [frame |-> f, part |-> k]
  BY DEF ReadWhole
<1> SUFFICES \E b \in DOMAIN conns' : \E i \in 2..Len(conns'[b].read) :
               \A k \in 1..2 : conns'[b].read[i - 2 + k] = [frame |-> f, part |-> k]
  BY DEF ReadWhole
<1>3. CASE d = c
  <2> HIDE DEF c, read, chunk
  <2>1. PICK i \in 2..Len(read) : \A k \in 1..2 : read[i - 2 + k] = [frame |-> f, part |-> k]
    BY <1>2, <1>3 DEF read
  <2>2. /\ Len(read) \in Nat /\ Len(Append(read, chunk)) = Len(read) + 1
        /\ \A m \in 1..Len(read) : Append(read, chunk)[m] = read[m]
    BY <1>1
  <2>3. i \in 2..Len(Append(read, chunk)) /\ \A k \in 1..2 : i - 2 + k \in 1..Len(read)
    BY <2>1, <2>2
  <2>4. \A k \in 1..2 : Append(read, chunk)[i - 2 + k] = [frame |-> f, part |-> k]
    BY <2>1, <2>2, <2>3
  <2>5. \E m \in 2..Len(conns'[c].read) :
          \A k \in 1..2 : conns'[c].read[m - 2 + k] = [frame |-> f, part |-> k]
    <3>1. conns'[c].read = Append(read, chunk)
      BY <1>1
    <3>2. \E m \in 2..Len(Append(read, chunk)) :
            \A k \in 1..2 : Append(read, chunk)[m - 2 + k] = [frame |-> f, part |-> k]
      <4> WITNESS i \in 2..Len(Append(read, chunk))
      <4> QED
        BY <2>3, <2>4
    <3>3. QED
      BY <3>1, <3>2
  <2>6. c \in DOMAIN conns'
    BY <1>1
  <2>7. QED
    BY <2>5, <2>6
<1>4. CASE d # c
  BY <1>1, <1>2, <1>4
<1>5. QED
  BY <1>3, <1>4

\* A frame that was written to its end was read whole.
LEMMA LastChunkRead ==
  ASSUME TypeOK, SerialBody, NEW t \in Senders, WriteChunk(t), conns[mine[t]].up, part[t] = 2
  PROVE  \E d \in DOMAIN conns' : \E i \in 2..Len(conns'[d].read) :
           \A k \in 1..2 : conns'[d].read[i - 2 + k] = [frame |-> frame[t], part |-> k]
<1> DEFINE c == mine[t]
           read == conns[c].read
           chunk == [frame |-> frame[t], part |-> part[t]]
           new == Append(read, chunk)
<1>1. /\ c \in DOMAIN conns' /\ chunk \in Chunk /\ read \in Seq(Chunk) /\ conns'[c].read = new
  BY WriteEffect
<1>2. Len(read) % 2 = 1 /\ read[Len(read)] = [frame |-> frame[t], part |-> 1]
  BY NextChunk
<1>3. chunk = [frame |-> frame[t], part |-> 2]
  OBVIOUS
<1> HIDE DEF c, read, chunk
<1>4. /\ Len(read) \in Nat /\ Len(new) = Len(read) + 1
      /\ \A m \in 1..Len(read) : new[m] = read[m]
      /\ new[Len(read) + 1] = chunk
  BY <1>1
<1>5. Len(read) \in 1..Len(read) /\ Len(read) + 1 \in 2..Len(new)
  BY <1>2, <1>4
<1>6. new[Len(read)] = [frame |-> frame[t], part |-> 1] /\ new[Len(read) + 1] = [frame |-> frame[t], part |-> 2]
  BY <1>2, <1>3, <1>4, <1>5
<1> DEFINE i == Len(read) + 1
<1>7. \A k \in 1..2 : (k = 1 /\ i - 2 + k = Len(read)) \/ (k = 2 /\ i - 2 + k = Len(read) + 1)
  BY <1>4
<1>8. \A k \in 1..2 : new[i - 2 + k] = [frame |-> frame[t], part |-> k]
  BY <1>6, <1>7
<1> HIDE DEF new, i
<1>9. i \in 2..Len(new)
  BY <1>5 DEF i
<1>10. QED
  BY <1>1, <1>8, <1>9

\* A chunk keeps the invariant.
LEMMA WriteSerial ==
  ASSUME TypeOK, TypeOK', SerialBody, NEW t \in Senders, WriteChunk(t)
  PROVE  SerialBody'
<1> USE DEF SerialBody
<1> DEFINE c == mine[t]
           read == conns[c].read
           chunk == [frame |-> frame[t], part |-> part[t]]
<1>1. /\ pc[t] = "write" /\ c = sock /\ sock # NoSock /\ c \in DOMAIN conns /\ conns[c].held
      /\ UNCHANGED <<frame, mine, sock, outages>>
      /\ \A u \in Senders \ {t} : pc[u] = "idle" /\ pc'[u] = "idle"
  BY WriteMoves
<1>2. \/ part[t] = 1 /\ pc' = pc /\ result' = result /\ part'[t] = 2
      \/ part[t] = 2 /\ pc'[t] = "idle" /\ result' = [result EXCEPT ![frame[t]] = "true"]
  BY WriteMoves
<1>3. OneCall' /\ HasSocket' /\ WritesToSocket'
  BY <1>1, <1>2 DEF OneCall, HasSocket, WritesToSocket
<1>4. NoneRaised'
  BY <1>2 DEF NoneRaised, TypeOK
<1>8. conns'[sock'].held
  <2>1. CASE ~conns[c].up
    BY <1>1, <2>1 DEF WriteChunk
  <2>2. CASE conns[c].up
    BY <1>1, <2>2, WriteEffect
  <2>3. QED
    BY <2>1, <2>2
<1>9. HeldUnlessClosing'
  BY <1>8 DEF HeldUnlessClosing
<1>5. CASE ~conns[c].up
  <2>1. conns' = conns
    BY <1>5 DEF WriteChunk
  <2>2. AtBoundary'
    BY <1>1, <1>5, <2>1 DEF AtBoundary, Usable
  <2>3. outages # 0
    BY <1>1, <1>5 DEF NoOutageAllUp
  <2>4. FramesIntact' /\ NoOutageAllUp' /\ TrueWasRead'
    BY <1>1, <2>1, <2>3 DEF FramesIntact, NoOutageAllUp, TrueWasRead
  <2>5. QED
    BY <1>3, <1>4, <1>9, <2>2, <2>4
<1>6. CASE conns[c].up
  <2>1. /\ chunk \in Chunk /\ read \in Seq(Chunk) /\ DOMAIN conns' = DOMAIN conns
        /\ conns'[c].up /\ conns'[c].read = Append(read, chunk)
        /\ \A d \in DOMAIN conns \ {c} : conns'[d] = conns[d]
    BY <1>6, WriteEffect
  <2>2. /\ part[t] = 1 => Len(read) % 2 = 0
        /\ part[t] = 2 => Len(read) % 2 = 1
        /\ Intact(Append(read, chunk))
    BY <1>6, NextChunk
  <2>3. chunk = [frame |-> frame[t], part |-> part[t]]
    OBVIOUS
  <2>4. \A f : ReadWhole(f) => ReadWhole(f)'
    BY <1>6, StillRead
  <2>5. part[t] = 2 => \A f \in {frame[t]} : ReadWhole(f)'
    BY <1>6, LastChunkRead DEF ReadWhole
  <2> HIDE DEF read, chunk
  <2>6. /\ Len(read) \in Nat /\ Len(Append(read, chunk)) = Len(read) + 1
        /\ Append(read, chunk)[Len(read) + 1] = chunk
    BY <2>1
  <2>7. FramesIntact'
    <3> SUFFICES ASSUME NEW d \in DOMAIN conns
                 PROVE  Intact(conns'[d].read)
      BY <2>1 DEF FramesIntact
    <3>1. QED
      BY <2>1, <2>2 DEF FramesIntact
  <2>8. AtBoundary'
    <3>1. conns'[sock'].read = Append(read, chunk)
      BY <1>1, <2>1
    <3>2. CASE part[t] = 1
      <4>1. (Len(read) + 1) % 2 = 1
        BY <2>2, <2>6, <3>2
      <4>2. Halfway(t)' /\ chunk = [frame |-> frame'[t], part |-> 1]
        BY <1>1, <1>2, <2>3, <3>2 DEF Halfway
      <4>3. \A u \in Senders : Halfway(u)' => u = t
        BY <1>1 DEF Halfway
      <4>4. QED
        BY <2>6, <3>1, <4>1, <4>2, <4>3 DEF AtBoundary
    <3>3. CASE part[t] = 2
      <4>1. (Len(read) + 1) % 2 = 0
        BY <2>2, <2>6, <3>3
      <4>2. \A u \in Senders : ~Halfway(u)'
        BY <1>1, <1>2, <3>3 DEF Halfway
      <4>3. QED
        BY <2>6, <3>1, <4>1, <4>2 DEF AtBoundary
    <3>4. QED
      BY <1>2, <3>2, <3>3
  <2>9. NoOutageAllUp'
    BY <1>1, <2>1 DEF NoOutageAllUp
  <2>10. TrueWasRead'
    <3> SUFFICES ASSUME outages = 0, NEW f \in Frame, result'[f] = "true"
                 PROVE  ReadWhole(f)'
      BY <1>1 DEF TrueWasRead
    <3>1. CASE result[f] = "true"
      BY <2>4, <3>1 DEF TrueWasRead
    <3>2. CASE result[f] # "true"
      <4>1. part[t] = 2 /\ f = frame[t]
        BY <1>2, <3>2 DEF TypeOK
      <4>2. QED
        BY <2>5, <4>1
    <3>3. QED
      BY <3>1, <3>2
  <2>11. QED
    BY <1>3, <1>4, <1>9, <2>7, <2>8, <2>9, <2>10
<1>7. QED
  BY <1>5, <1>6

\* Every step of send, close and Graylog keeps the invariant.
LEMMA StepSerial == TypeOK /\ SerialInv /\ [Next]_vars => SerialInv'
<1> SUFFICES ASSUME TypeOK, SerialInv, [Next]_vars, serial'
             PROVE  SerialBody'
  BY DEF SerialInv
<1>0. TypeOK'
  BY StepTypes
<1>1. serial /\ SerialBody /\ ReadBody
  <2>1. serial
    BY DEF Next, Step, vars, counts, Send, Close, Enter, ConnectOk, ConnectFails, Unreachable, Connected,
       BeginSendall, SendallOnNone, WriteChunk, WriteFails, CloseFailed, CloseNone, Forget, Unwind,
       CloseSocket, ClearSocket, DropConnection, AllSent, TypeOK
  <2>2. QED
    BY <2>1 DEF SerialInv, SerialBody, ReadBody
<1> USE DEF Goto, Finish
<1>2. ASSUME NEW t \in Senders, Send(t) \/ Close(t)
      PROVE  SerialBody'
  <2>1. /\ \A u \in Senders : pc[u] = "idle"
        /\ \A u \in Senders \ {t} : pc'[u] = "idle"
        /\ pc'[t] \in {"idle", "connect", "send", "close"}
        /\ pc'[t] \in {"send", "close"} => sock # NoSock
        /\ UNCHANGED <<mine, part, sock, conns, outages, result>>
    BY <1>2 DEF Send, Close, Enter, TypeOK, local
  <2>2. OneCall' /\ HasSocket' /\ WritesToSocket' /\ NoneRaised'
    BY <2>1, <1>1 DEF OneCall, HasSocket, WritesToSocket, NoneRaised, SerialBody
  <2>3. AtBoundary'
    <3>1. \A u \in Senders : ~Halfway(u) /\ ~Halfway(u)' /\ pc[u] # "handler"
      BY <2>1 DEF Halfway
    <3>2. QED
      BY <2>1, <3>1, <1>1 DEF AtBoundary, Usable, SerialBody
  <2>4. ReadBody'
    BY <1>1, <2>1, FrameRead
  <2>7. HeldUnlessClosing'
    BY <1>1, <2>1 DEF HeldUnlessClosing, SerialBody
  <2>5. QED
    BY <2>2, <2>3, <2>4, <2>7 DEF SerialBody, ReadBody
<1>3. ASSUME NEW t \in Senders, ConnectOk(t)
      PROVE  SerialBody'
  <2>1. /\ pc[t] = "connect" /\ pc'[t] = "check"
        /\ \A u \in Senders \ {t} : pc[u] = "idle" /\ pc'[u] = "idle"
        /\ UNCHANGED <<outages, result>>
    BY <1>1, <1>3 DEF ConnectOk, TypeOK, counts, SerialBody, OneCall
  <2>2. OneCall' /\ HasSocket' /\ WritesToSocket' /\ NoneRaised'
    BY <2>1, <1>1 DEF OneCall, HasSocket, WritesToSocket, NoneRaised, SerialBody
  <2>3. AtBoundary'
    <3>1. conns'[sock'].read = <<>> /\ Len(<<>>) % 2 = 0
      BY <1>3, ConnectEffect
    <3>2. \A u \in Senders : ~Halfway(u)'
      BY <2>1 DEF Halfway
    <3>3. QED
      BY <3>1, <3>2 DEF AtBoundary
  <2>4. ReadBody'
    BY <1>0, <1>1, <1>3, <2>1, ConnectEffect, FlagRead
  <2>7. HeldUnlessClosing'
    BY <1>3, ConnectEffect DEF HeldUnlessClosing
  <2>5. QED
    BY <2>2, <2>3, <2>4, <2>7 DEF SerialBody, ReadBody
<1>4. ASSUME NEW t \in Senders, ConnectFails(t) \/ ClearSocket(t) \/ Forget(t) \/ Unwind(t)
      PROVE  SerialBody'
  <2>1. /\ sock' = NoSock /\ pc'[t] \in {"check", "idle"}
        /\ \A u \in Senders \ {t} : pc'[u] = "idle"
        /\ UNCHANGED <<conns, outages>>
        /\ \A f \in Frame : result'[f] \in {result[f], "false", "oserror"}
    BY <1>1, <1>4 DEF ConnectFails, ClearSocket, Forget, Unwind, SockAfterRaise, TypeOK, counts, SerialBody, OneCall
  <2>2. OneCall' /\ HasSocket' /\ WritesToSocket' /\ NoneRaised'
    BY <2>1, <1>1 DEF OneCall, HasSocket, WritesToSocket, NoneRaised, SerialBody
  <2>3. AtBoundary'
    BY <2>1 DEF AtBoundary, Usable
  <2>4. ReadBody'
    BY <1>1, <2>1, FrameRead
  <2>7. HeldUnlessClosing'
    BY <2>1 DEF HeldUnlessClosing
  <2>5. QED
    BY <2>2, <2>3, <2>4, <2>7 DEF SerialBody, ReadBody
<1>5. ASSUME NEW t \in Senders, Unreachable(t) \/ Connected(t)
      PROVE  SerialBody'
  <2>1. /\ pc[t] = "check" /\ pc'[t] \in {"send", "idle"}
        /\ pc'[t] = "send" => sock # NoSock
        /\ \A u \in Senders \ {t} : pc[u] = "idle" /\ pc'[u] = "idle"
        /\ UNCHANGED <<sock, conns, outages, local>>
        /\ \A f \in Frame : result'[f] \in {result[f], "false"}
    BY <1>1, <1>5 DEF Unreachable, Connected, TypeOK, counts, SerialBody, OneCall
  <2>2. OneCall' /\ HasSocket' /\ WritesToSocket' /\ NoneRaised'
    BY <2>1, <1>1 DEF OneCall, HasSocket, WritesToSocket, NoneRaised, SerialBody
  <2>3. AtBoundary'
    <3>1. \A u \in Senders : ~Halfway(u) /\ ~Halfway(u)' /\ pc[u] # "handler"
      BY <2>1 DEF Halfway
    <3>2. QED
      BY <2>1, <3>1, <1>1 DEF AtBoundary, Usable, SerialBody
  <2>4. ReadBody'
    BY <1>1, <2>1, FrameRead
  <2>7. HeldUnlessClosing'
    BY <1>1, <2>1 DEF HeldUnlessClosing, SerialBody
  <2>5. QED
    BY <2>2, <2>3, <2>4, <2>7 DEF SerialBody, ReadBody
<1>6. ASSUME NEW t \in Senders, BeginSendall(t)
      PROVE  SerialBody'
  <2>1. /\ pc[t] = "send" /\ pc'[t] = "write" /\ sock # NoSock
        /\ mine'[t] = sock /\ part'[t] = 1
        /\ \A u \in Senders \ {t} : pc[u] = "idle" /\ pc'[u] = "idle"
        /\ UNCHANGED <<sock, conns, outages, result>>
    BY <1>1, <1>6 DEF BeginSendall, FirstPart, TypeOK, counts, SerialBody, OneCall
  <2>2. OneCall' /\ HasSocket' /\ WritesToSocket' /\ NoneRaised'
    BY <2>1, <1>1 DEF OneCall, HasSocket, WritesToSocket, NoneRaised, SerialBody
  <2>3. AtBoundary'
    <3>1. \A u \in Senders : ~Halfway(u) /\ ~Halfway(u)' /\ pc[u] # "handler"
      BY <2>1 DEF Halfway
    <3>2. QED
      BY <2>1, <3>1, <1>1 DEF AtBoundary, Usable, SerialBody
  <2>4. ReadBody'
    BY <1>1, <2>1, FrameRead
  <2>7. HeldUnlessClosing'
    BY <1>1, <2>1 DEF HeldUnlessClosing, SerialBody
  <2>5. QED
    BY <2>2, <2>3, <2>4, <2>7 DEF SerialBody, ReadBody
<1>7. ASSUME NEW t \in Senders, SendallOnNone(t) \/ CloseNone(t)
      PROVE  FALSE
  BY <1>1, <1>7 DEF SendallOnNone, CloseNone, SerialBody, HasSocket
<1>8. ASSUME NEW t \in Senders, WriteFails(t)
      PROVE  SerialBody'
  <2>1. /\ pc[t] = "write" /\ pc'[t] = "handler" /\ sock # NoSock
        /\ \A u \in Senders \ {t} : pc[u] = "idle" /\ pc'[u] = "idle"
        /\ UNCHANGED <<sock, conns, outages, result>>
    BY <1>1, <1>8 DEF WriteFails, TypeOK, counts, SerialBody, OneCall, HasSocket
  <2>2. OneCall' /\ HasSocket' /\ WritesToSocket' /\ NoneRaised'
    BY <2>1, <1>1 DEF OneCall, HasSocket, WritesToSocket, NoneRaised, SerialBody
  <2>3. AtBoundary'
    BY <2>1 DEF AtBoundary, Usable
  <2>4. ReadBody'
    BY <1>1, <2>1, FrameRead
  <2>7. HeldUnlessClosing'
    BY <1>1, <2>1 DEF HeldUnlessClosing, SerialBody
  <2>5. QED
    BY <2>2, <2>3, <2>4, <2>7 DEF SerialBody, ReadBody
<1>9. ASSUME NEW t \in Senders, CloseFailed(t) \/ CloseSocket(t)
      PROVE  SerialBody'
  <2>1. /\ pc[t] \in {"handler", "close"} /\ pc'[t] \in {"forget", "unwind", "clear"} /\ sock # NoSock
        /\ conns' = [conns EXCEPT ![sock].held = FALSE]
        /\ \A u \in Senders \ {t} : pc[u] = "idle" /\ pc'[u] = "idle"
        /\ UNCHANGED <<sock, outages, result>>
    BY <1>1, <1>9 DEF CloseFailed, CloseSocket, TypeOK, counts, SerialBody, OneCall, HasSocket
  <2>2. OneCall' /\ HasSocket' /\ WritesToSocket' /\ NoneRaised'
    BY <2>1, <1>1 DEF OneCall, HasSocket, WritesToSocket, NoneRaised, SerialBody
  <2>3. /\ sock \in DOMAIN conns /\ DOMAIN conns' = DOMAIN conns
        /\ conns'[sock].up = conns[sock].up /\ ~conns'[sock].held /\ conns'[sock].read = conns[sock].read
        /\ \A d \in DOMAIN conns \ {sock} : conns'[d] = conns[d]
    <3>1. sock \in DOMAIN conns
      BY <2>1 DEF TypeOK
    <3>2. QED
      BY <2>1, <3>1, HeldEffect DEF TypeOK
  <2>4. AtBoundary'
    BY <2>1, <2>3 DEF AtBoundary, Usable
  <2>5. ReadBody'
    <3>1. \A d \in DOMAIN conns : conns'[d].read = conns[d].read /\ conns'[d].up = conns[d].up
      BY <2>3
    <3>2. QED
      BY <1>0, <1>1, <2>1, <2>3, <3>1, FlagRead
  <2>7. HeldUnlessClosing'
    BY <2>1 DEF HeldUnlessClosing
  <2>6. QED
    BY <2>2, <2>4, <2>5, <2>7 DEF SerialBody, ReadBody
<1>10. ASSUME NEW c \in DOMAIN conns, DropConnection(c)
       PROVE  SerialBody'
  <2>1. /\ conns' = [conns EXCEPT ![c].up = FALSE]
        /\ outages' = outages + 1 /\ outages' # 0
        /\ UNCHANGED <<pc, local, sock, result>>
    BY <1>10 DEF DropConnection, TypeOK
  <2>2. OneCall' /\ HasSocket' /\ WritesToSocket' /\ NoneRaised'
    BY <2>1, <1>1 DEF OneCall, HasSocket, WritesToSocket, NoneRaised, SerialBody, local
  <2>3. /\ DOMAIN conns' = DOMAIN conns
        /\ ~conns'[c].up /\ conns'[c].read = conns[c].read
        /\ \A d \in DOMAIN conns \ {c} : conns'[d] = conns[d]
    BY <2>1, UpEffect DEF TypeOK
  <2>4. AtBoundary'
    <3>1. CASE sock = c
      BY <2>1, <2>3, <3>1 DEF AtBoundary, Usable
    <3>2. CASE sock # c /\ sock # NoSock
      <4>1. sock \in DOMAIN conns \ {c}
        BY <3>2 DEF TypeOK
      <4>2. conns'[sock'] = conns[sock] /\ (Usable' => Usable)
        BY <2>1, <2>3, <4>1 DEF Usable
      <4>3. \A t \in Senders : Halfway(t)' <=> Halfway(t)
        BY <2>1 DEF Halfway, local
      <4>4. QED
        BY <1>1, <2>1, <4>2, <4>3 DEF AtBoundary, SerialBody, local
    <3>3. CASE sock = NoSock
      BY <2>1, <3>3 DEF AtBoundary, Usable
    <3>4. QED
      BY <3>1, <3>2, <3>3
  <2>5. ReadBody'
    <3>1. \A d \in DOMAIN conns : conns'[d].read = conns[d].read
      BY <2>3
    <3>2. QED
      BY <1>0, <1>1, <2>1, <2>3, <3>1, FlagRead
  <2>7. HeldUnlessClosing'
    <3>1. CASE sock = NoSock
      BY <2>1, <3>1 DEF HeldUnlessClosing
    <3>2. CASE sock # NoSock
      <4>1. sock \in DOMAIN conns /\ conns'[c].held = conns[c].held
        BY <3>2, <2>1, UpEffect DEF TypeOK
      <4>2. conns'[sock'].held = conns[sock].held
        BY <2>1, <2>3, <4>1
      <4>3. QED
        BY <1>1, <2>1, <4>2 DEF HeldUnlessClosing, SerialBody
    <3>3. QED
      BY <3>1, <3>2
  <2>6. QED
    BY <2>2, <2>4, <2>5, <2>7 DEF SerialBody, ReadBody
<1>11. CASE UNCHANGED vars
  <2>1. UNCHANGED <<pc, frame, mine, part, sock, conns, outages, result>>
    BY <1>11 DEF vars, local, counts
  <2>2. OneCall' /\ HasSocket' /\ WritesToSocket' /\ NoneRaised' /\ AtBoundary' /\ HeldUnlessClosing'
    BY <2>1, <1>1 DEF OneCall, HasSocket, WritesToSocket, NoneRaised, AtBoundary, HeldUnlessClosing, Usable, Halfway, SerialBody
  <2>3. ReadBody'
    BY <1>1, <2>1, FrameRead
  <2>4. QED
    BY <2>2, <2>3 DEF SerialBody, ReadBody
<1>12. QED
  BY <1>0, <1>1, <1>2, <1>3, <1>4, <1>5, <1>6, <1>7, <1>8, <1>9, <1>10, <1>11, WriteSerial
  DEF Next, Step, AllSent

\* Together with the types the invariant is inductive.
LEMMA SerialInvariance == Spec => [](TypeOK /\ SerialInv)
<1>1. Init => TypeOK /\ SerialInv
  BY InitTypes, InitSerial
<1>2. TypeOK /\ SerialInv /\ [Next]_vars => (TypeOK /\ SerialInv)'
  BY StepTypes, StepSerial
<1>3. QED
  BY <1>1, <1>2, PTL DEF Spec

\* On a transport whose calls never overlapped Graylog reads whole frames,
\* whatever breaks.
THEOREM SerialFrames == Spec => []SerialFramesIntact
<1>1. SerialInv => SerialFramesIntact
  BY DEF SerialInv, SerialBody, SerialFramesIntact
<1>2. QED
  BY <1>1, SerialInvariance, PTL

\* There, without an outage, every frame send reports as handed over was read.
THEOREM SerialHandedOver == Spec => []SerialLossNeedsOutage
<1>1. SerialInv => SerialLossNeedsOutage
  BY DEF SerialInv, SerialBody, TrueWasRead, SerialLossNeedsOutage
<1>2. QED
  BY <1>1, SerialInvariance, PTL

\* There, send never finds its socket gone and leaves no closed one behind.
THEOREM SerialTransportReconnects == Spec => []SerialReconnects
<1>1. SerialInv => SerialReconnects
  BY DEF SerialInv, SerialBody, NoneRaised, HeldUnlessClosing, SerialReconnects
<1>2. QED
  BY <1>1, SerialInvariance, PTL

=============================================================================
