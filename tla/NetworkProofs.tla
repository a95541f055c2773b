--------------------------- MODULE NetworkProofs ----------------------------
(***************************************************************************)
(* The network side, in four parts.  ServicePort: whatever the operating   *)
(* system answers and however often, while the server runs there is        *)
(* exactly one way back to accepting.  Connection: what send() takes       *)
(* reaches the peer in order, whatever fails or times out.  OutputPool:    *)
(* what is written to a protocol reaches its connection in order, and a    *)
(* list with anybody on it has a pass to come.  Searches: whom the server  *)
(* finds by place or by name, to tell them or to talk to them, is exactly  *)
(* who is there.                                                           *)
(***************************************************************************)
EXTENDS ServicePort, Connection, OutputPool, Searches, TileView, QueueLemmas

(***************************************************************************)
(* ServicePort.  One lemma for each part of PortInv, with one case for     *)
(* each action.                                                            *)
(***************************************************************************)
(* ServiceManager::add has not opened the port.                            *)
LEMMA PortInitInv == PortInit => PortInv
BY DEF PortInit, PortInv, PortTypeOK, OneWayIn, WayInv, Results

(* Open leaves a port, and counts what is under way.                        *)
LEMMA OpenTypes ==
    ASSUME PortTypeOK, NEW events \in Nat, Open(events)
    PROVE  /\ port' \in [acceptor : {"none", "open", "closed"}, pendingStart : BOOLEAN]
           /\ accepting' \in Nat
           /\ reopening' \in Nat
<1>1. \E a \in {"open", "closed"}, b \in BOOLEAN :
          port' = [acceptor |-> a, pendingStart |-> b]
    BY DEF Open
<1>2. port' \in [acceptor : {"none", "open", "closed"}, pendingStart : BOOLEAN]
    BY <1>1
<1>3. accepting' \in Nat /\ reopening' \in Nat
    BY DEF Open, Scheduled, PortTypeOK
<1>4. QED
    BY <1>2, <1>3

(* Every step keeps the types.                                              *)
LEMMA PortTypesKept == PortInv /\ [PortNext]_portVars => PortTypeOK'
<1> SUFFICES ASSUME PortInv, [PortNext]_portVars PROVE PortTypeOK'
    OBVIOUS
<1> USE DEF PortInv, PortTypeOK
<1>1. CASE Add
    BY <1>1, OpenTypes, 0 \in Nat DEF Add
<1>2. CASE OpenAcceptor
  <2>1. reopening - 1 \in Nat
    BY <1>2 DEF OpenAcceptor
  <2>2. [i \in 1..accepting |-> "aborted"] \in Seq(Results)
    BY DEF Results
  <2>3. completed' \in Seq(Results)
    BY <1>2, <2>2 DEF OpenAcceptor
  <2>4. QED
    BY <1>2, <2>1, <2>3, OpenTypes DEF OpenAcceptor
<1>3. CASE AcceptEnds
    BY <1>3 DEF AcceptEnds, Results
<1>4. CASE OnAccept
  <2>1. completed' \in Seq(Results)
    <3>1. Tail(completed) \in Seq(Results) /\ "refused" \in Results
      BY <1>4, PopElems DEF OnAccept, Results
    <3>2. completed' \in {Tail(completed), Append(Tail(completed), "refused")}
      BY <1>4 DEF OnAccept
    <3>3. QED
      BY <3>1, <3>2
  <2>2. port' \in [acceptor : {"none", "open", "closed"}, pendingStart : BOOLEAN]
    <3>1. port' = port \/ port' = [acceptor |-> "closed", pendingStart |-> TRUE]
      BY <1>4 DEF OnAccept
    <3>2. CASE port' = port
      BY <3>2
    <3>3. CASE port' = [acceptor |-> "closed", pendingStart |-> TRUE]
      BY <3>3
    <3>4. QED
      BY <3>1, <3>2, <3>3
  <2>3. accepting' \in Nat /\ reopening' \in Nat /\ stopping' = stopping
    BY <1>4 DEF OnAccept, Scheduled
  <2>4. QED
    BY <2>1, <2>2, <2>3
<1>5. CASE Stop
    BY <1>5 DEF Stop
<1>6. CASE OnStopServer
    BY <1>6 DEF OnStopServer
<1>7. CASE UNCHANGED portVars
    BY <1>7 DEF portVars
<1>8. QED
    BY <1>1, <1>2, <1>3, <1>4, <1>5, <1>6, <1>7 DEF PortNext

(* An event that opens the port finds nothing else under way, and a refusal *)
(* finds no event, as pendingStart says so (WayInv).                        *)
LEMMA OneWayKept == PortInv /\ [PortNext]_portVars => OneWayIn'
<1> SUFFICES ASSUME PortInv, [PortNext]_portVars PROVE OneWayIn'
    OBVIOUS
<1> USE DEF PortInv, PortTypeOK, OneWayIn, WayInv, Results
<1>1. CASE Add
    BY <1>1 DEF Add, Open, Scheduled
<1>2. CASE OpenAcceptor
    BY <1>2 DEF OpenAcceptor, Open, Scheduled
<1>3. CASE AcceptEnds
    BY <1>3 DEF AcceptEnds
<1>4. CASE OnAccept
    BY <1>4 DEF OnAccept, Scheduled
<1>5. CASE Stop
    BY <1>5 DEF Stop
<1>6. CASE OnStopServer
    BY <1>6 DEF OnStopServer
<1>7. CASE UNCHANGED portVars
    BY <1>7 DEF portVars
<1>8. QED
    BY <1>1, <1>2, <1>3, <1>4, <1>5, <1>6, <1>7 DEF PortNext

(* One thing under way at most, so that the handler of an accept empties    *)
(* completed.                                                               *)
LEMMA WayKept == PortInv /\ [PortNext]_portVars => WayInv'
<1> SUFFICES ASSUME PortInv, [PortNext]_portVars PROVE WayInv'
    OBVIOUS
<1> USE DEF PortInv, PortTypeOK, OneWayIn, WayInv, Results
<1>1. CASE Add
    BY <1>1 DEF Add, Open, Scheduled
<1>2. CASE OpenAcceptor
    BY <1>2 DEF OpenAcceptor, Open, Scheduled
<1>3. CASE AcceptEnds
    BY <1>3 DEF AcceptEnds
<1>4. CASE OnAccept
    BY <1>4 DEF OnAccept, Scheduled
<1>5. CASE Stop
    BY <1>5 DEF Stop
<1>6. CASE OnStopServer
    BY <1>6 DEF OnStopServer
<1>7. CASE UNCHANGED portVars
    BY <1>7 DEF portVars
<1>8. QED
    BY <1>1, <1>2, <1>3, <1>4, <1>5, <1>6, <1>7 DEF PortNext

(* ServicePort::onAccept, open and openAcceptor: the port is never dead     *)
(* while the server runs, and never served by two chains of accepts.        *)
THEOREM PortOneWayIn == PortSpec => []OneWayIn
<1>1. PortInv /\ [PortNext]_portVars => PortInv'
    BY PortTypesKept, OneWayKept, WayKept DEF PortInv
<1>2. PortInv => OneWayIn
    BY DEF PortInv
<1>3. QED
    BY <1>1, <1>2, PortInitInv, PTL DEF PortSpec

-----------------------------------------------------------------------------
(***************************************************************************)
(* Connection.  A handler passes the object from operation to operation,   *)
(* so the invariant is stated of an object: one lemma says what each       *)
(* operation keeps of it, and the step lemma composes them for each        *)
(* handler.                                                                *)
(***************************************************************************)
Numbers(n) == [i \in 1..n |-> i]

(* The next message: the numbers go one further.                            *)
LEMMA NextNumber ==
    ASSUME NEW n \in 0..MaxMessages, n < MaxMessages
    PROVE  /\ Numbers(n) \in Seq(1..MaxMessages)
           /\ Numbers(n + 1) = Append(Numbers(n), n + 1)
<1>1. MaxMessages \in Nat
    BY ConnectionAssumption
<1>2. Numbers(n) \in Seq(1..MaxMessages) /\ Numbers(n + 1) \in Seq(1..MaxMessages)
    BY <1>1 DEF Numbers
<1>3. Append(Numbers(n), n + 1) \in Seq(1..MaxMessages)
    BY <1>1, <1>2
<1>4. Len(Numbers(n + 1)) = Len(Append(Numbers(n), n + 1))
    BY <1>1, <1>2 DEF Numbers
<1>5. \A i \in 1..Len(Numbers(n + 1)) : Numbers(n + 1)[i] = Append(Numbers(n), n + 1)[i]
    BY <1>1, <1>2 DEF Numbers
<1>6. QED
    BY <1>2, <1>3, <1>4, <1>5, SameSeq

-----------------------------------------------------------------------------
(* What operations on the object leave alone.                               *)
SameWork(c, d) ==
    /\ d.messageQueue = c.messageQueue /\ d.writing = c.writing
    /\ d.writeResult = c.writeResult /\ d.protocol = c.protocol
    /\ d.socketOpen => c.socketOpen

(* closeSocket() does nothing but that.                                     *)
LEMMA CloseSocketFacts ==
    ASSUME NEW c \in ConnObjects
    PROVE  /\ CloseSocket(c) \in ConnObjects
           /\ SameWork(c, CloseSocket(c))
           /\ CloseSocket(c).managed = c.managed
           /\ CloseSocket(c).closed = c.closed
           /\ CloseSocket(c).released = c.released
BY ZenonT(60) DEF CloseSocket, SameWork, ConnObjects, Outcomes, Nothing

(* close() is counted once for the protocol, and leaves what is sent.       *)
LEMMA CloseFacts ==
    ASSUME NEW c \in ConnObjects, NEW force \in BOOLEAN
    PROVE  /\ CloseConnection(c, force) \in ConnObjects
           /\ SameWork(c, CloseConnection(c, force))
           /\ ~CloseConnection(c, force).managed
           /\ CloseConnection(c, force).closed
           /\ CloseConnection(c, force).released =
                IF ~c.closed /\ c.protocol THEN c.released + 1 ELSE c.released
<1> DEFINE unlisted == [c EXCEPT !.managed = FALSE]
           d == [unlisted EXCEPT !.closed = TRUE,
                                 !.released = IF c.protocol THEN @ + 1 ELSE @]
<1>1. unlisted \in ConnObjects /\ SameWork(c, unlisted) /\ ~unlisted.managed
      /\ unlisted.closed = c.closed /\ unlisted.released = c.released
    BY DEF SameWork, ConnObjects
<1>2. d \in ConnObjects /\ SameWork(c, d) /\ ~d.managed /\ d.closed
      /\ d.released = IF c.protocol THEN c.released + 1 ELSE c.released
  <2>1. PICK n \in Nat : n = IF c.protocol THEN c.released + 1 ELSE c.released
    BY DEF ConnObjects
  <2>2. d = [unlisted EXCEPT !.closed = TRUE, !.released = n]
    BY <2>1, <1>1 DEF ConnObjects
  <2>3. QED
    BY <2>1, <2>2, <1>1 DEF SameWork, ConnObjects
<1>3. CASE c.closed
    BY <1>1, <1>3 DEF CloseConnection
<1>4. CASE ~c.closed
  <2>1. CloseConnection(c, force) \in {d, CloseSocket(d)}
    BY <1>4 DEF CloseConnection
  <2>2. CASE CloseConnection(c, force) = d
    BY <1>2, <1>4, <2>2
  <2>3. CASE CloseConnection(c, force) = CloseSocket(d)
    <3> HIDE DEF d
    <3>1. QED
      BY <1>2, <1>4, <2>3, CloseSocketFacts DEF SameWork
  <2>4. QED
    BY <2>1, <2>2, <2>3
<1>5. QED
    BY <1>3, <1>4

(* What destroying an object whose handlers all ended leaves alone.         *)
LEMMA SettledFacts ==
    ASSUME NEW c \in ConnObjects
    PROVE  /\ Settled(c) \in ConnObjects
           /\ SameWork(c, Settled(c))
           /\ Settled(c).managed = c.managed
           /\ Settled(c).closed = c.closed
           /\ Settled(c).released = c.released
           /\ c.managed => Settled(c) = c
BY CloseSocketFacts DEF Settled, SameWork, Alive

(* Starting and ending a read leave the messages and the sockets alone.     *)
LEMMA ReadFacts ==
    ASSUME NEW c \in ConnObjects, NEW what \in {"header", "proxy", "body"}
    PROVE  /\ StartRead(c, what) \in ConnObjects /\ ReadEnded(c) \in ConnObjects
           /\ SameWork(c, StartRead(c, what)) /\ SameWork(c, ReadEnded(c))
           /\ \A d \in {StartRead(c, what), ReadEnded(c)} :
                /\ d.managed = c.managed /\ d.closed = c.closed
                /\ d.released = c.released /\ d.socketOpen = c.socketOpen
BY ZenonT(30) DEF StartRead, ReadEnded, SameWork, ConnObjects, Outcomes, Nothing

-----------------------------------------------------------------------------
(* The invariant of an object c, with the peer gone or not, n messages      *)
(* taken and d delivered: handlers pass objects from operation to operation.*)
Waiting(c) == IF c.writeResult = "done" THEN Tail(c.messageQueue) ELSE c.messageQueue
SentRight(c, gone, n, d) ==
    /\ IsPrefix(d, Numbers(n))
    /\ c.socketOpen /\ c.writeResult # "failed" /\ ~gone => d \o Waiting(c) = Numbers(n)
    /\ c.writing = IF c.messageQueue = <<>> THEN Nothing ELSE Head(c.messageQueue)
    /\ c.writing # Nothing <=> c.writeResult # "none"
    /\ c.writeResult = "failed" => ~c.socketOpen \/ gone
ReleasedRight(c) == c.released = IF c.closed /\ c.protocol THEN 1 ELSE 0
ConnOK(c, gone, n, d) ==
    /\ c \in ConnObjects /\ gone \in BOOLEAN /\ n \in 0..MaxMessages /\ d \in Seq(1..MaxMessages)
    /\ SentRight(c, gone, n, d)
    /\ ReleasedRight(c)
Usable(c) == c.socketOpen \/ ~c.managed \/ c.closed

(* ConnInv, said of the one object there is.                                *)
LEMMA ConnInvOfObject ==
    ConnInv <=> /\ ConnOK(conn, peerGone, accepted, delivered)
                /\ Usable(conn) \/ (conn = Created /\ accepted = 0 /\ delivered = <<>>)
<1>1. ConnInv => ConnOK(conn, peerGone, accepted, delivered)
    BY DEF ConnInv, ConnTypeOK, DeliveredInOrder, Undelivered, ReleasedOnce, WriteInv,
           ConnOK, SentRight, ReleasedRight, Waiting, Numbers
<1>2. ConnOK(conn, peerGone, accepted, delivered) =>
          ConnTypeOK /\ DeliveredInOrder /\ ReleasedOnce /\ WriteInv
    BY DEF ConnTypeOK, DeliveredInOrder, Undelivered, ReleasedOnce, WriteInv,
           ConnOK, SentRight, ReleasedRight, Waiting, Numbers
<1>3. ASSUME conn \in ConnObjects
      PROVE  UnusedInv <=> Usable(conn) \/ (conn = Created /\ accepted = 0 /\ delivered = <<>>)
    BY <1>3 DEF UnusedInv, Usable, ConnObjects
<1>4. QED
    BY <1>1, <1>2, <1>3 DEF ConnInv, ConnTypeOK

(* A step has to give an object that is right and that is used.             *)
LEMMA ConnInvOfNext ==
    ConnOK(conn', peerGone', accepted', delivered') /\ Usable(conn') => ConnInv'
<1>1. ConnOK(conn', peerGone', accepted', delivered') =>
          (ConnTypeOK /\ DeliveredInOrder /\ ReleasedOnce /\ WriteInv)'
    BY DEF ConnTypeOK, DeliveredInOrder, Undelivered, ReleasedOnce, WriteInv,
           ConnOK, SentRight, ReleasedRight, Waiting, Numbers
<1>2. conn' \in ConnObjects /\ Usable(conn') => UnusedInv'
    BY DEF UnusedInv, Usable, ConnObjects
<1>3. QED
    BY <1>1, <1>2 DEF ConnInv, ConnOK

(* A step that leaves the connection alone keeps all of it.                 *)
LEMMA ConnInvStutters == ConnInv /\ UNCHANGED connVars => ConnInv'
<1>1. ASSUME UNCHANGED connVars
      PROVE  /\ ConnTypeOK' <=> ConnTypeOK
             /\ WriteInv' <=> WriteInv
             /\ ReleasedOnce' <=> ReleasedOnce
             /\ UnusedInv' <=> UnusedInv
    BY <1>1 DEF ConnTypeOK, ReleasedOnce, WriteInv, UnusedInv, connVars
<1>2. ASSUME UNCHANGED connVars
      PROVE  DeliveredInOrder' <=> DeliveredInOrder
    BY <1>2 DEF DeliveredInOrder, Undelivered, connVars
<1>3. QED
    BY <1>1, <1>2 DEF ConnInv

(* What leaves the work alone keeps the invariant.                          *)
LEMMA SameWorkOK ==
    ASSUME NEW c, NEW e \in ConnObjects, NEW gone, NEW later \in BOOLEAN, NEW n, NEW d,
           ConnOK(c, gone, n, d), SameWork(c, e), gone => later, ReleasedRight(e)
    PROVE  ConnOK(e, later, n, d)
BY DEF ConnOK, SentRight, SameWork, Waiting, ConnObjects

(* closeConnection gives its protocol back once and leaves what is queued.  *)
LEMMA CloseOK ==
    ASSUME NEW c, NEW gone, NEW n, NEW d, ConnOK(c, gone, n, d), NEW force \in BOOLEAN
    PROVE  ConnOK(CloseConnection(c, force), gone, n, d) /\ Usable(CloseConnection(c, force))
<1> DEFINE e == CloseConnection(c, force)
<1>1. /\ e \in ConnObjects /\ SameWork(c, e) /\ ~e.managed /\ e.closed
      /\ e.released = IF ~c.closed /\ c.protocol THEN c.released + 1 ELSE c.released
    BY CloseFacts DEF ConnOK
<1>2. ReleasedRight(e)
    BY <1>1 DEF ConnOK, ReleasedRight, SameWork, ConnObjects
<1>3. gone \in BOOLEAN
    BY DEF ConnOK
<1>4. ConnOK(e, gone, n, d)
    BY <1>1, <1>2, <1>3, SameWorkOK
<1>5. QED
    BY <1>1, <1>4 DEF Usable

(* Nor does the end of its last handler undo anything.                      *)
LEMMA SettledOK ==
    ASSUME NEW c, NEW gone, NEW n, NEW d, ConnOK(c, gone, n, d), Usable(c)
    PROVE  ConnOK(Settled(c), gone, n, d) /\ Usable(Settled(c))
<1> DEFINE e == Settled(c)
<1>1. /\ e \in ConnObjects /\ SameWork(c, e) /\ e.managed = c.managed
      /\ e.closed = c.closed /\ e.released = c.released /\ (c.managed => e = c)
    BY SettledFacts DEF ConnOK
<1>2. ReleasedRight(e) /\ Usable(e)
    BY <1>1 DEF ConnOK, ReleasedRight, SameWork, ConnObjects, Usable
<1>3. gone \in BOOLEAN
    BY DEF ConnOK
<1>4. QED
    BY <1>1, <1>2, <1>3, SameWorkOK

(* Reads keep a connection right.                                           *)
LEMMA ReadOK ==
    ASSUME NEW c, NEW gone, NEW n, NEW d, ConnOK(c, gone, n, d),
           NEW what \in {"header", "proxy", "body"}
    PROVE  /\ ConnOK(StartRead(c, what), gone, n, d) /\ ConnOK(ReadEnded(c), gone, n, d)
           /\ Usable(c) => Usable(StartRead(c, what)) /\ Usable(ReadEnded(c))
           /\ ReadEnded(c).closed = c.closed
<1>1. c \in ConnObjects /\ gone \in BOOLEAN
    BY DEF ConnOK
<1>2. ASSUME NEW e \in {StartRead(c, what), ReadEnded(c)}
      PROVE  ConnOK(e, gone, n, d) /\ (Usable(c) => Usable(e)) /\ e.closed = c.closed
  <2>1. /\ e \in ConnObjects /\ SameWork(c, e) /\ e.managed = c.managed /\ e.closed = c.closed
        /\ e.released = c.released /\ e.socketOpen = c.socketOpen
    BY <1>1, <1>2, ReadFacts
  <2>2. ReleasedRight(e) /\ (Usable(c) => Usable(e))
    BY <2>1 DEF ConnOK, ReleasedRight, SameWork, ConnObjects, Usable
  <2>3. QED
    BY <1>1, <2>1, <2>2, SameWorkOK
<1>3. QED
    BY <1>2

(* send() to an open connection: the message goes to the back, and is       *)
(* written at once when nothing else is.                                    *)
LEMMA SendOK ==
    ASSUME NEW c, NEW gone, NEW n, NEW d, ConnOK(c, gone, n, d), n < MaxMessages, ~c.closed
    PROVE  /\ ConnOK(SendMessage(c, n + 1), gone, n + 1, d)
           /\ Usable(c) => Usable(SendMessage(c, n + 1))
<1> DEFINE m == n + 1
           e == SendMessage(c, m)
<1>1. /\ MaxMessages \in Nat /\ n \in 0..MaxMessages /\ m \in 1..MaxMessages
      /\ c \in ConnObjects /\ gone \in BOOLEAN /\ d \in Seq(1..MaxMessages)
    BY ConnectionAssumption DEF ConnOK
<1>2. Numbers(n) \in Seq(1..MaxMessages) /\ Numbers(m) = Append(Numbers(n), m)
    BY <1>1, NextNumber
<1>3. IsPrefix(d, Numbers(m))
    BY <1>1, <1>2, PrefixPush DEF ConnOK, SentRight
<1>4. /\ e \in ConnObjects
      /\ e.messageQueue = Append(c.messageQueue, m)
      /\ e.writing = (IF c.messageQueue = <<>> THEN m ELSE c.writing)
      /\ e.writeResult = (IF c.messageQueue = <<>> THEN "pending" ELSE c.writeResult)
      /\ e.socketOpen = c.socketOpen /\ e.managed = c.managed /\ e.closed = c.closed
      /\ e.released = c.released /\ e.protocol = c.protocol
  <2>1. Append(c.messageQueue, m) \in Seq(1..MaxMessages)
    BY <1>1 DEF ConnObjects
  <2>2. QED
    BY <1>1, <2>1 DEF SendMessage, InternalSend, ConnObjects, Outcomes
<1>5. c.messageQueue \in Seq(1..MaxMessages)
    BY <1>1 DEF ConnObjects
<1> HIDE DEF e
<1>6. e.writing = Head(e.messageQueue) /\ e.messageQueue # <<>> /\ e.writing # Nothing
  <2>1. CASE c.messageQueue = <<>>
    BY <1>1, <1>4, <2>1 DEF Nothing
  <2>2. CASE c.messageQueue # <<>>
    <3>1. Head(Append(c.messageQueue, m)) = Head(c.messageQueue)
      BY <1>1, <1>5, <2>2
    <3>2. Head(c.messageQueue) \in 1..MaxMessages
      BY <1>5, <2>2, PopElems
    <3>3. c.writing = Head(c.messageQueue)
      BY <2>2 DEF ConnOK, SentRight
    <3>4. Append(c.messageQueue, m) # <<>>
      BY <1>5
    <3>5. QED
      BY <1>1, <1>4, <2>2, <3>1, <3>2, <3>3, <3>4 DEF Nothing
  <2>3. QED
    BY <2>1, <2>2
<1>7. Waiting(e) = Append(Waiting(c), m) /\ Waiting(c) \in Seq(1..MaxMessages)
  <2>1. CASE c.messageQueue = <<>>
    <3>1. c.writeResult = "none"
      BY <2>1 DEF ConnOK, SentRight
    <3>2. QED
      BY <1>4, <1>5, <2>1, <3>1 DEF Waiting
  <2>2. CASE c.messageQueue # <<>>
    <3>1. Tail(Append(c.messageQueue, m)) = Append(Tail(c.messageQueue), m)
      BY <1>1, <1>5, <2>2, TailPush
    <3>2. Tail(c.messageQueue) \in Seq(1..MaxMessages)
      BY <1>5, <2>2, PopElems
    <3>3. QED
      BY <1>4, <1>5, <2>2, <3>1, <3>2 DEF Waiting
  <2>3. QED
    BY <2>1, <2>2
<1>8. c.messageQueue = <<>> => c.writeResult = "none"
    BY DEF ConnOK, SentRight
<1>9. e.socketOpen /\ e.writeResult # "failed" /\ ~gone => d \o Waiting(e) = Numbers(m)
  <2>1. SUFFICES ASSUME c.socketOpen, c.writeResult # "failed", ~gone
                 PROVE  d \o Waiting(e) = Numbers(m)
    BY <1>4, <1>8
  <2>2. d \o Waiting(c) = Numbers(n)
    BY <2>1 DEF ConnOK, SentRight
  <2>3. d \o Append(Waiting(c), m) = Append(d \o Waiting(c), m)
    BY <1>1, <1>7, ConcatPush
  <2>4. QED
    BY <1>2, <1>7, <2>2, <2>3
<1>10. /\ e.writing # Nothing <=> e.writeResult # "none"
       /\ e.writeResult = "failed" => ~e.socketOpen \/ gone
  <2>1. /\ c.writing # Nothing <=> c.writeResult # "none"
        /\ c.writeResult = "failed" => ~c.socketOpen \/ gone
    BY DEF ConnOK, SentRight
  <2>2. QED
    BY <1>4, <1>6, <2>1
<1>11. SentRight(e, gone, m, d)
    BY <1>3, <1>6, <1>9, <1>10 DEF SentRight
<1>12. ReleasedRight(e) /\ (Usable(c) => Usable(e))
    BY <1>4 DEF ConnOK, ReleasedRight, Usable
<1>13. QED
    BY <1>1, <1>4, <1>11, <1>12 DEF ConnOK, e

(* The write has ended: its message is popped.                              *)
LEMMA WriteEndedFacts ==
    ASSUME NEW c \in ConnObjects, c.messageQueue # <<>>
    PROVE  LET w == WriteEnded(c)
           IN  /\ w \in ConnObjects /\ w.messageQueue = Tail(c.messageQueue)
               /\ w.writing = Nothing /\ w.writeResult = "none"
               /\ w.protocol = c.protocol /\ w.managed = c.managed /\ w.closed = c.closed
               /\ w.released = c.released /\ w.socketOpen = c.socketOpen
<1>1. Tail(c.messageQueue) \in Seq(1..MaxMessages)
    BY PopElems DEF ConnObjects
<1>2. QED
    BY <1>1 DEF WriteEnded, ConnObjects, Outcomes, Nothing

(* onWriteOperation, when the write has ended well: the next message is     *)
(* written, or the socket of a closed connection is let go.                 *)
LEMMA WrittenOK ==
    ASSUME NEW c, NEW gone, NEW n, NEW d, ConnOK(c, gone, n, d), c.writeResult = "done", Usable(c)
    PROVE  LET w == WriteEnded(c)
           IN  /\ w.messageQueue # <<>> => ConnOK(InternalSend(w, Head(w.messageQueue)), gone, n, d)
                                           /\ Usable(InternalSend(w, Head(w.messageQueue)))
               /\ w.messageQueue = <<>> => ConnOK(w, gone, n, d) /\ Usable(w)
<1> DEFINE w == WriteEnded(c)
           e == InternalSend(w, Head(w.messageQueue))
<1>1. c \in ConnObjects /\ c.messageQueue \in Seq(1..MaxMessages)
    BY DEF ConnOK, ConnObjects
<1>2. c.messageQueue # <<>>
    BY DEF ConnOK, SentRight
<1>3. Tail(c.messageQueue) \in Seq(1..MaxMessages) /\ Waiting(c) = Tail(c.messageQueue)
    BY <1>1, <1>2, PopElems DEF Waiting
<1>4. /\ w \in ConnObjects /\ w.messageQueue = Tail(c.messageQueue) /\ w.writing = Nothing
      /\ w.writeResult = "none" /\ w.protocol = c.protocol /\ w.managed = c.managed
      /\ w.closed = c.closed /\ w.released = c.released /\ w.socketOpen = c.socketOpen
    BY <1>1, <1>2, WriteEndedFacts
<1> HIDE DEF w
<1>5. ReleasedRight(w) /\ Usable(w)
    BY <1>4 DEF ConnOK, ReleasedRight, Usable
<1>6. /\ IsPrefix(d, Numbers(n))
      /\ c.socketOpen /\ ~gone => d \o Tail(c.messageQueue) = Numbers(n)
    BY <1>3 DEF ConnOK, SentRight
<1>7. CASE w.messageQueue = <<>>
  <2>1. SentRight(w, gone, n, d)
    BY <1>4, <1>6, <1>7 DEF SentRight, Waiting
  <2>2. ConnOK(w, gone, n, d)
    BY <1>4, <1>5, <2>1 DEF ConnOK
  <2>3. QED
    BY <1>5, <1>7, <2>2 DEF w
<1>8. CASE w.messageQueue # <<>>
  <2>1. Head(w.messageQueue) \in 1..MaxMessages
    BY <1>3, <1>4, <1>8, PopElems
  <2>2. /\ e \in ConnObjects /\ e.messageQueue = w.messageQueue
        /\ e.writing = Head(w.messageQueue) /\ e.writeResult = "pending"
        /\ e.protocol = w.protocol /\ e.managed = w.managed /\ e.closed = w.closed
        /\ e.released = w.released /\ e.socketOpen = w.socketOpen
    BY <1>4, <2>1 DEF InternalSend, ConnObjects, Outcomes
  <2>3. e.writing # Nothing
    BY <2>1, <2>2, ConnectionAssumption DEF Nothing
  <2> HIDE DEF e
  <2>4. SentRight(e, gone, n, d)
    BY <1>4, <1>6, <1>8, <2>2, <2>3 DEF SentRight, Waiting
  <2>5. ReleasedRight(e) /\ Usable(e)
    BY <1>5, <2>2 DEF ReleasedRight, Usable
  <2>6. ConnOK(e, gone, n, d)
    BY <2>2, <2>4, <2>5 DEF ConnOK
  <2>7. QED
    BY <1>8, <2>5, <2>6 DEF w, e
<1>9. QED
    BY <1>7, <1>8

(* and when it has not: everything that waits is dropped.                   *)
LEMMA DroppedOK ==
    ASSUME NEW c, NEW gone, NEW n, NEW d, ConnOK(c, gone, n, d), c.writeResult = "failed", Usable(c)
    PROVE  LET w == [WriteEnded(c) EXCEPT !.messageQueue = <<>>]
           IN  ConnOK(w, gone, n, d) /\ Usable(w)
<1> DEFINE w == [WriteEnded(c) EXCEPT !.messageQueue = <<>>]
<1>1. c \in ConnObjects
    BY DEF ConnOK
<1>2. c.messageQueue # <<>>
    BY DEF ConnOK, SentRight
<1>3. /\ w \in ConnObjects /\ w.messageQueue = <<>> /\ w.writing = Nothing
      /\ w.writeResult = "none" /\ w.protocol = c.protocol /\ w.managed = c.managed
      /\ w.closed = c.closed /\ w.released = c.released /\ w.socketOpen = c.socketOpen
  <2> DEFINE w0 == WriteEnded(c)
  <2>1. /\ w0 \in ConnObjects /\ w0.writing = Nothing /\ w0.writeResult = "none"
        /\ w0.protocol = c.protocol /\ w0.managed = c.managed /\ w0.closed = c.closed
        /\ w0.released = c.released /\ w0.socketOpen = c.socketOpen
    BY <1>1, <1>2, WriteEndedFacts
  <2>2. w = [w0 EXCEPT !.messageQueue = <<>>]
    OBVIOUS
  <2> HIDE DEF w0, w
  <2>3. <<>> \in Seq(1..MaxMessages)
    OBVIOUS
  <2>4. QED
    BY <2>1, <2>2, <2>3 DEF ConnObjects
<1> HIDE DEF w
<1>4. ReleasedRight(w) /\ Usable(w)
    BY <1>3 DEF ConnOK, ReleasedRight, Usable
<1>5. SentRight(w, gone, n, d)
    BY <1>3 DEF ConnOK, SentRight
<1>6. ConnOK(w, gone, n, d)
    BY <1>3, <1>4, <1>5 DEF ConnOK
<1>7. QED
    BY <1>4, <1>6 DEF w

-----------------------------------------------------------------------------
(* The object the port makes, before and after its accept.                  *)
LEMMA FreshOK ==
    ASSUME NEW c \in ConnObjects, NEW gone \in BOOLEAN, c.messageQueue = <<>>, c.writing = Nothing,
           c.writeResult = "none", ~c.closed, c.released = 0
    PROVE  ConnOK(c, gone, 0, <<>>)
<1>1. Numbers(0) = <<>>
  <2>1. Numbers(0) \in Seq(Nat) /\ Len(Numbers(0)) = 0
    BY DEF Numbers
  <2>2. QED
    BY <2>1
<1>2. <<>> \in Seq(Nat) /\ <<>> \o <<>> = <<>>
    BY ConcatNothing
<1>3. IsPrefix(<<>>, Numbers(0)) /\ <<>> \o Waiting(c) = Numbers(0)
    BY <1>1, <1>2, PrefixOfConcat DEF Waiting
<1>4. SentRight(c, gone, 0, <<>>) /\ ReleasedRight(c)
    BY <1>3 DEF SentRight, ReleasedRight
<1>5. 0 \in 0..MaxMessages /\ <<>> \in Seq(1..MaxMessages)
    BY ConnectionAssumption
<1>6. QED
    BY <1>4, <1>5 DEF ConnOK

(* A connection as its constructor leaves it.                               *)
LEMMA CreatedFacts ==
    /\ Created \in ConnObjects
    /\ Created.messageQueue = <<>> /\ Created.writing = Nothing
    /\ Created.writeResult = "none" /\ ~Created.socketOpen /\ ~Created.closed
    /\ Created.released = 0 /\ Created.reading = "none" /\ ~Created.protocol
    /\ Created.readResult = "none" /\ Created.readTimer = {} /\ Created.writeTimer = {}
    /\ Created.managed
<1>1. <<>> \in Seq(1..MaxMessages)
    OBVIOUS
<1>2. QED
    BY <1>1 DEF Created, ConnObjects, Outcomes, Nothing

(* It is right before it is accepted.                                       *)
LEMMA ConnInitInv == ConnInit => ConnInv
BY CreatedFacts, FreshOK, ConnInvOfObject DEF ConnInit

(* What has been used is usable: all but the accept needs that.             *)
LEMMA UsedIsUsable ==
    ConnInv => /\ ConnOK(conn, peerGone, accepted, delivered)
               /\ conn # Created => Usable(conn)
               /\ conn = Created => accepted = 0 /\ delivered = <<>>
               /\ conn \in ConnObjects
BY ConnInvOfObject, CreatedFacts DEF ConnOK, Usable

(* Every step of every thread keeps the invariant.                          *)
LEMMA ConnStep == ConnInv /\ [ConnNext]_connVars => ConnInv'
<1> SUFFICES ASSUME ConnInv, [ConnNext]_connVars
             PROVE  \/ ConnOK(conn', peerGone', accepted', delivered') /\ Usable(conn')
                    \/ UNCHANGED connVars
  <2>1. ConnOK(conn', peerGone', accepted', delivered') /\ Usable(conn') => ConnInv'
    BY ConnInvOfNext
  <2>2. ConnInv /\ UNCHANGED connVars => ConnInv'
    BY ConnInvStutters
  <2>3. QED
    BY <2>1, <2>2
<1> DEFINE ok(c) == ConnOK(c, peerGone, accepted, delivered) /\ Usable(c)
<1>1. /\ ConnOK(conn, peerGone, accepted, delivered)
      /\ conn # Created => Usable(conn)
      /\ conn \in ConnObjects /\ peerGone \in BOOLEAN /\ accepted \in 0..MaxMessages
    BY UsedIsUsable DEF ConnOK
<1>2. CASE AcceptConnection
  <2>1. conn = Created /\ accepted = 0 /\ delivered = <<>> /\ UNCHANGED <<peerGone, accepted, delivered>>
    BY <1>2, UsedIsUsable DEF AcceptConnection
  <2>2. ASSUME NEW gameProtocol \in BOOLEAN
        PROVE  ok([Created EXCEPT !.socketOpen = TRUE, !.protocol = gameProtocol])
    <3> DEFINE c == [Created EXCEPT !.socketOpen = TRUE, !.protocol = gameProtocol]
    <3>1. /\ c \in ConnObjects /\ c.messageQueue = <<>> /\ c.writing = Nothing
          /\ c.writeResult = "none" /\ ~c.closed /\ c.released = 0 /\ c.socketOpen
      BY CreatedFacts DEF ConnObjects
    <3> HIDE DEF c
    <3>2. ok(c)
      BY <3>1, <1>1, <2>1, FreshOK DEF Usable
    <3>3. QED
      BY <3>2 DEF c
  <2>3. ok([Created EXCEPT !.socketOpen = TRUE])
    <3> DEFINE c == [Created EXCEPT !.socketOpen = TRUE]
    <3>1. /\ c \in ConnObjects /\ c.messageQueue = <<>> /\ c.writing = Nothing
          /\ c.writeResult = "none" /\ ~c.closed /\ c.released = 0 /\ c.socketOpen
      BY CreatedFacts DEF ConnObjects
    <3> HIDE DEF c
    <3>2. ok(c)
      BY <3>1, <1>1, <2>1, FreshOK DEF Usable
    <3>3. QED
      BY <3>2 DEF c
  <2>4. CASE \E gameProtocol \in BOOLEAN :
                conn' = StartRead([Created EXCEPT !.socketOpen = TRUE, !.protocol = gameProtocol], "header")
    <3>1. PICK gameProtocol \in BOOLEAN :
                conn' = StartRead([Created EXCEPT !.socketOpen = TRUE, !.protocol = gameProtocol], "header")
      BY <2>4
    <3>2. ok([Created EXCEPT !.socketOpen = TRUE, !.protocol = gameProtocol])
      BY <2>2
    <3>3. ok(conn')
      BY <3>1, <3>2, ReadOK
    <3>4. QED
      BY <2>1, <3>3
  <2>5. CASE conn' = Settled(CloseConnection([Created EXCEPT !.socketOpen = TRUE], TRUE))
    BY <2>1, <2>3, <2>5, CloseOK, SettledOK
  <2>6. QED
    BY <1>2, <2>1, <2>4, <2>5 DEF AcceptConnection
<1>3. CASE Send
  <2>1. conn.protocol /\ conn # Created
    BY <1>3, CreatedFacts DEF Send
  <2>2. CASE conn.closed
    BY <1>1, <1>3, <2>1, <2>2 DEF Send, SendMessage
  <2>3. CASE ~conn.closed
    BY <1>1, <1>3, <2>1, <2>3, SendOK DEF Send
  <2>4. QED
    BY <2>2, <2>3
<1>4. CASE Disconnect
  <2>1. conn # Created
    BY <1>4, CreatedFacts DEF Disconnect
  <2>2. QED
    BY <1>1, <1>4, <2>1, CloseOK, SettledOK DEF Disconnect
<1>5. CASE CloseAll
  <2> DEFINE c == [conn EXCEPT !.managed = FALSE, !.socketOpen = FALSE]
  <2>1. c \in ConnObjects /\ SameWork(conn, c) /\ ~c.managed /\ ReleasedRight(c)
    BY <1>1 DEF ConnObjects, SameWork, ReleasedRight, ConnOK
  <2> HIDE DEF c
  <2>2. ok(c)
    BY <1>1, <2>1, SameWorkOK DEF Usable
  <2>3. conn' = Settled(c) /\ UNCHANGED <<peerGone, accepted, delivered>>
    BY <1>5 DEF CloseAll, c
  <2>4. QED
    BY <2>2, <2>3, SettledOK
<1>6. CASE PeerSends
  <2>1. PICK result \in {"done", "failed"} : conn' = [conn EXCEPT !.readResult = result]
    BY <1>6 DEF PeerSends
  <2>2. conn' \in ConnObjects /\ SameWork(conn, conn') /\ ReleasedRight(conn')
        /\ conn'.socketOpen = conn.socketOpen
    BY <1>1, <2>1 DEF ConnObjects, SameWork, ReleasedRight, ConnOK, Outcomes
  <2>3. conn.socketOpen /\ UNCHANGED <<peerGone, accepted, delivered>>
    BY <1>6 DEF PeerSends
  <2>4. QED
    BY <1>1, <2>2, <2>3, SameWorkOK DEF Usable
<1>7. CASE PeerReads
  <2>1. /\ conn.writeResult = "pending" /\ conn.socketOpen /\ ~peerGone
        /\ conn' = [conn EXCEPT !.writeResult = "done"]
        /\ delivered' = Append(delivered, conn.writing)
        /\ UNCHANGED <<peerGone, accepted>>
    BY <1>7 DEF PeerReads
  <2>2. /\ conn.messageQueue # <<>> /\ conn.writing = Head(conn.messageQueue)
        /\ delivered \o conn.messageQueue = Numbers(accepted)
    BY <1>1, <2>1 DEF ConnOK, SentRight, Waiting
  <2>3. /\ conn.messageQueue \in Seq(1..MaxMessages) /\ delivered \in Seq(1..MaxMessages)
    BY <1>1 DEF ConnOK, ConnObjects
  <2>4. /\ Head(conn.messageQueue) \in 1..MaxMessages
        /\ Tail(conn.messageQueue) \in Seq(1..MaxMessages)
        /\ delivered' \in Seq(1..MaxMessages)
    <3>1. /\ Head(conn.messageQueue) \in 1..MaxMessages
          /\ Tail(conn.messageQueue) \in Seq(1..MaxMessages)
      BY <2>2, <2>3, PopElems
    <3>2. QED
      BY <2>1, <2>2, <2>3, <3>1
  <2>5. delivered' \o Tail(conn.messageQueue) = Numbers(accepted)
    BY <2>1, <2>2, <2>3, MoveHead
  <2>6. IsPrefix(delivered', Numbers(accepted))
    BY <2>4, <2>5, PrefixOfConcat
  <2>7. /\ conn' \in ConnObjects /\ conn'.messageQueue = conn.messageQueue
        /\ conn'.writing = conn.writing /\ conn'.writeResult = "done"
        /\ conn'.socketOpen /\ ReleasedRight(conn')
    BY <1>1, <2>1 DEF ConnObjects, Outcomes, ReleasedRight, ConnOK
  <2>8. conn.writing # Nothing
    BY <1>1, <2>1 DEF ConnOK, SentRight
  <2>9. SentRight(conn', peerGone', accepted', delivered')
    BY <2>1, <2>2, <2>5, <2>6, <2>7, <2>8 DEF SentRight, Waiting
  <2>10. QED
    BY <1>1, <2>1, <2>4, <2>7, <2>9 DEF ConnOK, Usable
<1>8. CASE PeerResets
  <2>1. conn' = conn /\ peerGone' = TRUE /\ UNCHANGED <<accepted, delivered>> /\ conn.socketOpen
    BY <1>8 DEF PeerResets
  <2>2. SameWork(conn, conn) /\ ReleasedRight(conn) /\ Usable(conn)
    BY <1>1, <2>1 DEF SameWork, ConnOK, Usable
  <2>3. QED
    BY <1>1, <2>1, <2>2, SameWorkOK
<1>9. CASE ReadFails
  <2>1. conn # Created
    BY <1>9, CreatedFacts DEF ReadFails
  <2>2. conn' = [conn EXCEPT !.readResult = "failed"] /\ UNCHANGED <<peerGone, accepted, delivered>>
    BY <1>9 DEF ReadFails
  <2>3. conn' \in ConnObjects /\ SameWork(conn, conn') /\ ReleasedRight(conn') /\ Usable(conn')
    BY <1>1, <2>1, <2>2 DEF ConnObjects, SameWork, ReleasedRight, ConnOK, Outcomes, Usable
  <2>4. QED
    BY <1>1, <2>2, <2>3, SameWorkOK
<1>10. CASE WriteFails
  <2>1. /\ conn # Created /\ conn.writeResult = "pending" /\ (~conn.socketOpen \/ peerGone)
        /\ conn' = [conn EXCEPT !.writeResult = "failed"] /\ UNCHANGED <<peerGone, accepted, delivered>>
    BY <1>10, CreatedFacts DEF WriteFails
  <2>2. /\ conn' \in ConnObjects /\ conn'.messageQueue = conn.messageQueue
        /\ conn'.writing = conn.writing /\ conn'.writeResult = "failed"
        /\ conn'.socketOpen = conn.socketOpen /\ ReleasedRight(conn') /\ Usable(conn')
    BY <1>1, <2>1 DEF ConnObjects, Outcomes, ReleasedRight, ConnOK, Usable
  <2>3. SentRight(conn', peerGone, accepted, delivered)
    BY <1>1, <2>1, <2>2 DEF ConnOK, SentRight
  <2>4. QED
    BY <1>1, <2>1, <2>2, <2>3 DEF ConnOK
<1>11. ASSUME conn # Created
       PROVE  ok(ReadEnded(conn)) /\ ReadEnded(conn).closed = conn.closed
    BY <1>1, <1>11, ReadOK
<1>12. CASE ParseHeader
  <2> DEFINE c == ReadEnded(conn)
             first == [c EXCEPT !.receivedFirstHeader = TRUE]
  <2>1. conn # Created /\ UNCHANGED <<peerGone, accepted, delivered>>
    BY <1>12, CreatedFacts DEF ParseHeader
  <2>2. ok(c)
    BY <1>11, <2>1
  <2>3. \/ conn' = Settled(CloseConnection(c, TRUE))
        \/ conn' = Settled(c)
        \/ conn' = Settled(CloseConnection(c, FALSE))
        \/ conn' = StartRead(first, "proxy")
        \/ conn' = Settled(CloseConnection(first, TRUE))
        \/ conn' = StartRead(first, "body")
    BY <1>12 DEF ParseHeader
  <2> HIDE DEF c
  <2>4. ok(first)
    <3>1. first \in ConnObjects /\ SameWork(c, first) /\ ReleasedRight(first) /\ Usable(first)
      BY <2>2 DEF ConnOK, ConnObjects, SameWork, ReleasedRight, Usable
    <3>2. QED
      BY <1>1, <2>2, <3>1, SameWorkOK
  <2> HIDE DEF first
  <2>5. ok(conn')
    BY <2>2, <2>3, <2>4, CloseOK, SettledOK, ReadOK
  <2>6. QED
    BY <2>1, <2>5
<1>13. CASE ParseProxy
  <2> DEFINE c == ReadEnded(conn)
  <2>1. conn # Created /\ UNCHANGED <<peerGone, accepted, delivered>>
    BY <1>13, CreatedFacts DEF ParseProxy
  <2>2. ok(c)
    BY <1>11, <2>1
  <2>3. conn' = Settled(CloseConnection(c, TRUE)) \/ conn' = StartRead(c, "header")
    BY <1>13 DEF ParseProxy
  <2> HIDE DEF c
  <2>4. ok(conn')
    BY <2>2, <2>3, CloseOK, SettledOK, ReadOK
  <2>5. QED
    BY <2>1, <2>4
<1>14. CASE ParsePacket
  <2> DEFINE c == ReadEnded(conn)
             made == [c EXCEPT !.protocol = TRUE]
             m == accepted + 1
             answered == SendMessage(made, m)
  <2>1. conn # Created /\ UNCHANGED <<peerGone, delivered>>
    BY <1>14, CreatedFacts DEF ParsePacket
  <2>2. ok(c) /\ c.closed = conn.closed
    BY <1>11, <2>1
  <2>3. \/ /\ accepted' = accepted
           /\ \/ conn' = Settled(CloseConnection(c, TRUE))
              \/ conn' = Settled(c)
        \/ /\ accepted' = accepted
           /\ ~conn.closed
           /\ \/ conn' = StartRead(made, "header")
              \/ conn' = StartRead(CloseConnection(made, FALSE), "header")
        \/ /\ accepted' = m
           /\ ~conn.closed /\ accepted < MaxMessages
           /\ \/ conn' = StartRead(answered, "header")
              \/ conn' = StartRead(CloseConnection(answered, FALSE), "header")
    BY <1>14 DEF ParsePacket
  <2> HIDE DEF c
  <2>4. ASSUME ~conn.closed PROVE ok(made) /\ ~made.closed
    <3>1. /\ made \in ConnObjects /\ made.messageQueue = c.messageQueue /\ made.writing = c.writing
          /\ made.writeResult = c.writeResult /\ made.socketOpen = c.socketOpen
          /\ made.closed = c.closed /\ made.released = c.released /\ Usable(made)
      BY <2>2 DEF ConnOK, ConnObjects, Usable
    <3> HIDE DEF made
    <3>2. SentRight(made, peerGone, accepted, delivered)
      BY <2>2, <3>1 DEF ConnOK, SentRight, Waiting
    <3>3. ReleasedRight(made) /\ ~made.closed
      BY <2>2, <2>4, <3>1 DEF ConnOK, ReleasedRight
    <3>4. QED
      BY <1>1, <2>2, <3>1, <3>2, <3>3 DEF ConnOK
  <2> HIDE DEF made
  <2>5. ASSUME ~conn.closed, accepted < MaxMessages
        PROVE  ConnOK(answered, peerGone, m, delivered) /\ Usable(answered)
    BY <1>1, <2>4, <2>5, SendOK
  <2> HIDE DEF answered, m
  <2>6. CASE /\ accepted' = accepted
             /\ conn' = Settled(CloseConnection(c, TRUE)) \/ conn' = Settled(c)
    BY <2>1, <2>2, <2>6, CloseOK, SettledOK
  <2>7. CASE /\ accepted' = accepted /\ ~conn.closed
             /\ \/ conn' = StartRead(made, "header")
                \/ conn' = StartRead(CloseConnection(made, FALSE), "header")
    BY <2>1, <2>4, <2>7, CloseOK, ReadOK
  <2>8. CASE /\ accepted' = m /\ ~conn.closed /\ accepted < MaxMessages
             /\ \/ conn' = StartRead(answered, "header")
                \/ conn' = StartRead(CloseConnection(answered, FALSE), "header")
    BY <2>1, <2>5, <2>8, CloseOK, ReadOK
  <2>9. QED
    BY <2>3, <2>6, <2>7, <2>8
<1>15. CASE OnWriteOperation
  <2> DEFINE c == WriteEnded(conn)
             dropped == [c EXCEPT !.messageQueue = <<>>]
             next == InternalSend(c, Head(c.messageQueue))
  <2>1. conn # Created /\ UNCHANGED <<peerGone, accepted, delivered>>
    BY <1>15, CreatedFacts DEF OnWriteOperation
  <2>2. CASE conn.writeResult = "failed"
    <3>1. ok(dropped)
      BY <1>1, <2>1, <2>2, DroppedOK
    <3>2. conn' = Settled(CloseConnection(dropped, TRUE))
      BY <1>15, <2>2 DEF OnWriteOperation
    <3> HIDE DEF dropped
    <3>3. QED
      BY <2>1, <3>1, <3>2, CloseOK, SettledOK
  <2>3. CASE conn.writeResult = "done"
    <3>1. /\ c.messageQueue # <<>> => ok(next)
          /\ c.messageQueue = <<>> => ok(c)
      BY <1>1, <2>1, <2>3, WrittenOK
    <3>2. conn' = Settled(IF c.messageQueue # <<>> THEN next
                          ELSE IF c.closed THEN CloseSocket(c) ELSE c)
      BY <1>15, <2>3 DEF OnWriteOperation
    <3> HIDE DEF c, next
    <3>3. ok(c) /\ c.closed => ok(CloseSocket(c))
      <4>1. SUFFICES ASSUME ok(c), c.closed PROVE ok(CloseSocket(c))
        OBVIOUS
      <4>2. /\ CloseSocket(c) \in ConnObjects /\ SameWork(c, CloseSocket(c))
            /\ CloseSocket(c).closed = c.closed /\ CloseSocket(c).released = c.released
        BY <4>1, CloseSocketFacts DEF ConnOK
      <4>3. ReleasedRight(CloseSocket(c)) /\ Usable(CloseSocket(c))
        BY <4>1, <4>2 DEF ConnOK, ReleasedRight, SameWork, Usable
      <4>4. QED
        BY <1>1, <4>1, <4>2, <4>3, SameWorkOK
    <3>4. QED
      BY <2>1, <3>1, <3>2, <3>3, SettledOK
  <2>4. QED
    BY <1>15, <2>2, <2>3 DEF OnWriteOperation
<1>16. ASSUME NEW timer \in Timers, TimerExpires(timer) PROVE ok(conn') /\ UNCHANGED <<peerGone, accepted, delivered>>
  <2>1. conn # Created
    BY <1>16, CreatedFacts DEF TimerExpires, Timers
  <2>2. conn' = [conn EXCEPT ![timer] = {"fired"}] /\ UNCHANGED <<peerGone, accepted, delivered>>
    BY <1>16 DEF TimerExpires
  <2>3. timer = "readTimer" \/ timer = "writeTimer"
    BY DEF Timers
  <2>4. conn' \in ConnObjects /\ SameWork(conn, conn') /\ ReleasedRight(conn') /\ Usable(conn')
    BY <1>1, <2>1, <2>2, <2>3 DEF ConnObjects, SameWork, ReleasedRight, ConnOK, Usable
  <2>5. QED
    BY <1>1, <2>2, <2>4, SameWorkOK
<1>17. ASSUME NEW timer \in Timers, HandleTimeout(timer) PROVE ok(conn') /\ UNCHANGED <<peerGone, accepted, delivered>>
  <2> DEFINE c == [conn EXCEPT ![timer] = @ \ {"fired"}]
  <2>1. conn # Created
    BY <1>17, CreatedFacts DEF HandleTimeout, Timers
  <2>2. conn' = Settled(CloseConnection(c, TRUE)) /\ UNCHANGED <<peerGone, accepted, delivered>>
    BY <1>17 DEF HandleTimeout
  <2>3. timer = "readTimer" \/ timer = "writeTimer"
    BY DEF Timers
  <2>4. c \in ConnObjects /\ SameWork(conn, c) /\ ReleasedRight(c) /\ Usable(c)
    BY <1>1, <2>1, <2>3 DEF ConnObjects, SameWork, ReleasedRight, ConnOK, Usable
  <2> HIDE DEF c
  <2>5. ok(c)
    BY <1>1, <2>4, SameWorkOK
  <2>6. QED
    BY <2>2, <2>5, CloseOK, SettledOK
<1>18. CASE UNCHANGED connVars
    BY <1>18
<1>19. QED
    BY <1>2, <1>3, <1>4, <1>5, <1>6, <1>7, <1>8, <1>9, <1>10, <1>12, <1>13, <1>14,
       <1>15, <1>16, <1>17, <1>18 DEF ConnNext

(* What send() takes reaches the peer in order and once, whatever fails and *)
(* times out in between, and the protocol of a closed connection is let go  *)
(* exactly once: for any number of messages.                                *)
THEOREM ConnectionSoundAlways == ConnSpec => []ConnectionSound
<1>1. ConnInv => ConnectionSound
    BY DEF ConnInv, ConnectionSound
<1>2. QED
    BY <1>1, ConnInitInv, ConnStep, PTL DEF ConnSpec

-----------------------------------------------------------------------------
(***************************************************************************)
(* OutputPool.                                                             *)
(***************************************************************************)
-----------------------------------------------------------------------------
(* What a release leaves of the list is a list of protocols.                *)
LEMMA WithoutProtocolType ==
    ASSUME listed \in Seq(Protocols), NEW p \in Protocols, p \in ToSet(listed)
    PROVE  WithoutProtocol(p) \in Seq(Protocols)
<1> DEFINE at == CHOOSE i \in DOMAIN listed : listed[i] = p
           swapped == [listed EXCEPT ![at] = Last(listed)]
<1>1. Len(listed) \in Nat \ {0}
  BY DEF ToSet
<1>2. Last(listed) \in Protocols
  BY <1>1 DEF Last
<1>3. swapped \in Seq(Protocols) /\ Len(swapped) = Len(listed)
  <2> HIDE DEF at
  <2>1. listed \in [1..Len(listed) -> Protocols]
    OBVIOUS
  <2>2. swapped \in [1..Len(listed) -> Protocols]
    BY <1>2, <2>1
  <2> QED  BY <1>1, <2>2
<1>4. SubSeq(swapped, 1, Len(swapped) - 1) \in Seq(Protocols)
  <2> HIDE DEF swapped
  <2> QED  BY <1>1, <1>3
<1> QED  BY <1>4 DEF WithoutProtocol, Front

(* What Protocol::send leaves with a connection.                            *)
LEMMA SentType ==
    ASSUME TypeOK, NEW p \in Protocols
    PROVE  Sent(p, buffer[p]) \in Seq(Messages)
BY DEF TypeOK, Sent

(* The types, of protocol.cpp, outputmessage.cpp and protocolgame.cpp.      *)
THEOREM PoolTypes == Spec => []TypeOK
<1>1. Init => TypeOK
  BY DEF Init, TypeOK
<1>2. TypeOK /\ [Next]_vars => TypeOK'
  <2> SUFFICES ASSUME TypeOK, [Next]_vars  PROVE TypeOK'
    OBVIOUS
  <2>1. ASSUME NEW p \in Protocols, NEW m \in Unwritten, Write(p, m)  PROVE TypeOK'
    <3>1. m \in Messages
      BY DEF Unwritten
    <3>2. Append(written[p], m) \in Seq(Messages) /\ Append(buffer[p], m) \in Seq(Messages)
      BY <3>1 DEF TypeOK
    <3>3. Sent(p, buffer[p]) \in Seq(Messages) /\ <<m>> \in Seq(Messages)
      BY <3>1, SentType
    <3> QED  BY <2>1, <3>2, <3>3 DEF Write, TypeOK, clientVars
  <2>2. ASSUME NEW p \in Protocols, AddProtocolToAutosend(p)  PROVE TypeOK'
    <3>1. Append(listed, p) \in Seq(Protocols)
      BY DEF TypeOK
    <3> QED  BY <2>2, <3>1 DEF AddProtocolToAutosend, TypeOK
  <2>3. ASSUME NEW p \in Protocols, Close(p)  PROVE TypeOK'
    BY <2>3 DEF Close, TypeOK
  <2>4. ASSUME NEW p \in Protocols, Release(p)  PROVE TypeOK'
    <3>1. listed' \in Seq(Protocols)
      BY <2>4, WithoutProtocolType DEF Release, TypeOK
    <3> QED  BY <2>4, <3>1 DEF Release, TypeOK
  <2>5. CASE SendAll
    <3>1. \A p \in Protocols : Sent(p, buffer[p]) \in Seq(Messages) /\ <<>> \in Seq(Messages)
      BY SentType
    <3> QED  BY <2>5, <3>1 DEF SendAll, TypeOK, clientVars
  <2>6. CASE UNCHANGED vars
    BY <2>6 DEF vars, clientVars, TypeOK
  <2> QED  BY <2>1, <2>2, <2>3, <2>4, <2>5, <2>6 DEF Next
<1> QED  BY <1>1, <1>2, PTL DEF Spec

-----------------------------------------------------------------------------
(* Nobody is listed without a pass to come: addProtocolToAutosend and       *)
(* sendAll between them never drop the last one.                            *)
THEOREM PoolListedHasPass == Spec => []ListedHasPass
<1>1. Init => ListedHasPass
  BY DEF Init, ListedHasPass
<1>2. TypeOK /\ ListedHasPass /\ [Next]_vars => ListedHasPass'
  <2> SUFFICES ASSUME TypeOK, ListedHasPass, [Next]_vars  PROVE ListedHasPass'
    OBVIOUS
  <2> USE DEF ListedHasPass, TypeOK
  <2>1. ASSUME NEW p \in Protocols, NEW m \in Unwritten, Write(p, m)  PROVE ListedHasPass'
    BY <2>1 DEF Write
  <2>2. ASSUME NEW p \in Protocols, AddProtocolToAutosend(p)  PROVE ListedHasPass'
    BY <2>2 DEF AddProtocolToAutosend
  <2>3. ASSUME NEW p \in Protocols, Close(p)  PROVE ListedHasPass'
    BY <2>3 DEF Close
  <2>4. ASSUME NEW p \in Protocols, Release(p)  PROVE ListedHasPass'
    BY <2>4 DEF Release, ToSet
  <2>5. CASE SendAll
    BY <2>5 DEF SendAll
  <2>6. CASE UNCHANGED vars
    BY <2>6 DEF vars
  <2> QED  BY <2>1, <2>2, <2>3, <2>4, <2>5, <2>6 DEF Next
<1> QED  BY <1>1, <1>2, PoolTypes, PTL DEF Spec

-----------------------------------------------------------------------------
(* A message put behind a buffer, or sent behind it: the same order.        *)
LEMMA PushAfter ==
    ASSUME NEW s \in Seq(Messages), NEW b \in Seq(Messages), NEW m \in Messages
    PROVE  /\ s \o Append(b, m) = Append(s \o b, m)
           /\ (s \o b) \o <<m>> = Append(s \o b, m)
<1>1. s \o Append(b, m) = Append(s \o b, m)
  BY ConcatPush
<1>2. s \o b \in Seq(Messages) /\ <<>> \in Seq(Messages)
  OBVIOUS
<1>3. (s \o b) \o <<m>> = Append(s \o b, m)
  BY <1>2, SameSeq
<1> QED  BY <1>1, <1>3

(* An open connection was sent what was written, but for what the buffer    *)
(* still holds: getOutputBuffer and sendAll lose, repeat and reorder        *)
(* nothing.                                                                 *)
THEOREM PoolInOrder == Spec => []InOrder
<1>1. Init => InOrder
  BY DEF Init, InOrder
<1>2. TypeOK /\ InOrder /\ [Next]_vars => InOrder'
  <2> SUFFICES ASSUME TypeOK, InOrder, [Next]_vars,
                      NEW q \in Protocols, open'[q]
               PROVE  written'[q] = sent'[q] \o buffer'[q]
    BY DEF InOrder
  <2>0. open[q] => written[q] = sent[q] \o buffer[q]
    BY DEF InOrder
  <2>a. buffer[q] \in Seq(Messages)
    BY DEF TypeOK
  <2>b. sent[q] \in Seq(Messages)
    BY DEF TypeOK
  <2>1. ASSUME NEW p \in Protocols, NEW m \in Unwritten, Write(p, m)
        PROVE  written'[q] = sent'[q] \o buffer'[q]
    <3>0. open[q]
      BY <2>1 DEF Write, clientVars
    <3>1. CASE p # q
      BY <2>0, <2>1, <3>0, <3>1 DEF Write, TypeOK, clientVars
    <3>2. CASE p = q
      <4>1. m \in Messages
        BY DEF Unwritten
      <4>2. written'[q] = Append(sent[q] \o buffer[q], m)
        BY <2>0, <2>1, <3>0, <3>2 DEF Write, TypeOK
      <4>3. CASE buffer[q] # <<>> /\ Total(buffer[q]) + Size[m] > Capacity
        <5>1. sent'[q] = sent[q] \o buffer[q] /\ buffer'[q] = <<m>>
          BY <2>1, <3>0, <3>2, <4>3 DEF Write, TypeOK, Sent
        <5>2. /\ sent[q] \o Append(buffer[q], m) = Append(sent[q] \o buffer[q], m)
              /\ (sent[q] \o buffer[q]) \o <<m>> = Append(sent[q] \o buffer[q], m)
          BY <2>a, <2>b, <4>1, PushAfter
        <5> QED  BY <4>2, <5>1, <5>2
      <4>4. CASE ~(buffer[q] # <<>> /\ Total(buffer[q]) + Size[m] > Capacity)
        <5>1. sent'[q] = sent[q] /\ buffer'[q] = Append(buffer[q], m)
          BY <2>1, <3>2, <4>4 DEF Write, TypeOK
        <5>2. /\ sent[q] \o Append(buffer[q], m) = Append(sent[q] \o buffer[q], m)
              /\ (sent[q] \o buffer[q]) \o <<m>> = Append(sent[q] \o buffer[q], m)
          BY <2>a, <2>b, <4>1, PushAfter
        <5> QED  BY <4>2, <5>1, <5>2
      <4> QED  BY <4>3, <4>4
    <3> QED  BY <3>1, <3>2
  <2>2. ASSUME NEW p \in Protocols, AddProtocolToAutosend(p)
        PROVE  written'[q] = sent'[q] \o buffer'[q]
    BY <2>0, <2>a, <2>b, <2>2 DEF AddProtocolToAutosend
  <2>3. ASSUME NEW p \in Protocols, Close(p)
        PROVE  written'[q] = sent'[q] \o buffer'[q]
    BY <2>0, <2>a, <2>b, <2>3 DEF Close, TypeOK
  <2>4. ASSUME NEW p \in Protocols, Release(p)
        PROVE  written'[q] = sent'[q] \o buffer'[q]
    BY <2>0, <2>a, <2>b, <2>4 DEF Release
  <2>5. CASE SendAll
    <3>0. open[q]
      BY <2>5 DEF SendAll, clientVars
    <3>1. CASE q \in ToSet(listed)
      <4>1. buffer'[q] = <<>> /\ sent'[q] = sent[q] \o buffer[q] /\ written' = written
        BY <2>5, <3>0, <3>1 DEF SendAll, Sent
      <4>2. sent[q] \o buffer[q] \in Seq(Messages)
        BY <2>0, <2>a, <2>b
      <4>3. (sent[q] \o buffer[q]) \o <<>> = sent[q] \o buffer[q]
        BY <4>2, ConcatNothing
      <4> QED  BY <2>0, <2>a, <2>b, <3>0, <4>1, <4>3
    <3>2. CASE q \notin ToSet(listed)
      BY <2>0, <2>a, <2>b, <2>5, <3>0, <3>2 DEF SendAll
    <3> QED  BY <3>1, <3>2
  <2>6. CASE UNCHANGED vars
    BY <2>0, <2>a, <2>b, <2>6 DEF vars, clientVars
  <2> QED  BY <2>1, <2>2, <2>3, <2>4, <2>5, <2>6 DEF Next
<1> QED  BY <1>1, <1>2, PoolTypes, PTL DEF Spec

(***************************************************************************)
(* Spectators.  The lists of the leaves are exactly who is there; then the *)
(* leaves of a search hold everybody in view, as LeafOf is monotonic in    *)
(* the column.                                                             *)
(***************************************************************************)
On(c) == tileOf[c] # Nowhere
SeenFrom(center) == {c \in Beings : On(c) /\ InView(center, tileOf[c])}
ListsRight ==
    /\ tileOf \in [Beings -> Places \cup {Nowhere}]
    /\ creatureList = [l \in Leaves |-> {c \in Beings : On(c) /\ LeafOf(tileOf[c]) = l}]
    /\ playerList = [l \in Leaves |-> {c \in Watchers : On(c) /\ LeafOf(tileOf[c]) = l}]
CachesRight ==
    /\ spectatorCache \in [Places -> (SUBSET Beings) \cup {NotCached}]
    /\ playersCache \in [Places -> (SUBSET Beings) \cup {NotCached}]
    /\ \A center \in Places :
         /\ spectatorCache[center] \in {NotCached, SeenFrom(center)}
         /\ playersCache[center] \in {NotCached, SeenFrom(center) \cap Watchers}
SpectInv == ListsRight /\ CachesRight

(* The columns of one leaf come before those of a later one.                *)
LEMMA DivMonotonic ==
    ASSUME NEW a \in Nat, NEW b \in Nat, a <= b, NEW f \in Nat \ {0}
    PROVE  a \div f \in Nat /\ a \div f <= b \div f
<1>1. /\ a \div f \in Int /\ a % f \in 0..(f - 1) /\ a = f * (a \div f) + (a % f)
      /\ b \div f \in Int /\ b % f \in 0..(f - 1) /\ b = f * (b \div f) + (b % f)
    OBVIOUS
<1>2. QED
    BY <1>1

(* getSpectatorsInternal walks every leaf that has somebody in view.        *)
LEMMA LeavesSuffice ==
    ASSUME NEW center \in Places, NEW place \in Places, InView(center, place)
    PROVE  LeafOf(place) \in LeavesInView(center)
<1> DEFINE low == center.x - ViewRange + (center.z - HighFloor(center.z))
           high == center.x + ViewRange + (center.z - LowFloor(center.z))
<1>1. /\ center.x \in Nat /\ center.z \in 0..15 /\ place.x \in Nat /\ place.z \in 0..15
      /\ ViewRange \in Nat /\ FloorSize \in Nat \ {0}
    BY SpectatorsAssumption
<1>2. LowFloor(center.z) \in 0..15 /\ HighFloor(center.z) \in 0..15
    BY <1>1 DEF LowFloor, HighFloor
<1>3. low <= place.x /\ place.x <= high /\ low \in Int /\ high \in Nat
    <2>1. /\ place.z \in LowFloor(center.z) .. HighFloor(center.z)
          /\ place.x - center.x \in
               (center.z - place.z) - ViewRange .. (center.z - place.z) + ViewRange
        BY DEF InView
    <2>2. \A cx, px \in Nat : \A cz, pz, lo, hi \in 0..15 : \A v \in Nat :
              pz \in lo..hi /\ px - cx \in (cz - pz) - v .. (cz - pz) + v =>
                /\ cx - v + (cz - hi) \in Int /\ cx - v + (cz - hi) <= px
                /\ cx + v + (cz - lo) \in Nat /\ px <= cx + v + (cz - lo)
        OBVIOUS
    <2>3. QED
        BY <1>1, <1>2, <2>1, <2>2
<1> HIDE DEF low, high
<1>4. place.x \div FloorSize <= high \div FloorSize /\ place.x \div FloorSize \in Nat
    BY <1>1, <1>3, DivMonotonic
<1>5. (IF low < 0 THEN 0 ELSE low) \div FloorSize <= place.x \div FloorSize
    <2>1. (IF low < 0 THEN 0 ELSE low) \in Nat /\ (IF low < 0 THEN 0 ELSE low) <= place.x
        BY <1>1, <1>3
    <2>2. QED
        BY <1>1, <2>1, DivMonotonic
<1>6. /\ (IF low < 0 THEN 0 ELSE low) \div FloorSize \in Nat
      /\ high \div FloorSize \in Nat
    <2>1. (IF low < 0 THEN 0 ELSE low) \in Nat
        BY <1>3
    <2>2. QED
        BY <1>1, <1>3, <2>1, DivMonotonic
<1>7. LeafOf(place) \in (IF low < 0 THEN 0 ELSE low) \div FloorSize .. high \div FloorSize
    BY <1>4, <1>5, <1>6 DEF LeafOf
<1>8. LeafOf(place) \in Leaves
    BY DEF Leaves
<1>9. QED
    BY <1>7, <1>8 DEF LeavesInView, low, high

(* So a search finds everybody in view.                                     *)
LEMMA SearchFinds ==
    ASSUME ListsRight, NEW center \in Places
    PROVE  /\ Searched(creatureList, center) = SeenFrom(center)
           /\ Searched(playerList, center) = SeenFrom(center) \cap Watchers
<1>1. Watchers \subseteq Beings
    BY SpectatorsAssumption
<1>2. LeavesInView(center) \subseteq Leaves
    BY DEF LeavesInView
<1>3. ASSUME NEW c \in SeenFrom(center) PROVE LeafOf(tileOf[c]) \in LeavesInView(center)
    BY <1>3, LeavesSuffice DEF SeenFrom, On, ListsRight
<1>4. ASSUME NEW c PROVE c \in Searched(creatureList, center) <=> c \in SeenFrom(center)
    <2>1. c \in Searched(creatureList, center) <=>
              (\E l \in LeavesInView(center) : c \in creatureList[l]) /\ InView(center, tileOf[c])
        BY DEF Searched
    <2>2. \A l \in LeavesInView(center) :
              c \in creatureList[l] <=> c \in Beings /\ On(c) /\ LeafOf(tileOf[c]) = l
        BY <1>2 DEF ListsRight
    <2>3. QED
        BY <1>3, <2>1, <2>2 DEF SeenFrom
<1>5. ASSUME NEW c PROVE c \in Searched(playerList, center) <=> c \in SeenFrom(center) \cap Watchers
    <2>1. c \in Searched(playerList, center) <=>
              (\E l \in LeavesInView(center) : c \in playerList[l]) /\ InView(center, tileOf[c])
        BY DEF Searched
    <2>2. \A l \in LeavesInView(center) :
              c \in playerList[l] <=> c \in Watchers /\ On(c) /\ LeafOf(tileOf[c]) = l
        BY <1>2 DEF ListsRight
    <2>3. QED
        BY <1>1, <1>3, <2>1, <2>2 DEF SeenFrom
<1>6. QED
    BY <1>4, <1>5

(* Nobody is on the map, and nothing is cached.                             *)
LEMMA SpectInitInv == SpectInit => SpectInv
<1> SUFFICES ASSUME SpectInit PROVE SpectInv
    OBVIOUS
<1>1. \A c \in Beings : ~On(c)
    BY DEF SpectInit, On
<1>2. ListsRight
    BY <1>1, SpectatorsAssumption DEF SpectInit, ListsRight
<1>3. CachesRight
    BY DEF SpectInit, CachesRight
<1>4. QED
    BY <1>2, <1>3 DEF SpectInv

(* What Listing leaves when the tile of the creature changes with it.       *)
LEMMA ListingRight ==
    ASSUME ListsRight, NEW c \in Beings, NEW to \in Places \cup {Nowhere},
           NEW from, NEW into,
           tileOf' = [tileOf EXCEPT ![c] = to],
           from = IF On(c) THEN {LeafOf(tileOf[c])} ELSE {},
           into = IF to # Nowhere THEN {LeafOf(to)} ELSE {},
           Listing(c, from, into)
    PROVE  ListsRight'
<1>1. tileOf' \in [Beings -> Places \cup {Nowhere}]
    BY DEF ListsRight
<1>2. /\ On(c)' <=> to # Nowhere
      /\ \A d \in Beings \ {c} : On(d)' = On(d) /\ tileOf'[d] = tileOf[d]
      /\ tileOf'[c] = to
    BY DEF On, ListsRight
<1>3. ASSUME NEW l \in Leaves
      PROVE  creatureList'[l] = {d \in Beings : On(d)' /\ LeafOf(tileOf'[d]) = l}
    BY <1>2 DEF Listing, ListsRight
<1>4. ASSUME NEW l \in Leaves
      PROVE  playerList'[l] = {d \in Watchers : On(d)' /\ LeafOf(tileOf'[d]) = l}
    BY <1>2, SpectatorsAssumption DEF Listing, ListsRight
<1>5. QED
    BY <1>1, <1>3, <1>4 DEF Listing, ListsRight

(* Every step keeps the lists.                                              *)
LEMMA ListsKept == SpectInv /\ [SpectNext]_spectVars => ListsRight'
<1> SUFFICES ASSUME SpectInv, [SpectNext]_spectVars PROVE ListsRight'
    OBVIOUS
<1>0. ListsRight /\ Nowhere \notin Places
    BY SpectatorsAssumption DEF SpectInv
<1>1. CASE \E p \in Places : GetSpectators(p) \/ GetPlayers(p)
    BY <1>0, <1>1 DEF GetSpectators, GetPlayers, ListsRight, On
<1>2. ASSUME NEW c \in Beings, RemoveBeing(c) PROVE ListsRight'
    BY <1>0, <1>2, ListingRight DEF RemoveBeing, On
<1>3. ASSUME NEW c \in Beings, NEW p \in Places, PlaceBeing(c, p) PROVE ListsRight'
    BY <1>0, <1>3, ListingRight DEF PlaceBeing, On
<1>4. ASSUME NEW c \in Beings, NEW p \in Places, MoveBeing(c, p) PROVE ListsRight'
    <2>1. CASE LeafOf(tileOf[c]) # LeafOf(p)
        BY <1>0, <1>4, <2>1, ListingRight DEF MoveBeing, On
    <2>2. CASE LeafOf(tileOf[c]) = LeafOf(p)
        <3>1. /\ \A d \in Beings : On(d)' = On(d) /\ LeafOf(tileOf'[d]) = LeafOf(tileOf[d])
              /\ tileOf' \in [Beings -> Places \cup {Nowhere}]
            BY <1>0, <1>4, <2>2 DEF MoveBeing, On, ListsRight
        <3>2. UNCHANGED <<creatureList, playerList>>
            BY <1>4, <2>2 DEF MoveBeing
        <3>3. /\ \A l : {d \in Beings : On(d)' /\ LeafOf(tileOf'[d]) = l}
                         = {d \in Beings : On(d) /\ LeafOf(tileOf[d]) = l}
              /\ \A l : {d \in Watchers : On(d)' /\ LeafOf(tileOf'[d]) = l}
                         = {d \in Watchers : On(d) /\ LeafOf(tileOf[d]) = l}
            BY <3>1, SpectatorsAssumption
        <3>4. QED
            BY <1>0, <3>1, <3>2, <3>3 DEF ListsRight
    <2>3. QED
        BY <2>1, <2>2
<1>5. CASE UNCHANGED spectVars
    BY <1>0, <1>5 DEF spectVars, ListsRight, On
<1>6. QED
    BY <1>1, <1>2, <1>3, <1>4, <1>5 DEF SpectNext

(* Clearing is enough for what one creature changes.                        *)
LEMMA ClearedRight ==
    ASSUME SpectInv, NEW c \in Beings, CachesCleared(c),
           \A d \in Beings \ {c} : tileOf'[d] = tileOf[d]
    PROVE  CachesRight'
<1>1. ASSUME c \notin Watchers, NEW center \in Places
      PROVE  SeenFrom(center)' \cap Watchers = SeenFrom(center) \cap Watchers
    BY <1>1 DEF SeenFrom, On
<1>2. NotCached \in (SUBSET Beings) \cup {NotCached}
    OBVIOUS
<1>3. QED
    BY <1>1, <1>2 DEF CachesCleared, SpectInv, CachesRight

(* Every step keeps the caches.                                             *)
LEMMA CachesKept == SpectInv /\ [SpectNext]_spectVars => CachesRight'
<1> SUFFICES ASSUME SpectInv, [SpectNext]_spectVars PROVE CachesRight'
    OBVIOUS
<1>0. ListsRight /\ CachesRight
    BY DEF SpectInv
<1>1. ASSUME UNCHANGED tileOf, NEW center \in Places PROVE SeenFrom(center)' = SeenFrom(center)
    BY <1>1 DEF SeenFrom, On
<1>2. \A center \in Places : SeenFrom(center) \in SUBSET Beings
    BY DEF SeenFrom
<1>3. ASSUME NEW p \in Places, GetSpectators(p) PROVE CachesRight'
    BY <1>0, <1>1, <1>2, <1>3, SearchFinds DEF GetSpectators, CachesRight
<1>4. ASSUME NEW p \in Places, GetPlayers(p) PROVE CachesRight'
    BY <1>0, <1>1, <1>2, <1>4, SearchFinds DEF GetPlayers, CachesRight
<1>5. ASSUME NEW c \in Beings, RemoveBeing(c) PROVE CachesRight'
    BY <1>0, <1>5, ClearedRight DEF RemoveBeing, ListsRight
<1>6. ASSUME NEW c \in Beings, NEW p \in Places, PlaceBeing(c, p) \/ MoveBeing(c, p) PROVE CachesRight'
    BY <1>0, <1>6, ClearedRight DEF PlaceBeing, MoveBeing, ListsRight
<1>7. CASE UNCHANGED spectVars
    BY <1>0, <1>1, <1>7 DEF spectVars, CachesRight
<1>8. QED
    BY <1>3, <1>4, <1>5, <1>6, <1>7 DEF SpectNext

(* The lists and the caches give what the property says.                    *)
LEMMA SpectInvTrue == SpectInv => SpectatorsTrue
BY SearchFinds, SpectatorsAssumption DEF SpectInv, CachesRight, SpectatorsTrue, SeenFrom, On

(***************************************************************************)
(* Names.  The tree holds exactly the ways to the names of the players in  *)
(* the game: adding makes the nodes that are missing, and removing erases  *)
(* those that no other name needs.  The search is then compared with the   *)
(* answer it should give, node by node.                                    *)
(***************************************************************************)
Fits(word) == {name \in mappedPlayerNames : IsPrefix(word, name)}
NameInv ==
    /\ mappedPlayerNames \subseteq PlayerNames
    /\ IsFiniteSet(nodes)
    /\ nodes = {<<>>} \cup UNION {Prefixes(name) : name \in mappedPlayerNames}
    /\ breakpoints = mappedPlayerNames

(* What it is to begin a name, letter by letter.                            *)
LEMMA PrefixIs ==
    ASSUME NEW s \in Seq(Letters), NEW t \in Seq(Letters)
    PROVE  IsPrefix(s, t) <=> Len(s) <= Len(t) /\ \A i \in 1..Len(s) : s[i] = t[i]
<1>1. Len(s) \in Nat /\ Len(t) \in Nat
    OBVIOUS
<1>2. SubSeq(s, 1, Len(s)) = s
    OBVIOUS
<1>3. ASSUME Len(s) <= Len(t)
      PROVE  /\ SubSeq(t, 1, Len(s)) \in Seq(Letters)
             /\ Len(SubSeq(t, 1, Len(s))) = Len(s)
             /\ \A i \in 1..Len(s) : SubSeq(t, 1, Len(s))[i] = t[i]
    BY <1>1, <1>3
<1>4. ASSUME Len(s) <= Len(t), \A i \in 1..Len(s) : s[i] = t[i]
      PROVE  SubSeq(t, 1, Len(s)) = s
    BY <1>1, <1>3, <1>4
<1>5. QED
    BY <1>1, <1>2, <1>3, <1>4 DEF IsPrefix

(* What Prefixes enumerates.                                                *)
LEMMA PrefixesAre ==
    ASSUME NEW s, NEW t \in Seq(Letters)
    PROVE  s \in Prefixes(t) <=> s \in Seq(Letters) /\ IsPrefix(s, t)
<1>1. ASSUME s \in Prefixes(t) PROVE s \in Seq(Letters) /\ IsPrefix(s, t)
    <2>1. PICK l \in 0..Len(t) : s = SubSeq(t, 1, l)
        BY <1>1 DEF Prefixes
    <2>2. Len(t) \in Nat /\ l \in Nat /\ l <= Len(t)
        BY <2>1
    <2>3. s \in Seq(Letters) /\ Len(s) = l /\ \A i \in 1..l : s[i] = t[i]
        BY <2>1, <2>2
    <2>4. QED
        BY <2>2, <2>3, PrefixIs
<1>2. ASSUME s \in Seq(Letters), IsPrefix(s, t) PROVE s \in Prefixes(t)
    <2>1. Len(s) \in 0..Len(t)
        BY <1>2 DEF IsPrefix
    <2>2. s = SubSeq(t, 1, Len(s))
        BY <1>2 DEF IsPrefix
    <2>3. QED
        BY <2>1, <2>2 DEF Prefixes
<1>3. QED
    BY <1>1, <1>2

(* Beginnings are ordered: what begins a beginning begins the whole, and of *)
(* two beginnings of one word the shorter begins the longer.                *)
LEMMA PrefixOrder ==
    ASSUME NEW s \in Seq(Letters), NEW t \in Seq(Letters), NEW u \in Seq(Letters)
    PROVE  /\ IsPrefix(<<>>, s)
           /\ IsPrefix(s, s)
           /\ IsPrefix(s, t) /\ IsPrefix(t, u) => IsPrefix(s, u)
           /\ IsPrefix(s, t) /\ Len(s) = Len(t) => s = t
           /\ IsPrefix(s, u) /\ IsPrefix(t, u) /\ Len(s) <= Len(t) => IsPrefix(s, t)
           /\ IsPrefix(s, <<>>) => s = <<>>
<1>1. Len(s) \in Nat /\ Len(t) \in Nat /\ Len(u) \in Nat
    OBVIOUS
<1>0. <<>> \in Seq(Letters) /\ Len(<<>>) = 0
    OBVIOUS
<1>2. ASSUME NEW e \in Seq(Letters), Len(e) = 0 PROVE IsPrefix(e, s) /\ (IsPrefix(s, e) => Len(s) = 0)
    <2>1. IsPrefix(e, s) <=> Len(e) <= Len(s) /\ \A i \in 1..Len(e) : e[i] = s[i]
        BY PrefixIs
    <2>2. IsPrefix(s, e) <=> Len(s) <= Len(e) /\ \A i \in 1..Len(s) : s[i] = e[i]
        BY PrefixIs
    <2>3. QED
        BY <1>1, <1>2, <2>1, <2>2
<1>3. IsPrefix(s, t) /\ IsPrefix(t, u) => IsPrefix(s, u)
    BY <1>1, PrefixIs
<1>4. IsPrefix(s, t) /\ Len(s) = Len(t) => s = t
    BY <1>1, PrefixIs
<1>5. IsPrefix(s, u) /\ IsPrefix(t, u) /\ Len(s) <= Len(t) => IsPrefix(s, t)
    BY <1>1, PrefixIs
<1>6. IsPrefix(<<>>, s) /\ (IsPrefix(s, <<>>) => s = <<>>)
    <2>1. IsPrefix(<<>>, s) /\ (IsPrefix(s, <<>>) => Len(s) = 0)
        BY <1>0, <1>2
    <2>2. QED
        BY <1>0, <1>1, <2>1
<1>7. IsPrefix(s, s)
    <2>1. IsPrefix(s, s) <=> Len(s) <= Len(s) /\ \A i \in 1..Len(s) : s[i] = s[i]
        BY PrefixIs
    <2>2. QED
        BY <1>1, <2>1
<1>8. QED
    BY <1>3, <1>4, <1>5, <1>6, <1>7

(* One letter more.                                                         *)
LEMMA FrontIs ==
    ASSUME NEW s \in Seq(Letters), NEW t \in Seq(Letters), t # <<>>
    PROVE  Front(t) = s <=> IsPrefix(s, t) /\ Len(t) = Len(s) + 1
<1>1. Len(s) \in Nat /\ Len(t) \in Nat \ {0}
    OBVIOUS
<1>2. /\ Front(t) \in Seq(Letters) /\ Len(Front(t)) = Len(t) - 1
      /\ \A i \in 1..(Len(t) - 1) : Front(t)[i] = t[i]
    <2> DEFINE n == Len(t) - 1
    <2>1. n \in 0..Len(t)
        BY <1>1
    <2> HIDE DEF n
    <2>2. /\ SubSeq(t, 1, n) \in Seq(Letters) /\ Len(SubSeq(t, 1, n)) = n
          /\ \A i \in 1..n : SubSeq(t, 1, n)[i] = t[i]
        BY <1>1, <2>1
    <2>3. QED
        BY <2>1, <2>2 DEF n, Front
<1>3. IsPrefix(Front(t), t)
    BY <1>1, <1>2, PrefixIs, SMTT(30)
<1>4. ASSUME IsPrefix(s, t), Len(t) = Len(s) + 1 PROVE Front(t) = s
    BY <1>1, <1>2, <1>3, <1>4, PrefixOrder
<1>5. QED
    BY <1>1, <1>2, <1>3, <1>4

(* What begins a name, and is not all of it, has a letter after it.         *)
LEMMA NextLetter ==
    ASSUME NEW s \in Seq(Letters), NEW t \in Seq(Letters), IsPrefix(s, t), s # t
    PROVE  \E u \in Seq(Letters) : IsPrefix(u, t) /\ u # <<>> /\ Front(u) = s
<1> DEFINE u == SubSeq(t, 1, Len(s) + 1)
<1>1. Len(s) \in Nat /\ Len(t) \in Nat /\ Len(s) <= Len(t) /\ Len(s) # Len(t)
    BY PrefixIs, PrefixOrder
<1>2. u \in Seq(Letters) /\ Len(u) = Len(s) + 1 /\ \A i \in 1..(Len(s) + 1) : u[i] = t[i]
    BY <1>1
<1> HIDE DEF u
<1>3. IsPrefix(u, t)
    BY <1>1, <1>2, PrefixIs
<1>4. IsPrefix(s, u)
    BY <1>1, <1>2, <1>3, PrefixOrder
<1>5. u # <<>>
    BY <1>1, <1>2
<1>6. QED
    BY <1>2, <1>3, <1>4, <1>5, FrontIs

(* A name has finitely many beginnings.                                     *)
LEMMA PrefixesFinite ==
    ASSUME NEW t \in Seq(Letters)
    PROVE  IsFiniteSet(Prefixes(t))
<1> DEFINE D == 0..Len(t)
           f == [l \in D |-> SubSeq(t, 1, l)]
<1>1. IsFiniteSet(D)
    BY FS_Interval
<1>2. Prefixes(t) = {f[l] : l \in D}
    BY DEF Prefixes
<1>3. DOMAIN f = D
    OBVIOUS
<1> HIDE DEF f, D
<1>4. f \in Surjection(D, Prefixes(t))
    <2>1. \A l \in D : f[l] \in Prefixes(t)
        BY <1>2
    <2>2. f \in [D -> Prefixes(t)]
        <3>1. f = [l \in D |-> f[l]]
            BY <1>3 DEF f
        <3>2. QED
            BY <2>1, <3>1
    <2>3. \A s \in Prefixes(t) : \E l \in D : f[l] = s
        BY <1>2
    <2>4. QED
        BY <2>2, <2>3, Zenon DEF Surjection
<1>5. QED
    BY <1>1, <1>4, FS_Surjection

(* The nodes, one by one.                                                   *)
LEMMA NodeIs ==
    ASSUME NameInv, NEW node
    PROVE  node \in nodes <=>
             /\ node \in Seq(Letters)
             /\ node = <<>> \/ \E name \in mappedPlayerNames : IsPrefix(node, name)
<1>1. \A name \in mappedPlayerNames : name \in Seq(Letters)
    BY NamesAssumption DEF NameInv
<1>2. <<>> \in Seq(Letters)
    OBVIOUS
<1>3. node \in nodes <=> node = <<>> \/ \E name \in mappedPlayerNames : node \in Prefixes(name)
    BY DEF NameInv
<1>4. \A name \in mappedPlayerNames :
          node \in Prefixes(name) <=> node \in Seq(Letters) /\ IsPrefix(node, name)
    BY <1>1, PrefixesAre
<1>5. QED
    BY <1>2, <1>3, <1>4

(* The tree begins as its root.                                             *)
LEMMA NameInitInv == NameInit => NameInv
<1> SUFFICES ASSUME NameInit PROVE NameInv
    OBVIOUS
<1>1. IsFiniteSet({<<>>})
    BY FS_Singleton
<1>2. QED
    BY <1>1 DEF NameInit, NameInv

(* insert makes the nodes on the way to the name, if they are not there.    *)
LEMMA AddKeeps ==
    ASSUME NameInv, NEW name \in PlayerNames, AddPlayer(name)
    PROVE  NameInv'
<1>1. IsFiniteSet(Prefixes(name))
    BY PrefixesFinite, NamesAssumption
<1>2. IsFiniteSet(nodes')
    BY <1>1, FS_Union DEF AddPlayer, Insert, NameInv
<1>3. QED
    BY <1>2 DEF AddPlayer, Insert, NameInv

(* remove erases the nodes that only this name needs, and none of the       *)
(* others.                                                                  *)
LEMMA ErasedRight ==
    ASSUME NameInv, NEW name \in mappedPlayerNames, NEW node \in nodes
    PROVE  node \notin Erased(name) <=>
             node = <<>> \/ \E other \in mappedPlayerNames \ {name} : IsPrefix(node, other)
<1>1. /\ \A n \in mappedPlayerNames : n \in Seq(Letters) /\ n # <<>> /\ n \in nodes
      /\ node \in Seq(Letters) /\ <<>> \in Seq(Letters)
    <2>1. \A n \in mappedPlayerNames : n \in Seq(Letters) /\ n # <<>>
        BY NamesAssumption DEF NameInv
    <2>2. \A n \in mappedPlayerNames : n \in nodes
        BY <2>1, NodeIs, PrefixOrder
    <2>3. QED
        BY <2>1, <2>2, NodeIs
<1>2. node \in Erased(name) <=>
          /\ IsPrefix(node, name) /\ node # <<>>
          /\ \A other \in nodes : IsPrefix(node, other) =>
                IsPrefix(other, name) /\ other \notin mappedPlayerNames \ {name}
    BY <1>1, PrefixesAre DEF Erased, NameInv
<1>3. ASSUME NEW other \in mappedPlayerNames \ {name}, IsPrefix(node, other) PROVE node \notin Erased(name)
    BY <1>1, <1>2, <1>3
<1>4. ASSUME node # <<>>, node \notin Erased(name)
      PROVE  \E other \in mappedPlayerNames \ {name} : IsPrefix(node, other)
    <2>1. PICK n \in mappedPlayerNames : IsPrefix(node, n)
        BY <1>4, NodeIs
    <2>2. CASE n # name
        BY <2>1, <2>2
    <2>3. CASE n = name
        <3>1. PICK o \in nodes :
                  /\ IsPrefix(node, o)
                  /\ ~IsPrefix(o, name) \/ o \in mappedPlayerNames \ {name}
            BY <1>2, <1>4, <2>1, <2>3
        <3>2. CASE o \in mappedPlayerNames \ {name}
            BY <3>1, <3>2
        <3>3. CASE ~IsPrefix(o, name)
            <4>1. o \in Seq(Letters) /\ o # <<>>
                BY <1>1, <3>3, NodeIs, PrefixOrder
            <4>2. PICK m \in mappedPlayerNames : IsPrefix(o, m)
                BY <4>1, NodeIs
            <4>3. m # name /\ IsPrefix(node, m)
                BY <1>1, <3>1, <3>3, <4>1, <4>2, PrefixOrder
            <4>4. QED
                BY <4>2, <4>3
        <3>4. QED
            BY <3>1, <3>2, <3>3
    <2>4. QED
        BY <2>2, <2>3
<1>5. QED
    BY <1>2, <1>3, <1>4

(* So what a removal leaves is the tree of the names that are left.         *)
LEMMA RemoveKeeps ==
    ASSUME NameInv, NEW name \in PlayerNames, RemovePlayer(name)
    PROVE  NameInv'
<1>1. name \in mappedPlayerNames /\ mappedPlayerNames' = mappedPlayerNames \ {name}
    BY DEF RemovePlayer
<1>2. Prefixes(name) \subseteq nodes
    BY <1>1 DEF NameInv
<1>3. nodes' = nodes \ Erased(name) /\ breakpoints' = breakpoints \ {name}
    BY <1>2 DEF RemovePlayer, RemoveName
<1>4. \A n \in mappedPlayerNames : n \in Seq(Letters)
    BY NamesAssumption DEF NameInv
<1>5. ASSUME NEW node
      PROVE  node \in nodes' <=> node \in {<<>>} \cup UNION {Prefixes(n) : n \in mappedPlayerNames'}
    <2>1. node \in nodes' <=>
              node \in nodes /\ (node = <<>> \/ \E n \in mappedPlayerNames \ {name} : IsPrefix(node, n))
        BY <1>1, <1>3, ErasedRight
    <2>2. node \in nodes' <=>
              /\ node \in Seq(Letters)
              /\ node = <<>> \/ \E n \in mappedPlayerNames \ {name} : IsPrefix(node, n)
        BY <2>1, NodeIs
    <2>3. \A n \in mappedPlayerNames' :
              node \in Prefixes(n) <=> node \in Seq(Letters) /\ IsPrefix(node, n)
        BY <1>1, <1>4, PrefixesAre
    <2>4. <<>> \in Seq(Letters)
        OBVIOUS
    <2>5. QED
        BY <1>1, <2>2, <2>3, <2>4
<1>6. nodes' \in SUBSET nodes /\ IsFiniteSet(nodes')
    BY <1>3, FS_Subset DEF NameInv
<1>7. nodes' = {<<>>} \cup UNION {Prefixes(n) : n \in mappedPlayerNames'}
    BY <1>5
<1>8. QED
    BY <1>1, <1>3, <1>6, <1>7 DEF NameInv

(* Every step keeps the tree.                                               *)
LEMMA NameStep == NameInv /\ [NameNext]_nameVars => NameInv'
<1> SUFFICES ASSUME NameInv, [NameNext]_nameVars PROVE NameInv'
    OBVIOUS
<1>1. CASE UNCHANGED nameVars
    BY <1>1 DEF nameVars, NameInv
<1>2. QED
    BY <1>1, AddKeeps, RemoveKeeps DEF NameNext

(***************************************************************************)
(* The search.  Answer is what it should say; it solves the equations of   *)
(* GoOn (NodeAnswers), and no other function does: a node where another    *)
(* one differs leads to a longer one on the way to the same name, and of   *)
(* the words that begin a name one is the last (LeastNumber).              *)
(***************************************************************************)
Answer(word) ==
    IF Fits(word) = {} THEN FoundAs(word)
    ELSE IF \E name : Fits(word) = {name} THEN FoundAs(CHOOSE name \in Fits(word) : TRUE)
    ELSE Ambiguous

(* One step of findOne, when the rest of the way gives what g says.         *)
Follow(g, node) ==
    LET next == Children(node) IN
    IF next = {} THEN FoundAs(node)
    ELSE IF Cardinality(next) > 1 \/ node \in breakpoints THEN Ambiguous
    ELSE g[CHOOSE child \in next : TRUE]

(* A child is a node that is one letter longer.                             *)
LEMMA ChildIs ==
    ASSUME NameInv, NEW node \in nodes, NEW child \in Children(node)
    PROVE  /\ child \in nodes /\ child \in Seq(Letters) /\ node \in Seq(Letters) /\ child # <<>>
           /\ IsPrefix(node, child) /\ Len(child) = Len(node) + 1
           /\ Fits(child) # {} /\ Fits(child) \subseteq Fits(node) /\ node \notin Fits(child)
<1>1. child \in nodes /\ child # <<>> /\ Front(child) = node
    BY DEF Children
<1>2. child \in Seq(Letters) /\ node \in Seq(Letters)
    BY <1>1, NodeIs
<1>3. IsPrefix(node, child) /\ Len(child) = Len(node) + 1
    BY <1>1, <1>2, FrontIs
<1>4. \A n \in mappedPlayerNames : n \in Seq(Letters)
    BY NamesAssumption DEF NameInv
<1>5. Fits(child) # {}
    BY <1>1, NodeIs DEF Fits
<1>6. Fits(child) \subseteq Fits(node)
    BY <1>2, <1>3, <1>4, PrefixOrder DEF Fits
<1>7. node \notin Fits(child)
    <2>1. ASSUME IsPrefix(child, node) PROVE FALSE
        <3>1. Len(child) <= Len(node) /\ Len(node) \in Nat
            BY <1>2, <2>1, PrefixIs
        <3>2. QED
            BY <1>3, <3>1
    <2>2. QED
        BY <2>1 DEF Fits
<1>8. QED
    BY <1>1, <1>2, <1>3, <1>5, <1>6, <1>7

(* A longer name goes through a child, and through one only.                *)
LEMMA ThroughChild ==
    ASSUME NameInv, NEW node \in nodes, NEW name \in Fits(node), name # node
    PROVE  \E child \in Children(node) : name \in Fits(child)
<1>1. name \in mappedPlayerNames /\ name \in Seq(Letters) /\ node \in Seq(Letters) /\ IsPrefix(node, name)
    BY NodeIs, NamesAssumption DEF NameInv, Fits
<1>2. PICK u \in Seq(Letters) : IsPrefix(u, name) /\ u # <<>> /\ Front(u) = node
    BY <1>1, NextLetter
<1>3. u \in nodes
    BY <1>1, <1>2, NodeIs
<1>4. QED
    BY <1>1, <1>2, <1>3 DEF Children, Fits

(* One only, as two words of one length that begin a name are the same.     *)
LEMMA OneChild ==
    ASSUME NameInv, NEW node \in nodes, NEW c \in Children(node), NEW d \in Children(node),
           NEW name \in Fits(c), name \in Fits(d)
    PROVE  c = d
<1>1. /\ c \in Seq(Letters) /\ d \in Seq(Letters) /\ node \in Seq(Letters)
      /\ Len(c) = Len(node) + 1 /\ Len(d) = Len(node) + 1
    BY ChildIs
<1>2. name \in Seq(Letters) /\ IsPrefix(c, name) /\ IsPrefix(d, name)
    BY NamesAssumption DEF NameInv, Fits
<1>3. Len(c) \in Nat /\ Len(d) \in Nat /\ Len(c) = Len(d)
    BY <1>1
<1>4. IsPrefix(c, d)
    BY <1>1, <1>2, <1>3, PrefixOrder
<1>5. QED
    BY <1>1, <1>3, <1>4, PrefixOrder

(* The three ways a node answers.                                           *)
LEMMA NodeAnswers ==
    ASSUME NameInv, NEW node \in nodes
    PROVE  \/ Children(node) = {} /\ Answer(node) = FoundAs(node)
           \/ /\ Children(node) # {}
              /\ Cardinality(Children(node)) > 1 \/ node \in breakpoints
              /\ Answer(node) = Ambiguous
           \/ \E child \in Children(node) :
                /\ Children(node) = {child} /\ Cardinality(Children(node)) = 1
                /\ node \notin breakpoints
                /\ Fits(child) = Fits(node) /\ Answer(child) = Answer(node)
<1>1. node \in Seq(Letters) /\ breakpoints = mappedPlayerNames
    BY NodeIs DEF NameInv
<1>2. IsFiniteSet(Children(node)) /\ Cardinality(Children(node)) \in Nat
    <2>1. Children(node) \in SUBSET nodes
        BY DEF Children
    <2>2. IsFiniteSet(Children(node))
        BY <2>1, FS_Subset DEF NameInv
    <2>3. QED
        BY <2>2, FS_CardinalityType
<1>3. CASE Children(node) = {}
    <2>1. \A n \in Fits(node) : n = node
        BY <1>3, ThroughChild
    <2>2. CASE Fits(node) = {}
        BY <1>3, <2>2 DEF Answer
    <2>3. CASE Fits(node) # {}
        <3>1. Fits(node) = {node}
            BY <2>1, <2>3
        <3>2. (CHOOSE n \in Fits(node) : TRUE) = node
            BY <3>1
        <3>3. QED
            BY <1>3, <3>1, <3>2 DEF Answer
    <2>4. QED
        BY <2>2, <2>3
<1>4. ASSUME NEW x \in Fits(node), NEW y \in Fits(node), x # y PROVE Answer(node) = Ambiguous
    BY <1>4 DEF Answer
<1>5. CASE Children(node) # {} /\ node \in breakpoints
    <2>1. PICK c \in Children(node) : TRUE
        BY <1>5
    <2>2. PICK x \in Fits(c) : TRUE
        BY <2>1, ChildIs
    <2>3. x \in Fits(node) /\ x # node
        BY <2>1, <2>2, ChildIs
    <2>4. node \in Fits(node)
        BY <1>1, <1>5, PrefixOrder DEF Fits
    <2>5. QED
        BY <1>4, <1>5, <2>3, <2>4
<1>6. CASE \E c, d \in Children(node) : c # d
    <2>1. PICK c \in Children(node), d \in Children(node) : c # d
        BY <1>6
    <2>2. PICK x \in Fits(c) : TRUE
        BY <2>1, ChildIs
    <2>3. PICK y \in Fits(d) : TRUE
        BY <2>1, ChildIs
    <2>4. x \in Fits(node) /\ y \in Fits(node)
        BY <2>1, <2>2, <2>3, ChildIs
    <2>5. x # y
        BY <2>1, <2>2, <2>3, OneChild
    <2>6. Cardinality(Children(node)) > 1
        <3>1. Cardinality(Children(node)) # 0 /\ Cardinality(Children(node)) # 1
            BY <1>2, <2>1, FS_EmptySet, FS_Singleton
        <3>2. QED
            BY <1>2, <3>1
    <2>7. QED
        BY <1>4, <2>1, <2>4, <2>5, <2>6
<1>7. ASSUME NEW child, Children(node) = {child}, node \notin breakpoints
      PROVE  /\ Cardinality(Children(node)) = 1
             /\ Fits(child) = Fits(node) /\ Answer(child) = Answer(node)
    <2>1. Cardinality(Children(node)) = 1
        BY <1>7, FS_Singleton
    <2>2. child \in Children(node)
        BY <1>7
    <2>3. Fits(child) # {} /\ Fits(child) \subseteq Fits(node)
        BY <2>2, ChildIs
    <2>4. node \notin Fits(node)
        BY <1>1, <1>7 DEF Fits
    <2>5. Fits(node) \subseteq Fits(child)
        BY <1>7, <2>4, ThroughChild
    <2>6. Fits(child) = Fits(node)
        BY <2>3, <2>5
    <2>7. QED
        BY <2>1, <2>3, <2>6 DEF Answer
<1>8. CASE \E child : Children(node) = {child} /\ node \notin breakpoints
    BY <1>7, <1>8
<1>9. QED
    BY <1>3, <1>5, <1>6, <1>8

(* What an only child says decides.                                         *)
LEMMA FollowsOne ==
    ASSUME NEW g, NEW node, NEW child, Children(node) = {child},
           Cardinality(Children(node)) = 1, node \notin breakpoints
    PROVE  Follow(g, node) = g[child]
<1>1. (CHOOSE c \in Children(node) : TRUE) = child
    OBVIOUS
<1>2. Children(node) # {} /\ ~(Cardinality(Children(node)) > 1)
    OBVIOUS
<1>3. QED
    BY <1>1, <1>2 DEF Follow

(* findOne gives the answer at every node.                                  *)
LEMMA GoOnAnswers ==
    ASSUME NameInv
    PROVE  GoOn = [node \in nodes |-> Answer(node)]
<1> DEFINE A == [node \in nodes |-> Answer(node)]
<1>0. \A node \in nodes : A[node] = Answer(node)
    OBVIOUS
<1> HIDE DEF A
<1>1. ASSUME NEW node \in nodes PROVE Follow(A, node) = Answer(node)
    <2>1. CASE Children(node) = {} /\ Answer(node) = FoundAs(node)
        BY <2>1 DEF Follow
    <2>2. CASE /\ Children(node) # {}
               /\ Cardinality(Children(node)) > 1 \/ node \in breakpoints
               /\ Answer(node) = Ambiguous
        BY <2>2 DEF Follow
    <2>3. ASSUME NEW child \in Children(node), Children(node) = {child},
                 Cardinality(Children(node)) = 1, node \notin breakpoints,
                 Answer(child) = Answer(node)
          PROVE  Follow(A, node) = Answer(node)
        BY <1>0, <2>3, FollowsOne, ChildIs
    <2>4. QED
        BY <2>1, <2>2, <2>3, NodeAnswers
<1>2. A = [node \in nodes |-> Follow(A, node)]
    BY <1>1 DEF A
<1>3. ASSUME NEW g, g = [node \in nodes |-> Follow(g, node)] PROVE g = A
    <2>1. \A node \in nodes : g[node] = Follow(g, node)
        BY <1>3
    <2>2. ASSUME NEW node \in nodes, g[node] # Answer(node)
          PROVE  \E child \in Children(node) :
                     /\ g[child] # Answer(child)
                     /\ Fits(child) = Fits(node)
        <3>1. PICK child \in Children(node) :
                  /\ Children(node) = {child} /\ Cardinality(Children(node)) = 1
                  /\ node \notin breakpoints
                  /\ Fits(child) = Fits(node) /\ Answer(child) = Answer(node)
            <4>1. ~(Children(node) = {} /\ Answer(node) = FoundAs(node))
                BY <2>1, <2>2 DEF Follow
            <4>2. ~ (/\ Children(node) # {}
                     /\ Cardinality(Children(node)) > 1 \/ node \in breakpoints
                     /\ Answer(node) = Ambiguous)
                BY <2>1, <2>2 DEF Follow
            <4>3. QED
                BY <4>1, <4>2, NodeAnswers
        <3>2. g[node] = g[child]
            BY <2>1, <3>1, FollowsOne
        <3>3. QED
            BY <2>2, <3>1, <3>2
    <2>3. ASSUME NEW start \in nodes, g[start] # Answer(start) PROVE FALSE
        <3>1. PICK first \in Children(start) : g[first] # Answer(first) /\ first \in nodes
            BY <2>2, <2>3, ChildIs
        <3>2. PICK name \in Fits(first) : name \in Seq(Letters)
            <4>1. Fits(first) # {}
                BY ChildIs
            <4>2. \A n \in Fits(first) : n \in Seq(Letters)
                BY NamesAssumption DEF Fits, NameInv
            <4>3. QED
                BY <4>1, <4>2
        <3> DEFINE wrong == {node \in nodes : name \in Fits(node) /\ g[node] # Answer(node)}
                   T == {k \in Nat : \E node \in wrong : k = Len(name) - Len(node)}
        <3>3. ASSUME NEW node \in wrong
              PROVE  node \in Seq(Letters) /\ Len(node) \in Nat /\ Len(name) - Len(node) \in Nat
            <4>1. node \in Seq(Letters) /\ IsPrefix(node, name)
                BY NodeIs DEF Fits
            <4>2. QED
                BY <3>2, <4>1, PrefixIs
        <3>4. first \in wrong
            BY <3>1, <3>2
        <3>5. T \subseteq Nat /\ Len(name) - Len(first) \in T
            BY <3>3, <3>4
        <3>6. PICK k \in T : \A m \in T : ~(m < k)
            <4> HIDE DEF T
            <4>1. QED
                BY <3>5, LeastNumber
        <3>7. PICK node \in wrong : k = Len(name) - Len(node)
            BY <3>6
        <3>8. PICK child \in Children(node) : g[child] # Answer(child) /\ Fits(child) = Fits(node)
            BY <2>2, <3>7
        <3>9. child \in wrong /\ Len(child) = Len(node) + 1
            BY <3>7, <3>8, ChildIs
        <3>10. Len(name) - Len(child) \in T /\ Len(name) - Len(child) < k
            <4>1. /\ Len(name) - Len(child) \in Nat
                  /\ Len(child) \in Nat /\ Len(node) \in Nat /\ Len(name) \in Nat
                BY <3>2, <3>3, <3>7, <3>9
            <4>2. QED
                BY <3>7, <3>9, <4>1
        <3>11. QED
            BY <3>6, <3>10
    <2>4. QED
        BY <1>3, <2>3 DEF A
<1>4. GoOn = CHOOSE g : g = [node \in nodes |-> Follow(g, node)]
    BY DEF GoOn, Follow
<1>5. GoOn = A
    BY <1>2, <1>3, <1>4
<1>6. QED
    BY <1>5 DEF A

(* What the list of the players in the game adds to it.                     *)
LEMMA WildcardIs ==
    ASSUME NEW word
    PROVE  /\ FindOne(word) = NotOnline => ByWildcard(word) = NotOnline
           /\ FindOne(word) = Ambiguous => ByWildcard(word) = Ambiguous
           /\ \A n : FindOne(word) = FoundAs(n) =>
                ByWildcard(word) = IF n \in mappedPlayerNames THEN FoundAs(n) ELSE NotOnline
<1>1. FindOne(word) = NotOnline => ByWildcard(word) = NotOnline
    BY DEF ByWildcard
<1>2. ASSUME FindOne(word) = Ambiguous PROVE ByWildcard(word) = Ambiguous
    <2>1. ~Ambiguous.found
        BY DEF Ambiguous
    <2>2. QED
        BY <1>2, <2>1 DEF ByWildcard
<1>3. ASSUME NEW n, FindOne(word) = FoundAs(n)
      PROVE  ByWildcard(word) = IF n \in mappedPlayerNames THEN FoundAs(n) ELSE NotOnline
    <2>1. FoundAs(n).found /\ FoundAs(n).name = n
        BY DEF FoundAs
    <2>2. QED
        BY <1>3, <2>1 DEF ByWildcard
<1>4. QED
    BY <1>1, <1>2, <1>3

(* And the search says it of every word.                                    *)
LEMMA NameInvFinds == NameInv => FoundByName
<1> SUFFICES ASSUME NameInv, NEW word \in Asked
             PROVE  ByWildcard(word) =
                      CASE Fits(word) = {} -> NotOnline
                        [] Cardinality(Fits(word)) = 1 -> FoundAs(CHOOSE name \in Fits(word) : TRUE)
                        [] OTHER -> Ambiguous
    BY DEF FoundByName, Fits
<1>1. word \in Seq(Letters) /\ <<>> \notin mappedPlayerNames
    BY NamesAssumption DEF NameInv
<1>2. IsFiniteSet(Fits(word))
    <2>1. Fits(word) \subseteq nodes
        <3>1. ASSUME NEW n \in mappedPlayerNames PROVE n \in nodes
            BY NodeIs, PrefixOrder, NamesAssumption DEF NameInv
        <3>2. QED
            BY <3>1 DEF Fits
    <2>2. QED
        BY <2>1, FS_Subset DEF NameInv
<1>3. /\ Cardinality(Fits(word)) = 1 <=> \E name : Fits(word) = {name}
      /\ Fits(word) = {} => Cardinality(Fits(word)) # 1
    BY <1>2, FS_Singleton, FS_EmptySet
<1>4. CASE Fits(word) = {}
    <2>1. ByWildcard(word) = NotOnline
        <3>1. CASE word \notin nodes
            BY <3>1, WildcardIs DEF FindOne
        <3>2. CASE word \in nodes
            <4>1. word = <<>>
                BY <1>4, <3>2, NodeIs DEF Fits
            <4>2. FindOne(word) = FoundAs(word)
                BY <1>4, <3>2, GoOnAnswers DEF FindOne, Answer
            <4>3. QED
                BY <1>1, <4>1, <4>2, WildcardIs
        <3>3. QED
            BY <3>1, <3>2
    <2>2. QED
        BY <1>3, <1>4, <2>1
<1>5. CASE Fits(word) # {}
    <2>1. word \in nodes
        BY <1>1, <1>5, NodeIs DEF Fits
    <2>2. FindOne(word) = Answer(word)
        BY <2>1, GoOnAnswers DEF FindOne
    <2>3. CASE Cardinality(Fits(word)) = 1
        <3>1. PICK n : Fits(word) = {n}
            BY <1>3, <2>3
        <3>2. (CHOOSE name \in Fits(word) : TRUE) = n /\ n \in mappedPlayerNames
            BY <3>1 DEF Fits
        <3>3. FindOne(word) = FoundAs(n)
            BY <2>2, <3>1, <3>2 DEF Answer
        <3>4. ByWildcard(word) = FoundAs(n)
            BY <3>2, <3>3, WildcardIs
        <3>5. QED
            BY <1>5, <2>3, <3>2, <3>4
    <2>4. CASE Cardinality(Fits(word)) # 1
        <3>1. FindOne(word) = Ambiguous
            BY <1>3, <1>5, <2>2, <2>4 DEF Answer
        <3>2. ByWildcard(word) = Ambiguous
            BY <3>1, WildcardIs
        <3>3. QED
            BY <1>5, <2>4, <3>2
    <2>5. QED
        BY <2>3, <2>4
<1>6. QED
    BY <1>4, <1>5

(* Whoever looks for players finds those there are, by place or by name,    *)
(* whoever comes, goes and moves (Map::getSpectators,                       *)
(* Game::getPlayerByNameWildcard).                                          *)
THEOREM SearchesTrueAlways == SearchSpec => []SearchesTrue
<1>1. SearchInit => SpectInv /\ NameInv
    BY SpectInitInv, NameInitInv DEF SearchInit
<1>2. SpectInv /\ NameInv /\ [SearchNext]_searchVars => (SpectInv /\ NameInv)'
    <2> SUFFICES ASSUME SpectInv, NameInv, [SearchNext]_searchVars PROVE SpectInv' /\ NameInv'
        OBVIOUS
    <2>1. [SpectNext]_spectVars /\ [NameNext]_nameVars
        BY DEF SearchNext, searchVars
    <2>2. QED
        BY <2>1, ListsKept, CachesKept, NameStep DEF SpectInv
<1>3. SpectInv /\ NameInv => SearchesTrue
    BY SpectInvTrue, NameInvFinds DEF SearchesTrue
<1>4. QED
    BY <1>1, <1>2, <1>3, PTL DEF SearchSpec

(***************************************************************************)
(* TileView.  First Among, by the recursion theorem of folds; then lists   *)
(* that grow by one thing or differ in one place, and what a client makes  *)
(* of being told so; then a tile as such a list, for items and for         *)
(* creatures; then one lemma for each action.                              *)
(***************************************************************************)
(* What the fold of Among stands for.                                      *)
AmongSolves(list, s, f) ==
    f = [p \in SUBSET (DOMAIN list) |->
            IF p = {} THEN <<>>
            ELSE IF list[Max(p)] \in s THEN Append(f[p \ {Max(p)}], list[Max(p)])
                 ELSE f[p \ {Max(p)}]]

(* Among is that fold.                                                     *)
LEMMA AmongIs ==
    ASSUME NEW list, NEW s
    PROVE  Among(list, s) = (CHOOSE f : AmongSolves(list, s, f))[DOMAIN list]
  BY Zenon DEF Among, AmongSolves, FoldLeft, MapThenFoldSet

(* What has been kept after each of the list.                              *)
AmongTrace(list, s, t) ==
    /\ t[0] = <<>>
    /\ \A n \in 1..Len(list) : t[n] = IF list[n] \in s THEN Append(t[n - 1], list[n]) ELSE t[n - 1]

(* Among goes through its list one by one.                                 *)
LEMMA AmongTraced ==
    ASSUME NEW S, NEW list \in Seq(S), NEW s
    PROVE  \E t \in [0..Len(list) -> Seq(S)] : AmongTrace(list, s, t) /\ Among(list, s) = t[Len(list)]
<1> DEFINE g == [p \in Seq(S) \X S |-> IF p[2] \in s THEN Append(p[1], p[2]) ELSE p[1]]
           P == SUBSET (DOMAIN list)
           D == Seq(S)
<1>1. Len(list) \in Nat /\ DOMAIN list = 1..Len(list) /\ \A n \in 1..Len(list) : list[n] \in S
  OBVIOUS
<1>2. ASSUME NEW d \in D, NEW c \in S
      PROVE  g[<<d, c>>] = IF c \in s THEN Append(d, c) ELSE d
  <2>1. <<d, c>> \in D \X S
    OBVIOUS
  <2> QED
    BY <2>1
<1>3. g \in [D \X S -> D]
  OBVIOUS
<1>4. <<>> \in D
  OBVIOUS
<1> HIDE DEF g, D
<1>5. PICK f \in [P -> D] : FoldSolves(g, <<>>, list, f)
  BY <1>1, <1>3, <1>4, FoldSolved
<1>6. ASSUME NEW p \in P
      PROVE  f[p] = IF p = {} THEN <<>>
                    ELSE IF list[Max(p)] \in s THEN Append(f[p \ {Max(p)}], list[Max(p)])
                    ELSE f[p \ {Max(p)}]
  <2>1. f[p] = IF p = {} THEN <<>> ELSE g[<<f[p \ {Max(p)}], list[Max(p)]>>]
    BY <1>5 DEF FoldSolves
  <2>2. CASE p # {}
    <3>1. Max(p) \in DOMAIN list
      BY <1>1, <2>2, MaxIn
    <3>2. list[Max(p)] \in S
      BY <3>1, <1>1
    <3>3. f[p \ {Max(p)}] \in D
      OBVIOUS
    <3> QED
      BY <2>1, <2>2, <3>2, <3>3, <1>2
  <2>3. CASE p = {}
    BY <2>1, <2>3
  <2> QED
    BY <2>2, <2>3
<1>7. f = [p \in P |-> f[p]]
  OBVIOUS
<1>8. AmongSolves(list, s, f)
  BY <1>6, <1>7, Zenon DEF AmongSolves
<1>9. PICK h : h = CHOOSE z : AmongSolves(list, s, z)
  OBVIOUS
<1>10. AmongSolves(list, s, h)
  BY <1>8, <1>9, Zenon
<1> DEFINE t == [n \in 0..Len(list) |-> h[1..n]]
<1>11. ASSUME NEW p \in P
       PROVE  h[p] = IF p = {} THEN <<>>
                     ELSE IF list[Max(p)] \in s THEN Append(h[p \ {Max(p)}], list[Max(p)])
                     ELSE h[p \ {Max(p)}]
  BY <1>10 DEF AmongSolves
<1>12. t[0] = <<>>
  <2>1. 1..0 = {} /\ {} \in P /\ 0 \in 0..Len(list)
    BY <1>1
  <2> QED
    BY <2>1, <1>11
<1>13. ASSUME NEW n \in 1..Len(list)
       PROVE  t[n] = IF list[n] \in s THEN Append(t[n - 1], list[n]) ELSE t[n - 1]
  <2>1. n \in 0..Len(list) /\ n - 1 \in 0..Len(list)
    BY <1>1
  <2>2. t[n] = h[1..n] /\ t[n - 1] = h[1..(n - 1)]
    BY <2>1
  <2>3. h[1..n] = IF list[n] \in s THEN Append(h[1..(n - 1)], list[n]) ELSE h[1..(n - 1)]
    BY <1>1, <1>11, Stretches
  <2> QED
    BY <2>2, <2>3
<1>14. Among(list, s) = t[Len(list)]
  <2>1. t[Len(list)] = h[DOMAIN list]
    BY <1>1
  <2> HIDE DEF t
  <2> QED
    BY <1>9, <2>1, AmongIs, Zenon
<1>15. DOMAIN t = 0..Len(list) /\ t = [n \in 0..Len(list) |-> t[n]]
  OBVIOUS
<1> HIDE DEF t
<1>16. \A n \in 0..Len(list) : t[n] \in Seq(S)
  <2> DEFINE Q == {n \in 0..Len(list) : t[n] \in Seq(S)}
  <2>0. <<>> \in Seq(S) /\ 0 \in 0..Len(list)
    BY <1>1
  <2>1. 0 \in Q
    BY <2>0, <1>12
  <2>2. ASSUME NEW n \in 1..Len(list), n - 1 \in Q PROVE n \in Q
    <3>1. t[n - 1] \in Seq(S) /\ list[n] \in S /\ n \in 0..Len(list)
      BY <1>1, <2>2
    <3>2. Append(t[n - 1], list[n]) \in Seq(S)
      BY <3>1
    <3>3. t[n] \in Seq(S)
      BY <3>1, <3>2, <1>13
    <3> QED
      BY <3>1, <3>3
  <2>3. ASSUME NEW n \in 0..Len(list) PROVE n \in Q
    <3>1. \A i \in 1..n : i - 1 \in Q => i \in Q
      BY <2>2, <1>1
    <3>2. n \in Nat
      BY <1>1
    <3> HIDE DEF Q
    <3> QED
      BY <3>1, <3>2, <2>1, CountUp
  <2> QED
    BY <2>3
<1> QED
  BY <1>12, <1>13, <1>14, <1>15, <1>16 DEF AmongTrace

(* What is kept of the first n depends on them alone.                      *)
LEMMA TraceUnique ==
    ASSUME NEW list, NEW s, NEW t, NEW u, NEW n \in Nat, n <= Len(list), Len(list) \in Nat,
           AmongTrace(list, s, t), NEW rest, AmongTrace(rest, s, u), n <= Len(rest), Len(rest) \in Nat,
           \A i \in 1..n : rest[i] = list[i]
    PROVE  t[n] = u[n]
<1> DEFINE Q == {k \in 0..n : t[k] = u[k]}
<1>1. 0 \in Q
  BY DEF AmongTrace
<1>2. ASSUME NEW k \in 1..n, k - 1 \in Q PROVE k \in Q
  <2>1. k \in 1..Len(list) /\ k \in 1..Len(rest) /\ rest[k] = list[k] /\ t[k - 1] = u[k - 1]
    BY <1>2
  <2> QED
    BY <2>1 DEF AmongTrace
<1> HIDE DEF Q
<1>3. n \in Q
  BY <1>1, <1>2, CountUp
<1> QED
  BY <1>3 DEF Q

(* Of an empty list nothing is kept.                                       *)
LEMMA AmongNothing == ASSUME NEW s PROVE Among(<<>>, s) = <<>>
<1>1. <<>> \in Seq({}) /\ Len(<<>>) = 0
  OBVIOUS
<1>2. PICK t : AmongTrace(<<>>, s, t) /\ Among(<<>>, s) = t[0]
  BY <1>1, AmongTraced
<1> QED
  BY <1>2 DEF AmongTrace

(* One more in the list.                                                   *)
LEMMA AmongOneMore ==
    ASSUME NEW S, NEW list \in Seq(S), NEW x \in S, NEW s
    PROVE  Among(Append(list, x), s) = IF x \in s THEN Append(Among(list, s), x) ELSE Among(list, s)
<1> DEFINE more == Append(list, x)
           n == Len(list)
<1>1. n \in Nat /\ more \in Seq(S) /\ Len(more) = n + 1 /\ more[n + 1] = x
      /\ \A i \in 1..n : more[i] = list[i]
  <2>1. n \in Nat /\ more \in Seq(S) /\ Len(more) = n + 1 /\ more[n + 1] = x
    OBVIOUS
  <2>2. \A i \in 1..n : more[i] = list[i]
    BY <2>1
  <2> QED
    BY <2>1, <2>2
<1> HIDE DEF more, n
<1>2. PICK t \in [0..n -> Seq(S)] : AmongTrace(list, s, t) /\ Among(list, s) = t[n]
  BY AmongTraced DEF n
<1>3. PICK u \in [0..(n + 1) -> Seq(S)] : AmongTrace(more, s, u) /\ Among(more, s) = u[n + 1]
  <2>1. more \in Seq(S) /\ Len(more) = n + 1
    BY <1>1
  <2>2. \E u \in [0..Len(more) -> Seq(S)] : AmongTrace(more, s, u) /\ Among(more, s) = u[Len(more)]
    BY <2>1, AmongTraced
  <2> QED
    BY <2>1, <2>2
<1>4. t[n] = u[n]
  BY <1>1, <1>2, <1>3, TraceUnique DEF n
<1>5. n + 1 \in 1..Len(more) /\ (n + 1) - 1 = n
  BY <1>1
<1>6. u[n + 1] = IF x \in s THEN Append(u[n], x) ELSE u[n]
  BY <1>1, <1>3, <1>5 DEF AmongTrace
<1> QED
  BY <1>2, <1>3, <1>4, <1>6 DEF more

(* A list is empty or has a last element.                                  *)
LEMMA LastOff ==
    ASSUME NEW S, NEW s \in Seq(S), NEW n \in Nat, Len(s) = n, n # 0
    PROVE  \E r \in Seq(S), x \in S : s = Append(r, x) /\ Len(r) = n - 1
<1> DEFINE r == SubSeq(s, 1, n - 1)
           b == Append(r, s[n])
<1>1. r \in Seq(S) /\ Len(r) = n - 1 /\ s[n] \in S /\ \A i \in 1..(n - 1) : r[i] = s[i]
  OBVIOUS
<1> HIDE DEF r
<1>2. b \in Seq(S) /\ Len(b) = n /\ \A i \in 1..n : b[i] = s[i]
  <2>1. b \in Seq(S) /\ Len(b) = n
    BY <1>1
  <2>2. ASSUME NEW i \in 1..n PROVE b[i] = s[i]
    BY <1>1
  <2> QED
    BY <2>1, <2>2
<1> HIDE DEF b
<1>3. s = b
  BY <1>2, SameSeq
<1> QED
  BY <1>1, <1>3 DEF b

(* What holds of no list's first is held of all: lists one element longer. *)
LEMMA LastFirst ==
    ASSUME NEW S, NEW T, <<>> \in T,
           \A r \in Seq(S), x \in S : r \in T => Append(r, x) \in T,
           NEW s \in Seq(S)
    PROVE  s \in T
<1> DEFINE N == {n \in Nat : \A r \in Seq(S) : Len(r) = n => r \in T}
<1>1. 0 \in N
  <2>1. \A r \in Seq(S) : Len(r) = 0 => r = <<>>
    OBVIOUS
  <2> QED
    BY <2>1
<1>2. ASSUME NEW n \in 1..Len(s), n - 1 \in N PROVE n \in N
  <2>1. ASSUME NEW r \in Seq(S), Len(r) = n PROVE r \in T
    <3>1. n \in Nat /\ n # 0
      OBVIOUS
    <3>2. PICK q \in Seq(S), x \in S : r = Append(q, x) /\ Len(q) = n - 1
      BY <3>1, <2>1, LastOff
    <3>3. q \in T
      BY <1>2, <3>2
    <3> QED
      BY <3>2, <3>3
  <2>2. n \in Nat
    OBVIOUS
  <2> QED
    BY <2>1, <2>2
<1> HIDE DEF N
<1>3. Len(s) \in N
  BY <1>1, <1>2, CountUp
<1> QED
  BY <1>3 DEF N

(* What is kept is of the list.                                            *)
LEMMA AmongType ==
    ASSUME NEW S, NEW list \in Seq(S), NEW s
    PROVE  Among(list, s) \in Seq(S)
<1>1. PICK t \in [0..Len(list) -> Seq(S)] : Among(list, s) = t[Len(list)]
  BY AmongTraced
<1>2. Len(list) \in 0..Len(list)
  OBVIOUS
<1> QED
  BY <1>1, <1>2

(* One list after the other.                                               *)
LEMMA AmongConcat ==
    ASSUME NEW S, NEW p \in Seq(S), NEW q \in Seq(S), NEW s
    PROVE  Among(p \o q, s) = Among(p, s) \o Among(q, s)
<1> DEFINE T == {r \in Seq(S) : Among(p \o r, s) = Among(p, s) \o Among(r, s)}
<1>1. <<>> \in T
  <2>1. p \o <<>> = p /\ <<>> \in Seq(S)
    BY ConcatNothing
  <2>2. Among(p, s) \o <<>> = Among(p, s)
    BY AmongType, ConcatNothing
  <2> QED
    BY <2>1, <2>2, AmongNothing
<1>2. ASSUME NEW r \in Seq(S), NEW x \in S, r \in T PROVE Append(r, x) \in T
  <2>1. p \o Append(r, x) = Append(p \o r, x) /\ p \o r \in Seq(S) /\ Append(r, x) \in Seq(S)
    BY ConcatPush
  <2>2. Among(p \o r, s) = Among(p, s) \o Among(r, s)
    BY <1>2
  <2>3. Among(p, s) \in Seq(S) /\ Among(r, s) \in Seq(S)
    BY AmongType
  <2>4. CASE x \in s
    <3>0. Among(Append(p \o r, x), s) = Append(Among(p \o r, s), x)
      BY <2>1, <2>4, AmongOneMore
    <3>1. Among(Append(r, x), s) = Append(Among(r, s), x)
      BY <2>4, AmongOneMore
    <3>2. Among(p, s) \o Append(Among(r, s), x) = Append(Among(p, s) \o Among(r, s), x)
      BY <2>3, ConcatPush
    <3> QED
      BY <2>1, <2>2, <3>0, <3>1, <3>2
  <2>5. CASE x \notin s
    <3>1. Among(Append(p \o r, x), s) = Among(p \o r, s) /\ Among(Append(r, x), s) = Among(r, s)
      BY <2>1, <2>5, AmongOneMore
    <3> QED
      BY <2>1, <2>2, <3>1
  <2> QED
    BY <2>4, <2>5
<1> HIDE DEF T
<1>3. q \in T
  BY <1>1, <1>2, LastFirst
<1> QED
  BY <1>3 DEF T

(* Two sets that agree on the list.                                        *)
LEMMA AmongAgree ==
    ASSUME NEW S, NEW list \in Seq(S), NEW s, NEW u, \A x \in ToSet(list) : x \in s <=> x \in u
    PROVE  Among(list, s) = Among(list, u)
<1>1. PICK t \in [0..Len(list) -> Seq(S)] : AmongTrace(list, s, t) /\ Among(list, s) = t[Len(list)]
  BY AmongTraced
<1>2. PICK w \in [0..Len(list) -> Seq(S)] : AmongTrace(list, u, w) /\ Among(list, u) = w[Len(list)]
  BY AmongTraced
<1>3. Len(list) \in Nat /\ \A i \in 1..Len(list) : list[i] \in ToSet(list)
  BY DEF ToSet
<1>4. AmongTrace(list, s, w)
  BY <1>2, <1>3 DEF AmongTrace
<1> QED
  BY <1>1, <1>2, <1>3, <1>4, TraceUnique

(* It is those of the list that are of the set.                            *)
LEMMA AmongElems ==
    ASSUME NEW S, NEW list \in Seq(S), NEW s
    PROVE  ToSet(Among(list, s)) = ToSet(list) \cap s /\ Len(Among(list, s)) <= Len(list)
<1> DEFINE T == {r \in Seq(S) : ToSet(Among(r, s)) = ToSet(r) \cap s /\ Len(Among(r, s)) <= Len(r)}
<1>1. <<>> \in T
  <2>1. ToSet(<<>>) = {} /\ Len(<<>>) <= Len(<<>>) /\ <<>> \in Seq(S)
    BY DEF ToSet
  <2> QED
    BY <2>1, AmongNothing
<1>2. ASSUME NEW r \in Seq(S), NEW x \in S, r \in T PROVE Append(r, x) \in T
  <2>1. Append(r, x) \in Seq(S) /\ ToSet(Append(r, x)) = ToSet(r) \cup {x}
        /\ Len(Append(r, x)) = Len(r) + 1 /\ Len(r) \in Nat
    BY PushElems
  <2>2. Among(r, s) \in Seq(S) /\ Len(Among(r, s)) \in Nat
    BY AmongType
  <2>3. CASE x \in s
    <3>1. Among(Append(r, x), s) = Append(Among(r, s), x)
      BY <2>3, AmongOneMore
    <3>2. ToSet(Append(Among(r, s), x)) = ToSet(Among(r, s)) \cup {x}
          /\ Len(Append(Among(r, s), x)) = Len(Among(r, s)) + 1
      BY <2>2, PushElems
    <3>3. ToSet(Among(Append(r, x), s)) = ToSet(Append(r, x)) \cap s
      BY <1>2, <2>1, <2>3, <3>1, <3>2
    <3>4. Len(Among(Append(r, x), s)) <= Len(Append(r, x))
      BY <1>2, <2>1, <2>2, <3>1, <3>2
    <3> QED
      BY <2>1, <3>3, <3>4
  <2>4. CASE x \notin s
    <3>1. Among(Append(r, x), s) = Among(r, s)
      BY <2>4, AmongOneMore
    <3> QED
      BY <1>2, <2>1, <2>2, <2>4, <3>1
  <2> QED
    BY <2>3, <2>4
<1> HIDE DEF T
<1>3. list \in T
  BY <1>1, <1>2, LastFirst
<1> QED
  BY <1>3 DEF T

(* All are kept of a list within the set.                                  *)
LEMMA AmongAll ==
    ASSUME NEW S, NEW list \in Seq(S), NEW s, ToSet(list) \subseteq s
    PROVE  Among(list, s) = list
<1> DEFINE T == {r \in Seq(S) : Among(r, S) = r}
<1>1. <<>> \in T
  BY AmongNothing
<1>2. ASSUME NEW r \in Seq(S), NEW x \in S, r \in T PROVE Append(r, x) \in T
  BY <1>2, AmongOneMore
<1> HIDE DEF T
<1>3. list \in T
  BY <1>1, <1>2, LastFirst
<1>4. \A x \in ToSet(list) : x \in S
  BY DEF ToSet
<1>5. Among(list, s) = Among(list, S)
  BY <1>4, AmongAgree
<1> QED
  BY <1>3, <1>5 DEF T

(* None is kept of a list outside the set.                                 *)
LEMMA AmongNone ==
    ASSUME NEW S, NEW list \in Seq(S), NEW s, ToSet(list) \cap s = {}
    PROVE  Among(list, s) = <<>>
<1>1. ToSet(Among(list, s)) = {} /\ Among(list, s) \in Seq(S)
  BY AmongElems, AmongType
<1>2. ASSUME NEW r \in Seq(S), ToSet(r) = {} PROVE r = <<>>
  <2>1. ASSUME NEW i \in 1..Len(r) PROVE FALSE
    BY <2>1, <1>2 DEF ToSet
  <2>2. Len(r) \in Nat
    OBVIOUS
  <2>3. Len(r) = 0
    BY <2>1, <2>2
  <2> QED
    BY <2>3
<1> QED
  BY <1>1, <1>2

(* How many there are.                                                     *)
PlacesIn(list, s) == {i \in DOMAIN list : list[i] \in s}

(* As many are kept as there are places that hold one of the set.          *)
LEMMA AmongCount ==
    ASSUME NEW S, NEW list \in Seq(S), NEW s
    PROVE  Cardinality(PlacesIn(list, s)) = Len(Among(list, s))
<1> DEFINE T == {r \in Seq(S) : IsFiniteSet(PlacesIn(r, s)) /\ Cardinality(PlacesIn(r, s)) = Len(Among(r, s))}
<1>1. <<>> \in T
  <2>1. PlacesIn(<<>>, s) = {} /\ <<>> \in Seq(S) /\ Len(<<>>) = 0
    BY DEF PlacesIn
  <2> QED
    BY <2>1, AmongNothing, FS_EmptySet
<1>2. ASSUME NEW r \in Seq(S), NEW x \in S, r \in T PROVE Append(r, x) \in T
  <2> DEFINE n == Len(r) + 1
             m == Append(r, x)
  <2>1. /\ n \in Nat /\ n >= 1 /\ DOMAIN r = 1..(n - 1) /\ DOMAIN m = 1..n /\ m \in Seq(S)
        /\ m[n] = x /\ \A i \in 1..(n - 1) : m[i] = r[i]
    OBVIOUS
  <2>2. Among(r, s) \in Seq(S) /\ Len(Among(r, s)) \in Nat
    BY AmongType
  <2>5. IsFiniteSet(PlacesIn(r, s)) /\ Cardinality(PlacesIn(r, s)) = Len(Among(r, s))
        /\ n \notin PlacesIn(r, s)
    BY <1>2, <2>1 DEF PlacesIn
  <2> HIDE DEF n
  <2>3. CASE x \in s
    <3>1. Among(m, s) = Append(Among(r, s), x)
      BY <2>3, AmongOneMore
    <3>2. Len(Among(m, s)) = Len(Among(r, s)) + 1
      BY <2>2, <3>1
    <3> HIDE DEF m
    <3>3. PlacesIn(m, s) = PlacesIn(r, s) \cup {n}
      <4>1. 1..n = (1..(n - 1)) \cup {n} /\ n \notin 1..(n - 1)
        BY <2>1
      <4>2. ASSUME NEW i PROVE i \in PlacesIn(m, s) <=> i \in PlacesIn(r, s) \cup {n}
        <5>1. CASE i = n
          BY <5>1, <4>1, <2>1, <2>3 DEF PlacesIn
        <5>2. CASE i # n
          BY <5>2, <4>1, <2>1 DEF PlacesIn
        <5> QED
          BY <5>1, <5>2
      <4> QED
        BY <4>2
    <3>4. IsFiniteSet(PlacesIn(m, s)) /\ Cardinality(PlacesIn(m, s)) = Cardinality(PlacesIn(r, s)) + 1
      BY <2>5, <3>3, FS_AddElement
    <3> QED
      BY <2>1, <2>5, <3>2, <3>4 DEF m
  <2>4. CASE x \notin s
    <3>1. Among(m, s) = Among(r, s)
      BY <2>4, AmongOneMore
    <3> HIDE DEF m
    <3>2. PlacesIn(m, s) = PlacesIn(r, s)
      BY <2>1, <2>4 DEF PlacesIn
    <3> QED
      BY <2>1, <2>5, <3>1, <3>2 DEF m
  <2> QED
    BY <2>3, <2>4
<1> HIDE DEF T
<1>3. list \in T
  BY <1>1, <1>2, LastFirst
<1> QED
  BY <1>3 DEF T

(* What a client may show of a tile.                                       *)
Things == Grounds \cup Tops \cup Downs \cup Viewers \cup Monsters \cup {NoGround}

(* The second list is the first one with a after the first n.              *)
Grows(s, r, n, a) ==
    /\ s \in Seq(Things) /\ r \in Seq(Things) /\ a \in Things
    /\ Len(s) \in Nat /\ Len(r) = Len(s) + 1
    /\ n \in 0..Len(s)
    /\ r[n + 1] = a
    /\ \A i \in 1..n : r[i] = s[i]
    /\ \A i \in (n + 1)..Len(s) : r[i + 1] = s[i]

(* ... with a in place of the one after the first n.                       *)
Differs(s, r, n, a) ==
    /\ s \in Seq(Things) /\ r \in Seq(Things) /\ a \in Things
    /\ Len(s) \in Nat /\ Len(r) = Len(s)
    /\ n \in 0..(Len(s) - 1)
    /\ r[n + 1] = a
    /\ \A i \in 1..Len(s) : i # n + 1 => r[i] = s[i]

(* InsertAt, place by place.                                               *)
LEMMA InsertAtIs ==
    ASSUME NEW S, NEW s \in Seq(S), NEW a \in S, NEW k \in 1..(Len(s) + 1)
    PROVE  /\ InsertAt(s, k, a) \in Seq(S) /\ Len(InsertAt(s, k, a)) = Len(s) + 1
           /\ InsertAt(s, k, a)[k] = a
           /\ \A i \in 1..(k - 1) : InsertAt(s, k, a)[i] = s[i]
           /\ \A i \in k..Len(s) : InsertAt(s, k, a)[i + 1] = s[i]
<1> DEFINE p == SubSeq(s, 1, k - 1)
           q == SubSeq(s, k, Len(s))
           m == p \o <<a>>
           w == m \o q
<1>1. /\ Len(s) \in Nat /\ k \in Nat /\ k >= 1 /\ k <= Len(s) + 1
      /\ p \in Seq(S) /\ Len(p) = k - 1 /\ \A i \in 1..(k - 1) : p[i] = s[i]
      /\ q \in Seq(S) /\ Len(q) = Len(s) - k + 1 /\ \A i \in 1..(Len(s) - k + 1) : q[i] = s[k + i - 1]
  OBVIOUS
<1> HIDE DEF p, q
<1>2. m \in Seq(S) /\ Len(m) = k /\ m[k] = a /\ \A i \in 1..(k - 1) : m[i] = s[i]
  BY <1>1
<1> HIDE DEF m
<1>3. w \in Seq(S) /\ Len(w) = Len(s) + 1
  <2>0. m \in Seq(S) /\ q \in Seq(S)
    BY <1>1, <1>2
  <2>1. w \in Seq(S) /\ Len(w) = Len(m) + Len(q)
    BY <2>0
  <2> HIDE DEF w
  <2> QED
    BY <2>1, <1>1, <1>2
<1>4. \A i \in 1..k : w[i] = m[i]
  BY <1>1, <1>2
<1>5. ASSUME NEW i \in k..Len(s) PROVE w[i + 1] = s[i]
  <2>1. i + 1 \in 1..(Len(m) + Len(q)) /\ i + 1 > Len(m) /\ i + 1 - Len(m) = i + 1 - k
        /\ i + 1 - k \in 1..Len(q)
    BY <1>1, <1>2
  <2>2. w[i + 1] = q[i + 1 - k]
    BY <2>1, <1>1, <1>2
  <2>3. q[i + 1 - k] = s[k + (i + 1 - k) - 1]
    BY <2>1, <1>1
  <2> QED
    BY <2>2, <2>3, <1>1
<1> HIDE DEF w
<1>6. InsertAt(s, k, a) = w
  BY Zenon DEF InsertAt, w, m, p, q
<1> QED
  BY <1>1, <1>2, <1>3, <1>4, <1>5, <1>6

(* A list grows by what is inserted.                                       *)
LEMMA InsertGrows ==
    ASSUME NEW s \in Seq(Things), NEW a \in Things, NEW k \in 1..(Len(s) + 1)
    PROVE  Grows(s, InsertAt(s, k, a), k - 1, a)
<1>1. Len(s) \in Nat /\ k - 1 \in 0..Len(s) /\ (k - 1) + 1 = k
  OBVIOUS
<1> QED
  BY <1>1, InsertAtIs DEF Grows

(* What was removed, put back, makes the list that was.                    *)
LEMMA RemoveGrows ==
    ASSUME NEW s \in Seq(Things), NEW k \in 1..Len(s)
    PROVE  Grows(RemoveAt(s, k), s, k - 1, s[k])
<1>1. Len(s) \in Nat /\ k - 1 \in 0..(Len(s) - 1) /\ (k - 1) + 1 = k /\ s[k] \in Things
  OBVIOUS
<1>2. /\ RemoveAt(s, k) \in Seq(Things) /\ Len(RemoveAt(s, k)) = Len(s) - 1
      /\ \A i \in 1..(Len(s) - 1) : RemoveAt(s, k)[i] = IF i < k THEN s[i] ELSE s[i + 1]
  BY RemoveAtIs
<1>3. PICK w : w = RemoveAt(s, k)
  OBVIOUS
<1>4. \A i \in 1..(k - 1) : s[i] = w[i]
  BY <1>1, <1>2, <1>3
<1>5. \A i \in ((k - 1) + 1)..Len(w) : s[i + 1] = w[i]
  BY <1>1, <1>2, <1>3
<1>6. Len(w) \in Nat /\ Len(s) = Len(w) + 1 /\ k - 1 \in 0..Len(w) /\ w \in Seq(Things)
  BY <1>1, <1>2, <1>3
<1>7. Grows(w, s, k - 1, s[k])
  BY <1>1, <1>4, <1>5, <1>6 DEF Grows
<1> QED
  BY <1>3, <1>7

(* That a list grows says how, by the operators of a client.               *)
LEMMA GrowsIs ==
    ASSUME NEW s, NEW r, NEW n, NEW a, Grows(s, r, n, a)
    PROVE  r = InsertAt(s, n + 1, a) /\ s = RemoveAt(r, n + 1)
<1> DEFINE w == InsertAt(s, n + 1, a)
           u == RemoveAt(r, n + 1)
<1>1. /\ s \in Seq(Things) /\ r \in Seq(Things) /\ a \in Things /\ n + 1 \in 1..(Len(s) + 1)
      /\ n + 1 \in 1..Len(r)
      /\ n \in Nat /\ Len(s) \in Nat /\ Len(r) = Len(s) + 1
  BY DEF Grows
<1>2. Grows(s, w, (n + 1) - 1, a) /\ (n + 1) - 1 = n
  BY <1>1, InsertGrows
<1>3. Grows(u, r, (n + 1) - 1, r[n + 1])
  BY <1>1, RemoveGrows
<1> HIDE DEF w, u
<1>4. ASSUME NEW i \in 1..Len(r) PROVE r[i] = w[i]
  <2>1. CASE i <= n
    BY <2>1, <1>1, <1>2 DEF Grows
  <2>2. CASE i = n + 1
    BY <2>2, <1>1, <1>2 DEF Grows
  <2>3. CASE i > n + 1
    <3>1. i - 1 \in (n + 1)..Len(s) /\ (i - 1) + 1 = i
      BY <2>3, <1>1
    <3> QED
      BY <3>1, <1>1, <1>2 DEF Grows
  <2> QED
    BY <2>1, <2>2, <2>3, <1>1
<1>5. r = w
  BY <1>1, <1>2, <1>4, SameSeq DEF Grows
<1>6. ASSUME NEW i \in 1..Len(s) PROVE s[i] = u[i]
  <2>1. Len(u) = Len(s)
    BY <1>1, <1>3 DEF Grows
  <2>2. CASE i <= n
    BY <2>1, <2>2, <1>1, <1>2, <1>3 DEF Grows
  <2>3. CASE i > n
    <3>1. i \in (n + 1)..Len(s) /\ (n + 1) - 1 + 1 = n + 1
      BY <2>3, <1>1
    <3> QED
      BY <2>1, <3>1, <1>1, <1>2, <1>3 DEF Grows
  <2> QED
    BY <2>2, <2>3, <1>1
<1>7. s = u
  <2>1. u \in Seq(Things) /\ Len(s) = Len(u)
    BY <1>1, <1>3 DEF Grows
  <2> QED
    BY <1>1, <1>6, <2>1, SameSeq
<1> QED
  BY <1>5, <1>7 DEF w, u

(* A list that grows still does with another after it.                     *)
LEMMA GrowsBefore ==
    ASSUME NEW s, NEW r, NEW n, NEW a, Grows(s, r, n, a), NEW m \in Seq(Things)
    PROVE  Grows(s \o m, r \o m, n, a)
<1> DEFINE x == s \o m  y == r \o m
<1>1. /\ s \in Seq(Things) /\ r \in Seq(Things) /\ Len(s) \in Nat /\ Len(m) \in Nat /\ n \in Nat
      /\ n <= Len(s)
      /\ Len(r) = Len(s) + 1
  BY DEF Grows
<1>2. /\ x \in Seq(Things) /\ y \in Seq(Things) /\ Len(x) = Len(s) + Len(m) /\ Len(y) = Len(s) + Len(m) + 1
      /\ \A i \in 1..Len(s) : x[i] = s[i]
      /\ \A i \in 1..Len(m) : x[Len(s) + i] = m[i]
  <2>1. x \in Seq(Things) /\ y \in Seq(Things) /\ Len(x) = Len(s) + Len(m) /\ Len(y) = Len(s) + Len(m) + 1
    BY <1>1
  <2>2. \A i \in 1..Len(s) : x[i] = s[i]
    BY <1>1
  <2>3. \A i \in 1..Len(m) : x[Len(s) + i] = m[i]
    BY <1>1
  <2> QED
    BY <2>1, <2>2, <2>3
<1>3. \A i \in 1..(Len(s) + 1) : y[i] = r[i]
  BY <1>1
<1>4. \A i \in 1..Len(m) : y[Len(s) + 1 + i] = m[i]
  BY <1>1
<1> HIDE DEF x, y
<1>5. ASSUME NEW i \in (n + 1)..Len(x) PROVE y[i + 1] = x[i]
  <2>1. CASE i <= Len(s)
    <3>1. i \in 1..Len(s) /\ i + 1 \in 1..(Len(s) + 1) /\ i \in (n + 1)..Len(s)
      BY <2>1, <1>1, <1>2
    <3>2. y[i + 1] = r[i + 1] /\ x[i] = s[i]
      BY <3>1, <1>2, <1>3
    <3> QED
      BY <3>1, <3>2 DEF Grows
  <2>2. CASE i > Len(s)
    <3>1. i - Len(s) \in 1..Len(m) /\ Len(s) + (i - Len(s)) = i /\ Len(s) + 1 + (i - Len(s)) = i + 1
      BY <2>2, <1>1, <1>2
    <3>2. x[i] = m[i - Len(s)] /\ y[i + 1] = m[i - Len(s)]
      BY <3>1, <1>2, <1>4
    <3> QED
      BY <3>2
  <2> QED
    BY <2>1, <2>2, <1>1, <1>2
<1>6. \A i \in 1..n : y[i] = x[i]
  BY <1>1, <1>2, <1>3 DEF Grows
<1>7. y[n + 1] = a
  BY <1>1, <1>3 DEF Grows
<1> QED
  BY <1>1, <1>2, <1>5, <1>6, <1>7 DEF Grows, x, y

(* A list that grows still does with another before it.                    *)
LEMMA GrowsAfter ==
    ASSUME NEW s, NEW r, NEW n, NEW a, Grows(s, r, n, a), NEW l \in Seq(Things)
    PROVE  Grows(l \o s, l \o r, Len(l) + n, a)
<1> DEFINE x == l \o s  y == l \o r
<1>1. /\ s \in Seq(Things) /\ r \in Seq(Things) /\ Len(s) \in Nat /\ Len(l) \in Nat /\ n \in Nat
      /\ n <= Len(s)
      /\ Len(r) = Len(s) + 1
  BY DEF Grows
<1>2. /\ x \in Seq(Things) /\ y \in Seq(Things) /\ Len(x) = Len(l) + Len(s) /\ Len(y) = Len(l) + Len(s) + 1
      /\ \A i \in 1..Len(l) : x[i] = l[i] /\ y[i] = l[i]
      /\ \A i \in 1..Len(s) : x[Len(l) + i] = s[i]
      /\ \A i \in 1..(Len(s) + 1) : y[Len(l) + i] = r[i]
  <2>1. x \in Seq(Things) /\ y \in Seq(Things) /\ Len(x) = Len(l) + Len(s) /\ Len(y) = Len(l) + Len(s) + 1
    BY <1>1
  <2>2. \A i \in 1..Len(l) : x[i] = l[i] /\ y[i] = l[i]
    BY <1>1
  <2>3. \A i \in 1..Len(s) : x[Len(l) + i] = s[i]
    BY <1>1
  <2>4. \A i \in 1..(Len(s) + 1) : y[Len(l) + i] = r[i]
    BY <1>1
  <2> QED
    BY <2>1, <2>2, <2>3, <2>4
<1> HIDE DEF x, y
<1>3. ASSUME NEW i \in 1..(Len(l) + n) PROVE y[i] = x[i]
  <2>1. CASE i <= Len(l)
    BY <2>1, <1>1, <1>2
  <2>2. CASE i > Len(l)
    <3>1. i - Len(l) \in 1..n /\ Len(l) + (i - Len(l)) = i
      BY <2>2, <1>1
    <3>2. y[i] = r[i - Len(l)] /\ x[i] = s[i - Len(l)]
      BY <3>1, <1>1, <1>2
    <3> QED
      BY <3>1, <3>2 DEF Grows
  <2> QED
    BY <2>1, <2>2, <1>1
<1>4. ASSUME NEW i \in (Len(l) + n + 1)..Len(x) PROVE y[i + 1] = x[i]
  <2>1. i - Len(l) \in (n + 1)..Len(s) /\ Len(l) + (i - Len(l)) = i /\ Len(l) + ((i - Len(l)) + 1) = i + 1
    BY <1>1, <1>2
  <2>3. i - Len(l) \in 1..Len(s) /\ (i - Len(l)) + 1 \in 1..(Len(s) + 1)
    BY <2>1, <1>1
  <2> DEFINE j == i - Len(l)
  <2>4. j \in 1..Len(s) /\ j + 1 \in 1..(Len(s) + 1) /\ Len(l) + j = i /\ Len(l) + (j + 1) = i + 1
    BY <2>1, <2>3
  <2> HIDE DEF j
  <2>5. x[Len(l) + j] = s[j]
    BY <2>4, <1>2
  <2>6. y[Len(l) + (j + 1)] = r[j + 1]
    BY <2>4, <1>2
  <2>2. y[i + 1] = r[(i - Len(l)) + 1] /\ x[i] = s[i - Len(l)]
    BY <2>4, <2>5, <2>6 DEF j
  <2> QED
    BY <2>1, <2>2 DEF Grows
<1>5. y[Len(l) + n + 1] = a
  <2>1. n + 1 \in 1..(Len(s) + 1) /\ Len(l) + (n + 1) = Len(l) + n + 1
    BY <1>1
  <2>2. y[Len(l) + n + 1] = r[n + 1]
    BY <2>1, <1>2
  <2> QED
    BY <2>2 DEF Grows
<1>6. Len(l) + n \in 0..Len(x)
  BY <1>1, <1>2
<1> QED
  BY <1>1, <1>2, <1>3, <1>4, <1>5, <1>6, SMTT(30) DEF Grows, x, y

(* A list that differs in one place still does with another after it.      *)
LEMMA DiffersBefore ==
    ASSUME NEW s, NEW r, NEW n, NEW a, Differs(s, r, n, a), NEW m \in Seq(Things)
    PROVE  Differs(s \o m, r \o m, n, a)
<1> DEFINE x == s \o m  y == r \o m
<1>1. /\ s \in Seq(Things) /\ r \in Seq(Things) /\ Len(s) \in Nat /\ Len(m) \in Nat /\ n \in Nat
      /\ n + 1 <= Len(s)
      /\ Len(r) = Len(s)
  BY DEF Differs
<1>2. /\ x \in Seq(Things) /\ y \in Seq(Things) /\ Len(x) = Len(s) + Len(m) /\ Len(y) = Len(s) + Len(m)
      /\ \A i \in 1..Len(s) : x[i] = s[i] /\ y[i] = r[i]
      /\ \A i \in 1..(Len(s) + Len(m)) : i > Len(s) => x[i] = y[i]
  <2>1. x \in Seq(Things) /\ y \in Seq(Things) /\ Len(x) = Len(s) + Len(m) /\ Len(y) = Len(s) + Len(m)
    BY <1>1
  <2>2. \A i \in 1..Len(s) : x[i] = s[i] /\ y[i] = r[i]
    BY <1>1
  <2>3. \A i \in 1..(Len(s) + Len(m)) : i > Len(s) => x[i] = y[i]
    BY <1>1
  <2> QED
    BY <2>1, <2>2, <2>3
<1> HIDE DEF x, y
<1>3. ASSUME NEW i \in 1..Len(x), i # n + 1 PROVE y[i] = x[i]
  <2>1. CASE i <= Len(s)
    <3>1. i \in 1..Len(s)
      BY <2>1, <1>1
    <3>2. y[i] = r[i] /\ x[i] = s[i]
      BY <3>1, <1>2
    <3> QED
      BY <3>1, <3>2, <1>3 DEF Differs
  <2>2. CASE i > Len(s)
    BY <2>2, <1>2
  <2> QED
    BY <2>1, <2>2, <1>1
<1>4. y[n + 1] = a
  BY <1>1, <1>2 DEF Differs
<1> QED
  BY <1>1, <1>2, <1>3, <1>4 DEF Differs, x, y

(* A list that differs in one place still does with another before it.     *)
LEMMA DiffersAfter ==
    ASSUME NEW s, NEW r, NEW n, NEW a, Differs(s, r, n, a), NEW l \in Seq(Things)
    PROVE  Differs(l \o s, l \o r, Len(l) + n, a)
<1> DEFINE x == l \o s  y == l \o r
<1>1. /\ s \in Seq(Things) /\ r \in Seq(Things) /\ Len(s) \in Nat /\ Len(l) \in Nat /\ n \in Nat
      /\ n + 1 <= Len(s)
      /\ Len(r) = Len(s)
  BY DEF Differs
<1>2. /\ x \in Seq(Things) /\ y \in Seq(Things) /\ Len(x) = Len(l) + Len(s) /\ Len(y) = Len(l) + Len(s)
      /\ \A i \in 1..Len(l) : x[i] = l[i] /\ y[i] = l[i]
      /\ \A i \in 1..Len(s) : x[Len(l) + i] = s[i] /\ y[Len(l) + i] = r[i]
  <2>1. x \in Seq(Things) /\ y \in Seq(Things) /\ Len(x) = Len(l) + Len(s) /\ Len(y) = Len(l) + Len(s)
    BY <1>1
  <2>2. \A i \in 1..Len(l) : x[i] = l[i] /\ y[i] = l[i]
    BY <1>1
  <2>3. \A i \in 1..Len(s) : x[Len(l) + i] = s[i] /\ y[Len(l) + i] = r[i]
    BY <1>1
  <2> QED
    BY <2>1, <2>2, <2>3
<1> HIDE DEF x, y
<1>3. ASSUME NEW i \in 1..Len(x), i # Len(l) + n + 1 PROVE y[i] = x[i]
  <2>1. CASE i <= Len(l)
    BY <2>1, <1>1, <1>2
  <2>2. CASE i > Len(l)
    <3>1. i - Len(l) \in 1..Len(s) /\ Len(l) + (i - Len(l)) = i /\ i - Len(l) # n + 1
      BY <2>2, <1>1, <1>2, <1>3
    <3>2. y[i] = r[i - Len(l)] /\ x[i] = s[i - Len(l)]
      BY <3>1, <1>2
    <3> QED
      BY <3>1, <3>2 DEF Differs
  <2> QED
    BY <2>1, <2>2, <1>1
<1>4. y[Len(l) + n + 1] = a
  <2>1. n + 1 \in 1..Len(s) /\ Len(l) + (n + 1) = Len(l) + n + 1
    BY <1>1
  <2>2. y[Len(l) + n + 1] = r[n + 1]
    BY <2>1, <1>2
  <2> QED
    BY <2>2 DEF Differs
<1>5. Len(l) + n \in 0..(Len(x) - 1)
  BY <1>1, <1>2
<1> QED
  BY <1>1, <1>2, <1>3, <1>4, <1>5 DEF Differs, x, y

(* What fits on a screen.                                                  *)
LEMMA CutIs ==
    ASSUME NEW s \in Seq(Things)
    PROVE  /\ Cut(s) \in Seq(Things) /\ Len(s) \in Nat
           /\ Len(Cut(s)) = IF Len(s) > Limit THEN Limit ELSE Len(s)
           /\ \A i \in 1..Len(Cut(s)) : Cut(s)[i] = s[i]
           /\ Len(s) <= Limit => Cut(s) = s
<1>1. Limit \in Nat /\ Limit >= 1 /\ Len(s) \in Nat
  BY TileViewAssumption
<1>2. CASE Len(s) > Limit
  BY <1>1, <1>2 DEF Cut
<1>3. CASE ~(Len(s) > Limit)
  BY <1>1, <1>3 DEF Cut
<1> QED
  BY <1>1, <1>2, <1>3

(* A list grows at its end.                                                *)
LEMMA PushGrows ==
    ASSUME NEW s \in Seq(Things), NEW a \in Things
    PROVE  Grows(s, Append(s, a), Len(s), a)
<1> DEFINE r == Append(s, a)
<1>1. r \in Seq(Things) /\ Len(s) \in Nat /\ Len(r) = Len(s) + 1 /\ r[Len(s) + 1] = a
      /\ \A i \in 1..Len(s) : r[i] = s[i]
  OBVIOUS
<1> HIDE DEF r
<1>2. Len(s) \in 0..Len(s) /\ \A i \in (Len(s) + 1)..Len(s) : r[i + 1] = s[i]
  BY <1>1
<1> QED
  BY <1>1, <1>2 DEF Grows, r

(* The list around the place.                                              *)
Splits(s, r, n, a) == \E p, q \in Seq(Things) : s = p \o q /\ r = Append(p, a) \o q /\ Len(p) = n

(* A list that grows is parted there.                                      *)
LEMMA GrowsSplit ==
    ASSUME NEW s, NEW r, NEW n, NEW a, Grows(s, r, n, a)
    PROVE  Splits(s, r, n, a)
<1> DEFINE p == SubSeq(s, 1, n)
           q == SubSeq(s, n + 1, Len(s))
           m == p \o q
<1>1. s \in Seq(Things) /\ r \in Seq(Things) /\ a \in Things /\ n \in Nat /\ n <= Len(s)
      /\ Len(s) \in Nat /\ Len(r) = Len(s) + 1
  BY DEF Grows
<1>2. /\ p \in Seq(Things) /\ Len(p) = n /\ \A i \in 1..n : p[i] = s[i]
      /\ q \in Seq(Things) /\ Len(q) = Len(s) - n /\ \A i \in 1..(Len(s) - n) : q[i] = s[n + i]
  BY <1>1
<1> HIDE DEF p, q
<1>3. m \in Seq(Things) /\ Len(m) = Len(p) + Len(q)
  <2>1. p \in Seq(Things) /\ q \in Seq(Things)
    BY <1>2
  <2> QED
    BY <2>1
<1>4. ASSUME NEW i \in 1..Len(s) PROVE m[i] = s[i]
  <2>1. CASE i <= n
    BY <2>1, <1>1, <1>2
  <2>2. CASE i > n
    <3>1. i - n \in 1..(Len(s) - n) /\ n + (i - n) = i /\ i <= Len(p) + Len(q) /\ i > Len(p)
          /\ i - Len(p) = i - n
      BY <2>2, <1>1, <1>2
    <3>2. m[i] = q[i - n]
      BY <3>1, <1>1, <1>2
    <3> QED
      BY <3>1, <3>2, <1>2
  <2>3. i \in Int /\ n \in Int
    BY <1>1
  <2> QED
    <3> HIDE DEF m
    <3> QED
      BY <2>1, <2>2, <2>3
<1> HIDE DEF m
<1>5. Len(m) = Len(s)
  BY <1>1, <1>2, <1>3
<1>6. s = m
  BY <1>1, <1>3, <1>4, <1>5, SameSeq
<1>7. Grows(p, Append(p, a), n, a)
  BY <1>1, <1>2, PushGrows
<1>8. Grows(s, Append(p, a) \o q, n, a)
  BY <1>2, <1>6, <1>7, GrowsBefore DEF m
<1>9. PICK w : w = Append(p, a) \o q
  OBVIOUS
<1>10. w = InsertAt(s, n + 1, a)
  <2>1. Grows(s, w, n, a)
    BY <1>8, <1>9, Zenon
  <2> QED
    BY <2>1, GrowsIs, ZenonT(30)
<1>11. r = InsertAt(s, n + 1, a)
  BY GrowsIs, ZenonT(30)
<1> QED
  BY <1>2, <1>6, <1>9, <1>10, <1>11, Zenon DEF m, Splits

(* What comes beyond the limit is not shown.                               *)
LEMMA CutGrown ==
    ASSUME NEW s, NEW r, NEW n, NEW a, Grows(s, r, n, a), n >= Limit
    PROVE  Cut(r) = Cut(s)
<1>1. s \in Seq(Things) /\ r \in Seq(Things) /\ n \in Nat /\ n <= Len(s) /\ Len(s) \in Nat
      /\ Len(r) = Len(s) + 1
  BY DEF Grows
<1>2. Limit \in Nat /\ Limit >= 1
  BY TileViewAssumption
<1> DEFINE x == Cut(s)  y == Cut(r)
<1>3. /\ x \in Seq(Things) /\ Len(x) = Limit /\ \A i \in 1..Len(x) : x[i] = s[i]
      /\ y \in Seq(Things) /\ Len(y) = Limit /\ \A i \in 1..Len(y) : y[i] = r[i]
  <2>1. Len(s) >= Limit /\ Len(r) > Limit
    BY <1>1, <1>2
  <2> QED
    BY <2>1, <1>1, <1>2, CutIs
<1> HIDE DEF x, y
<1>4. ASSUME NEW i \in 1..Len(x) PROVE x[i] = y[i]
  <2>1. i \in 1..n
    BY <1>1, <1>2, <1>3
  <2>2. r[i] = s[i]
    BY <2>1 DEF Grows
  <2> QED
    BY <2>2, <1>3
<1>5. x = y
  BY <1>3, <1>4, SameSeq
<1> QED
  BY <1>5 DEF x, y

(* A client that is told of an addition at the right place shows the new   *)
(* list.                                                                   *)
LEMMA AddTold ==
    ASSUME NEW s, NEW r, NEW n, NEW a, Grows(s, r, n, a), NEW shown \in {Lost, Cut(s)}
    PROVE  /\ ClientAdd(shown, n, a) \in {Lost, Cut(r)}
           /\ shown # Lost => ClientAdd(shown, n, a) = Cut(r)
<1>1. /\ s \in Seq(Things) /\ r \in Seq(Things) /\ n \in Nat /\ n <= Len(s) /\ Len(s) \in Nat
      /\ Len(r) = Len(s) + 1
      /\ a \in Things
  BY DEF Grows
<1>2. Limit \in Nat /\ Limit >= 1
  BY TileViewAssumption
<1>3. CASE shown = Lost
  BY <1>3 DEF ClientAdd, Known
<1>4. CASE shown # Lost
  <2> DEFINE x == Cut(s)
             k == IF n > Len(x) THEN Len(x) + 1 ELSE n + 1
             w == InsertAt(x, k, a)
  <2>1. /\ x \in Seq(Things) /\ Len(x) = (IF Len(s) > Limit THEN Limit ELSE Len(s))
        /\ \A i \in 1..Len(x) : x[i] = s[i]
    BY <1>1, CutIs
  <2>2. shown = x
    BY <1>4
  <2> HIDE DEF x
  <2>3. Len(x) \in Nat /\ k \in Nat /\ k \in 1..(Len(x) + 1)
    BY <2>1, <1>1, <1>2
  <2>4. Len(x) <= Limit /\ (k = n + 1 \/ (k > Limit /\ n >= Limit))
    BY <2>1, <1>1, <1>2
  <2> HIDE DEF k
  <2>5. /\ w \in Seq(Things) /\ Len(w) = Len(x) + 1 /\ w[k] = a
        /\ \A i \in 1..(k - 1) : w[i] = x[i]
        /\ \A i \in k..Len(x) : w[i + 1] = x[i]
    <3>1. x \in Seq(Things) /\ a \in Things /\ k \in 1..(Len(x) + 1)
      BY <2>1, <2>3, <1>1
    <3> QED
      BY <3>1, InsertAtIs
  <2> HIDE DEF w
  <2> DEFINE y == Cut(w)  z == Cut(r)
  <2>6. /\ y \in Seq(Things) /\ Len(y) = (IF Len(w) > Limit THEN Limit ELSE Len(w))
        /\ \A i \in 1..Len(y) : y[i] = w[i]
    BY <2>5, CutIs
  <2>7. /\ z \in Seq(Things) /\ Len(z) = (IF Len(r) > Limit THEN Limit ELSE Len(r))
        /\ \A i \in 1..Len(z) : z[i] = r[i]
    BY <1>1, CutIs
  <2> HIDE DEF y, z
  <2>8. Len(y) = Len(z) /\ Len(y) \in Nat /\ Len(y) <= Limit /\ Len(y) <= Len(s) + 1 /\ Len(y) <= Len(x) + 1
    BY <2>1, <2>5, <2>6, <2>7, <1>1, <1>2
  <2>9. ASSUME NEW i \in 1..Len(y) PROVE w[i] = r[i]
    <3>1. CASE i <= n /\ i < k
      <4>1. i \in 1..(k - 1) /\ i \in 1..Len(x) /\ i \in 1..n
        BY <3>1, <2>3, <1>1
      <4> QED
        BY <4>1, <2>1, <2>5 DEF Grows
    <3>2. CASE i = n + 1 /\ i = k
      BY <3>2, <2>5 DEF Grows
    <3>3. CASE i > n + 1 /\ i > k
      <4>1. i - 1 \in k..Len(x) /\ i - 1 \in 1..Len(x) /\ i - 1 \in (n + 1)..Len(s) /\ (i - 1) + 1 = i
        BY <3>3, <2>1, <2>3, <2>8, <1>1
      <4>2. w[(i - 1) + 1] = x[i - 1] /\ r[(i - 1) + 1] = s[i - 1]
        BY <4>1, <2>5 DEF Grows
      <4> QED
        BY <4>1, <4>2, <2>1
    <3> QED
      BY <3>1, <3>2, <3>3, <2>3, <2>4, <2>8, <1>1, <1>2
  <2>10. y = z
    <3>1. \A i \in 1..Len(y) : y[i] = z[i]
      BY <2>6, <2>7, <2>8, <2>9
    <3> QED
      BY <3>1, <2>6, <2>7, <2>8, SameSeq
  <2>11. ClientAdd(shown, n, a) = Cut(w)
    BY <1>4, <2>2 DEF ClientAdd, Known, w, k
  <2> QED
    BY <2>10, <2>11 DEF y, z
<1> QED
  BY <1>3, <1>4

(* A client that is told of a removal from a list shown whole shows what   *)
(* is left.                                                                *)
LEMMA RemoveTold ==
    ASSUME NEW s, NEW r, NEW n, NEW a, Grows(s, r, n, a), Len(r) <= Limit, NEW shown \in {Lost, Cut(r)}
    PROVE  /\ ClientRemove(shown, n) \in {Lost, Cut(s)} /\ n \in 0..(Limit - 1)
           /\ shown # Lost => ClientRemove(shown, n) = Cut(s)
<1>1. /\ s \in Seq(Things) /\ r \in Seq(Things) /\ n \in Nat /\ n <= Len(s) /\ Len(s) \in Nat
      /\ Len(r) = Len(s) + 1
      /\ Limit \in Nat
  BY TileViewAssumption DEF Grows
<1>2. Cut(r) = r /\ Cut(s) = s /\ n < Len(r)
  BY <1>1, CutIs
<1>3. s = RemoveAt(r, n + 1)
  BY GrowsIs
<1>4. n \in 0..(Limit - 1)
  BY <1>1
<1> QED
  BY <1>2, <1>3, <1>4 DEF ClientRemove, Known

(* So does a client that forgets a creature by its id.                     *)
LEMMA ForgetTold ==
    ASSUME NEW s, NEW r, NEW n, NEW a, Grows(s, r, n, a), Len(r) <= Limit, NEW shown \in {Lost, Cut(r)},
           a \notin ToSet(s), a # NoGround
    PROVE  /\ ClientForget(shown, a) \in {Lost, Cut(s)}
           /\ shown # Lost => ClientForget(shown, a) = Cut(s)
<1>1. /\ s \in Seq(Things) /\ r \in Seq(Things) /\ n \in Nat /\ n <= Len(s) /\ Len(s) \in Nat
      /\ Len(r) = Len(s) + 1
      /\ Limit \in Nat /\ a \in Things
  BY TileViewAssumption DEF Grows
<1>2. Cut(r) = r /\ Cut(s) = s
  BY <1>1, CutIs
<1>3. PICK p, q \in Seq(Things) : s = p \o q /\ r = Append(p, a) \o q /\ Len(p) = n
  <2>1. Splits(s, r, n, a)
    BY GrowsSplit, Zenon
  <2> QED
    BY <2>1, Zenon DEF Splits
<1>4. ToSet(p) \subseteq ToSet(s) /\ ToSet(q) \subseteq ToSet(s) /\ ToSet(s) \subseteq ToSet(r)
  <2>1. \A i \in 1..Len(p) : p[i] = s[i] /\ i \in 1..Len(s)
    BY <1>3
  <2>2. ASSUME NEW i \in 1..Len(q) PROVE s[Len(p) + i] = q[i] /\ Len(p) + i \in 1..Len(s)
    BY <1>3
  <2>3. \A i \in 1..n : s[i] = r[i] /\ i \in 1..Len(r)
    BY <1>1 DEF Grows
  <2>4. \A i \in (n + 1)..Len(s) : s[i] = r[i + 1] /\ i + 1 \in 1..Len(r)
    BY <1>1 DEF Grows
  <2>5. \A i \in 1..Len(s) : i \in 1..n \/ i \in (n + 1)..Len(s)
    BY <1>1
  <2>6. ToSet(p) \subseteq ToSet(s)
    BY <2>1 DEF ToSet
  <2>7. ToSet(q) \subseteq ToSet(s)
    BY <2>2 DEF ToSet
  <2>10. DOMAIN r = 1..Len(r)
    BY <1>1
  <2>8. ASSUME NEW i \in 1..Len(s) PROVE s[i] \in ToSet(r)
    <3>1. CASE i \in 1..n
      BY <3>1, <2>3, <2>10, Zenon DEF ToSet
    <3>2. CASE i \in (n + 1)..Len(s)
      BY <3>2, <2>4, <2>10, Zenon DEF ToSet
    <3> QED
      BY <3>1, <3>2, <2>5
  <2>9. ToSet(s) \subseteq ToSet(r)
    BY <2>8, <1>1, SMTT(30) DEF ToSet
  <2> QED
    BY <2>6, <2>7, <2>9
<1> DEFINE T == ToSet(r) \ {a}
<1>5. ToSet(p) \subseteq T /\ ToSet(q) \subseteq T /\ a \notin T
  BY <1>4
<1> HIDE DEF T
<1>6. Among(p, T) = p /\ Among(q, T) = q
  BY <1>5, AmongAll
<1>7. Among(Append(p, a), T) = p
  BY <1>1, <1>5, <1>6, AmongOneMore
<1>8. Append(p, a) \in Seq(Things)
  BY <1>1
<1>9. Among(r, T) = p \o q
  <2>1. PICK w : w = Append(p, a)
    OBVIOUS
  <2>2. w \in Seq(Things) /\ q \in Seq(Things)
    BY <2>1, <1>3, <1>8
  <2>3. Among(w \o q, T) = Among(w, T) \o Among(q, T)
    BY <2>2, AmongConcat, SMTT(30)
  <2> QED
    BY <1>3, <1>6, <1>7, <2>1, <2>3, Zenon
<1>10. ClientForget(r, a) = s
  BY <1>3, <1>9 DEF ClientForget, Without, T
<1>11. ClientForget(Lost, a) = Lost
  <2>1. Lost \in Seq({NoGround}) /\ ToSet(Lost) \subseteq ToSet(Lost) \ {a}
    BY DEF Lost, ToSet
  <2> QED
    BY <2>1, AmongAll DEF ClientForget, Without
<1> QED
  BY <1>2, <1>10, <1>11

(* A client has nothing to forget of a creature that it does not show.     *)
LEMMA ForgetOther ==
    ASSUME NEW shown \in Seq(Things), NEW a, a \notin ToSet(shown)
    PROVE  ClientForget(shown, a) = shown
<1>1. ToSet(shown) \subseteq ToSet(shown) \ {a}
  OBVIOUS
<1> QED
  BY <1>1, AmongAll DEF ClientForget, Without

(* A client that is told of a change at the right place shows the new      *)
(* list.                                                                   *)
LEMMA ChangeTold ==
    ASSUME NEW s, NEW r, NEW n, NEW a, Differs(s, r, n, a), NEW shown \in {Lost, Cut(s)}
    PROVE  /\ n < Limit => ClientChange(shown, n, a) \in {Lost, Cut(r)}
           /\ (n < Limit /\ shown # Lost) => ClientChange(shown, n, a) = Cut(r)
           /\ n >= Limit => Cut(r) = Cut(s)
<1>1. /\ s \in Seq(Things) /\ r \in Seq(Things) /\ n \in Nat /\ n < Len(s) /\ Len(s) \in Nat
      /\ Len(r) = Len(s)
      /\ Limit \in Nat /\ a \in Things
  BY TileViewAssumption DEF Differs
<1> DEFINE x == Cut(s)  y == Cut(r)
<1>2. /\ x \in Seq(Things) /\ Len(x) = (IF Len(s) > Limit THEN Limit ELSE Len(s))
      /\ \A i \in 1..Len(x) : x[i] = s[i]
      /\ y \in Seq(Things) /\ Len(y) = Len(x) /\ \A i \in 1..Len(y) : y[i] = r[i]
  BY <1>1, CutIs
<1> HIDE DEF x, y
<1>3. Len(x) \in Nat /\ Len(x) <= Limit /\ Len(x) <= Len(s)
  BY <1>1, <1>2
<1>4. ASSUME n >= Limit PROVE x = y
  <2>1. ASSUME NEW i \in 1..Len(x) PROVE x[i] = y[i]
    <3>1. i # n + 1 /\ i \in 1..Len(s)
      BY <1>1, <1>3, <1>4
    <3>2. r[i] = s[i]
      BY <3>1 DEF Differs
    <3> QED
      BY <3>2, <1>2
  <2> QED
    BY <2>1, <1>2, SameSeq
<1>5. ASSUME n < Limit, shown # Lost PROVE ClientChange(shown, n, a) = y
  <2> DEFINE z == [x EXCEPT ![n + 1] = a]
  <2>1. n < Len(x) /\ shown = x /\ n + 1 \in 1..Len(x)
    BY <1>1, <1>2, <1>5 DEF x
  <2>2. z \in Seq(Things) /\ Len(z) = Len(x) /\ z[n + 1] = a /\ \A i \in 1..Len(x) : i # n + 1 => z[i] = x[i]
    BY <2>1, <1>1, <1>2
  <2> HIDE DEF z
  <2>3. ASSUME NEW i \in 1..Len(x) PROVE z[i] = y[i]
    <3>1. i \in 1..Len(s)
      BY <1>1, <1>3
    <3>2. CASE i = n + 1
      BY <3>2, <2>2, <1>2 DEF Differs
    <3>3. CASE i # n + 1
      BY <3>1, <3>3, <2>2, <1>2 DEF Differs
    <3> QED
      BY <3>2, <3>3
  <2>4. z = y
    BY <2>2, <2>3, <1>2, SameSeq
  <2>5. ClientChange(shown, n, a) = z
    BY <1>5, <2>1 DEF ClientChange, Known, z
  <2> QED
    BY <2>4, <2>5
<1>6. ClientChange(Lost, n, a) = Lost
  BY DEF ClientChange, Known
<1> QED
  BY <1>1, <1>4, <1>5, <1>6 DEF x, y

(* A creature put last stands between those that were there and the other  *)
(* items.                                                                  *)
LEMMA PutLastTold ==
    ASSUME NEW u \in Seq(Things), NEW d \in Seq(Downs), ToSet(u) \cap Downs = {}, NEW c \in Things,
           NEW shown \in {Lost, Cut(u \o d)}
    PROVE  /\ ClientPutLast(shown, c) \in {Lost, Cut(Append(u, c) \o d)}
           /\ shown # Lost => ClientPutLast(shown, c) = Cut(Append(u, c) \o d)
<1>1. d \in Seq(Things) /\ Len(u) \in Nat /\ Len(d) \in Nat /\ Limit \in Nat /\ Limit >= 1
  <2>1. Downs \subseteq Things
    BY DEF Things
  <2> QED
    BY <2>1, TileViewAssumption
<1>2. Grows(u \o d, Append(u, c) \o d, Len(u), c)
  BY <1>1, PushGrows, GrowsBefore
<1>3. CASE shown = Lost
  BY <1>3 DEF ClientPutLast, ClientAdd, Known
<1>4. CASE shown # Lost
  <2> DEFINE s == u \o d
             x == Cut(s)
             I == {i \in DOMAIN x : x[i] \notin Downs}
             m == IF Len(u) > Limit THEN Limit ELSE Len(u)
  <2>1. /\ s \in Seq(Things) /\ Len(s) = Len(u) + Len(d) /\ \A i \in 1..Len(u) : s[i] = u[i]
        /\ \A i \in 1..Len(d) : s[Len(u) + i] = d[i]
    BY <1>1
  <2> HIDE DEF s
  <2>2. x \in Seq(Things) /\ Len(x) = (IF Len(s) > Limit THEN Limit ELSE Len(s))
        /\ \A i \in 1..Len(x) : x[i] = s[i]
    BY <2>1, CutIs
  <2>3. shown = x
    BY <1>4 DEF s
  <2> HIDE DEF x
  <2>4. m \in Nat /\ Len(u) \in Int /\ Len(d) \in Int /\ m <= Len(x) /\ m <= Len(u)
        /\ (m = Len(u) \/ (m = Len(x) /\ m = Limit /\ Len(u) > Limit)) /\ Len(x) \in Nat /\ Len(x) <= Len(s)
    BY <1>1, <2>1, <2>2
  <2>12. DOMAIN x = 1..Len(x)
    BY <2>2
  <2>13. 1..m \subseteq 1..Len(x)
    BY <2>4
  <2> HIDE DEF m
  <2>5. ASSUME NEW i PROVE i \in I <=> i \in 1..m
    <3>1. CASE i \in 1..m
      <4>0. i \in Int /\ 1 <= i /\ i <= m
        BY <3>1, <2>4
      <4>1. i \in 1..Len(x) /\ i \in 1..Len(u)
        BY <4>0, <2>4
      <4>2. x[i] = u[i] /\ u[i] \in ToSet(u)
        BY <4>1, <2>1, <2>2 DEF ToSet
      <4> QED
        BY <3>1, <4>1, <4>2, <2>12
    <3>2. CASE i \in 1..Len(x) /\ i \notin 1..m
      <4>0. i \in Int /\ 1 <= i /\ i > m /\ i <= Len(x)
        BY <3>2, <2>4
      <4>1. m = Len(u) /\ i > Len(u) /\ i <= Len(u) + Len(d)
        BY <4>0, <2>1, <2>4
      <4>2. i - Len(u) \in 1..Len(d) /\ Len(u) + (i - Len(u)) = i
        BY <3>2, <4>1, <1>1
      <4>3. x[i] = d[i - Len(u)]
        BY <3>2, <4>2, <2>1, <2>2
      <4>4. d[i - Len(u)] \in Downs
        BY <4>2
      <4> QED
        BY <3>2, <4>3, <4>4
    <3>3. CASE i \notin 1..Len(x)
      BY <3>3, <2>12, <2>13, Zenon
    <3> QED
      BY <3>1, <3>2, <3>3
  <2>6. I = 1..m
    BY <2>5
  <2>7. Cardinality(I) = m
    <3>1. m \in Nat
      BY <2>4
    <3>2. 1 \in Int /\ m \in Int /\ (1 > m => m = 0) /\ m - 1 + 1 = m
      BY <3>1
    <3> QED
      BY <2>6, <3>2, FS_Interval
  <2>8. ClientPutLast(shown, c) = ClientAdd(x, m, c)
    BY <2>3, <2>7 DEF ClientPutLast
  <2>9. CASE m = Len(u)
    BY <1>2, <1>4, <2>3, <2>8, <2>9, AddTold DEF s, x
  <2>10. CASE m = Len(x) /\ m = Limit /\ Len(u) > Limit
    <3> DEFINE w == Append(x, c)
    <3>1. Grows(x, w, m, c)
      BY <2>2, <2>10, PushGrows
    <3>2. Cut(x) = x
      BY <2>2, <2>10, CutIs
    <3>3. ClientAdd(x, m, c) = Cut(w)
      BY <1>4, <2>3, <3>1, <3>2, AddTold
    <3>4. Cut(w) = Cut(x)
      BY <3>1, <2>10, <1>1, CutGrown
    <3>5. Cut(Append(u, c) \o d) = Cut(s)
      BY <1>1, <1>2, <2>10, CutGrown DEF s
    <3> QED
      BY <2>8, <3>2, <3>3, <3>4, <3>5 DEF x
  <2> QED
    BY <2>4, <2>9, <2>10
<1> QED
  BY <1>3, <1>4

(* Who stands on tiles, and what a tile is.                                *)
Creatures == Viewers \cup Monsters
Tile == [ground : Grounds \cup {NoGround}, top : Seq(Tops), beings : Seq(Creatures), down : Seq(Downs)]

(* The creatures of a tile that a player sees.                             *)
Seen(x, v, who) == Among(x.beings, SeenBy(v, who))

(* What a player can see of a tile is four lists, one after the other.     *)
LEMMA TileParts ==
    ASSUME NEW x \in Tile, NEW v, NEW who
    PROVE  /\ GroundOf(x) \in Seq(Things) /\ x.top \in Seq(Things) /\ x.down \in Seq(Things)
           /\ x.beings \in Seq(Creatures) /\ x.beings \in Seq(Things) /\ x.down \in Seq(Downs)
           /\ x.top \in Seq(Tops)
           /\ Seen(x, v, who) \in Seq(Things) /\ Seen(x, v, who) \in Seq(Creatures)
           /\ Visible(x, v, who) = ((GroundOf(x) \o x.top) \o Seen(x, v, who)) \o x.down
           /\ Visible(x, v, who) \in Seq(Things)
<1>1. x.ground \in Grounds \cup {NoGround} /\ x.top \in Seq(Tops) /\ x.beings \in Seq(Creatures)
      /\ x.down \in Seq(Downs)
  BY DEF Tile
<1>2. Grounds \subseteq Things /\ Tops \subseteq Things /\ Downs \subseteq Things
      /\ Creatures \subseteq Things
  BY DEF Things, Creatures
<1>3. x.top \in Seq(Things) /\ x.down \in Seq(Things) /\ x.beings \in Seq(Things)
  BY <1>1, <1>2
<1>4. GroundOf(x) \in Seq(Things)
  <2>1. CASE x.ground = NoGround
    BY <2>1 DEF GroundOf
  <2>2. CASE x.ground # NoGround
    BY <2>2, <1>1, <1>2 DEF GroundOf
  <2> QED
    BY <2>1, <2>2
<1>5. Seen(x, v, who) \in Seq(Creatures)
  BY <1>1, AmongType DEF Seen
<1>6. Seen(x, v, who) \in Seq(Things)
  BY <1>5, <1>2
<1>7. Visible(x, v, who) = ((GroundOf(x) \o x.top) \o Seen(x, v, who)) \o x.down
  BY Zenon DEF Visible, Seen
<1>8. Visible(x, v, who) \in Seq(Things)
  <2>1. GroundOf(x) \o x.top \in Seq(Things)
    BY <1>3, <1>4
  <2>2. (GroundOf(x) \o x.top) \o Seen(x, v, who) \in Seq(Things)
    BY <2>1, <1>6
  <2>3. ((GroundOf(x) \o x.top) \o Seen(x, v, who)) \o x.down \in Seq(Things)
    BY <2>2, <1>3
  <2> QED
    BY <2>3, <1>7
<1> QED
  BY <1>1, <1>3, <1>4, <1>5, <1>6, <1>7, <1>8

(* A ground is put on a tile that had none.                                *)
LEMMA GroundGrows ==
    ASSUME NEW x \in Tile, NEW y \in Tile, NEW v, NEW who,
           x.ground = NoGround, y.ground # NoGround, y.top = x.top, y.beings = x.beings, y.down = x.down
    PROVE  Grows(Visible(x, v, who), Visible(y, v, who), 0, y.ground)
<1>1. GroundOf(x) = <<>> /\ GroundOf(y) = <<y.ground>>
  BY DEF GroundOf
<1>2. y.ground \in Things
  BY DEF Tile, Things
<1>3. Grows(<<>>, <<y.ground>>, 0, y.ground)
  <2>1. <<>> \in Seq(Things) /\ Len(<<>>) = 0 /\ Append(<<>>, y.ground) = <<y.ground>>
    OBVIOUS
  <2> QED
    BY <2>1, <1>2, PushGrows
<1>4. Seen(y, v, who) = Seen(x, v, who)
  BY DEF Seen
<1>5. x.top \in Seq(Things) /\ x.down \in Seq(Things) /\ Seen(x, v, who) \in Seq(Things)
  BY TileParts
<1>6. Grows(GroundOf(x) \o x.top, GroundOf(y) \o x.top, 0, y.ground)
  BY <1>1, <1>3, <1>5, GrowsBefore
<1>7. Grows((GroundOf(x) \o x.top) \o Seen(x, v, who), (GroundOf(y) \o x.top) \o Seen(x, v, who), 0, y.ground)
  BY <1>5, <1>6, GrowsBefore
<1>8. Grows(((GroundOf(x) \o x.top) \o Seen(x, v, who)) \o x.down, ((GroundOf(y) \o x.top) \o Seen(x, v, who)) \o x.down, 0, y.ground)
  BY <1>5, <1>7, GrowsBefore
<1> QED
  BY <1>4, <1>8, TileParts, Zenon

(* A ground takes the place of another.                                    *)
LEMMA GroundDiffers ==
    ASSUME NEW x \in Tile, NEW y \in Tile, NEW v, NEW who,
           x.ground # NoGround, y.ground # NoGround, y.top = x.top, y.beings = x.beings, y.down = x.down
    PROVE  Differs(Visible(x, v, who), Visible(y, v, who), 0, y.ground)
<1>1. GroundOf(x) = <<x.ground>> /\ GroundOf(y) = <<y.ground>>
  BY DEF GroundOf
<1>2. x.ground \in Things /\ y.ground \in Things
  BY DEF Tile, Things
<1>3. Differs(<<x.ground>>, <<y.ground>>, 0, y.ground)
  BY <1>2 DEF Differs
<1>4. Seen(y, v, who) = Seen(x, v, who)
  BY DEF Seen
<1>5. x.top \in Seq(Things) /\ x.down \in Seq(Things) /\ Seen(x, v, who) \in Seq(Things)
  BY TileParts
<1>6. Differs(GroundOf(x) \o x.top, GroundOf(y) \o x.top, 0, y.ground)
  BY <1>1, <1>3, <1>5, DiffersBefore
<1>7. Differs((GroundOf(x) \o x.top) \o Seen(x, v, who), (GroundOf(y) \o x.top) \o Seen(x, v, who), 0, y.ground)
  BY <1>5, <1>6, DiffersBefore
<1>8. Differs(((GroundOf(x) \o x.top) \o Seen(x, v, who)) \o x.down, ((GroundOf(y) \o x.top) \o Seen(x, v, who)) \o x.down, 0, y.ground)
  BY <1>5, <1>7, DiffersBefore
<1> QED
  BY <1>4, <1>8, TileParts, Zenon

(* An item is put among those that lie under the creatures.                *)
LEMMA TopGrows ==
    ASSUME NEW x \in Tile, NEW y \in Tile, NEW v, NEW who, NEW n, NEW a, Grows(x.top, y.top, n, a),
           y.ground = x.ground, y.beings = x.beings, y.down = x.down
    PROVE  Grows(Visible(x, v, who), Visible(y, v, who), Len(GroundOf(x)) + n, a)
<1>1. GroundOf(y) = GroundOf(x)
  BY DEF GroundOf
<1>4. Seen(y, v, who) = Seen(x, v, who)
  BY DEF Seen
<1>5. GroundOf(x) \in Seq(Things) /\ x.down \in Seq(Things) /\ Seen(x, v, who) \in Seq(Things)
  BY TileParts
<1> DEFINE m == Len(GroundOf(x)) + n
<1>6. Grows(GroundOf(x) \o x.top, GroundOf(x) \o y.top, m, a)
  BY <1>5, GrowsAfter
<1> HIDE DEF m
<1>7. Grows((GroundOf(x) \o x.top) \o Seen(x, v, who), (GroundOf(x) \o y.top) \o Seen(x, v, who), m, a)
  BY <1>5, <1>6, GrowsBefore
<1>8. Grows(((GroundOf(x) \o x.top) \o Seen(x, v, who)) \o x.down, ((GroundOf(x) \o y.top) \o Seen(x, v, who)) \o x.down, m, a)
  BY <1>5, <1>7, GrowsBefore
<1> QED
  BY <1>1, <1>4, <1>8, TileParts, Zenon DEF m

(* One of those is changed.                                                *)
LEMMA TopDiffers ==
    ASSUME NEW x \in Tile, NEW y \in Tile, NEW v, NEW who, NEW n, NEW a, Differs(x.top, y.top, n, a),
           y.ground = x.ground, y.beings = x.beings, y.down = x.down
    PROVE  Differs(Visible(x, v, who), Visible(y, v, who), Len(GroundOf(x)) + n, a)
<1>1. GroundOf(y) = GroundOf(x)
  BY DEF GroundOf
<1>4. Seen(y, v, who) = Seen(x, v, who)
  BY DEF Seen
<1>5. GroundOf(x) \in Seq(Things) /\ x.down \in Seq(Things) /\ Seen(x, v, who) \in Seq(Things)
  BY TileParts
<1> DEFINE m == Len(GroundOf(x)) + n
<1>6. Differs(GroundOf(x) \o x.top, GroundOf(x) \o y.top, m, a)
  BY <1>5, DiffersAfter
<1> HIDE DEF m
<1>7. Differs((GroundOf(x) \o x.top) \o Seen(x, v, who), (GroundOf(x) \o y.top) \o Seen(x, v, who), m, a)
  BY <1>5, <1>6, DiffersBefore
<1>8. Differs(((GroundOf(x) \o x.top) \o Seen(x, v, who)) \o x.down, ((GroundOf(x) \o y.top) \o Seen(x, v, who)) \o x.down, m, a)
  BY <1>5, <1>7, DiffersBefore
<1> QED
  BY <1>1, <1>4, <1>8, TileParts, Zenon DEF m

(* How much lies under the creatures, and under the other items.           *)
Under(x) == Len(GroundOf(x)) + Len(x.top)

(* These are the lengths of the lists that it is made of.                  *)
LEMMA UnderIs ==
    ASSUME NEW x \in Tile, NEW v, NEW who
    PROVE  /\ GroundOf(x) \o x.top \in Seq(Things) /\ Len(GroundOf(x) \o x.top) = Under(x)
           /\ (GroundOf(x) \o x.top) \o Seen(x, v, who) \in Seq(Things)
           /\ Len((GroundOf(x) \o x.top) \o Seen(x, v, who)) = Under(x) + Len(Seen(x, v, who))
           /\ Len(GroundOf(x)) \in {0, 1} /\ Len(x.top) \in Nat /\ Under(x) \in Nat
           /\ Len(Seen(x, v, who)) \in Nat
<1>1. GroundOf(x) \in Seq(Things) /\ x.top \in Seq(Things) /\ Seen(x, v, who) \in Seq(Things)
  BY TileParts
<1>2. GroundOf(x) \o x.top \in Seq(Things) /\ Len(GroundOf(x) \o x.top) = Under(x)
  BY <1>1 DEF Under
<1>3. (GroundOf(x) \o x.top) \o Seen(x, v, who) \in Seq(Things)
      /\ Len((GroundOf(x) \o x.top) \o Seen(x, v, who)) = Under(x) + Len(Seen(x, v, who))
  BY <1>1, <1>2
<1>4. Len(GroundOf(x)) \in {0, 1}
  BY DEF GroundOf
<1> QED
  BY <1>1, <1>2, <1>3, <1>4 DEF Under

(* A player sees one creature more.                                        *)
LEMMA BeingsGrow ==
    ASSUME NEW x \in Tile, NEW y \in Tile, NEW v, NEW who, NEW n, NEW a, NEW others,
           Grows(Seen(x, v, who), Seen(y, v, others), n, a),
           y.ground = x.ground, y.top = x.top, y.down = x.down
    PROVE  Grows(Visible(x, v, who), Visible(y, v, others), Under(x) + n, a)
<1>1. GroundOf(y) = GroundOf(x)
  BY DEF GroundOf
<1>2. x.down \in Seq(Things)
  BY TileParts
<1> DEFINE l == GroundOf(x) \o x.top
<1>3. l \in Seq(Things) /\ Len(l) = Under(x)
  BY UnderIs
<1> HIDE DEF l
<1>4. Grows(l \o Seen(x, v, who), l \o Seen(y, v, others), Under(x) + n, a)
  BY <1>3, GrowsAfter
<1> DEFINE m == Under(x) + n
<1> HIDE DEF m
<1>5. Grows((l \o Seen(x, v, who)) \o x.down, (l \o Seen(y, v, others)) \o x.down, m, a)
  BY <1>2, <1>4, GrowsBefore DEF m
<1> QED
  BY <1>1, <1>5, TileParts, Zenon DEF m, l

(* An item is put among those that lie over the creatures.                 *)
LEMMA DownGrows ==
    ASSUME NEW x \in Tile, NEW y \in Tile, NEW v, NEW who, NEW n, NEW a, Grows(x.down, y.down, n, a),
           y.ground = x.ground, y.beings = x.beings, y.top = x.top
    PROVE  Grows(Visible(x, v, who), Visible(y, v, who), Under(x) + Len(Seen(x, v, who)) + n, a)
<1>1. GroundOf(y) = GroundOf(x) /\ Seen(y, v, who) = Seen(x, v, who)
  BY DEF GroundOf, Seen
<1> DEFINE l == (GroundOf(x) \o x.top) \o Seen(x, v, who)
<1>2. l \in Seq(Things) /\ Len(l) = Under(x) + Len(Seen(x, v, who))
  BY UnderIs
<1> HIDE DEF l
<1>3. Grows(l \o x.down, l \o y.down, Len(l) + n, a)
  BY <1>2, GrowsAfter
<1> QED
  BY <1>1, <1>2, <1>3, TileParts, Zenon DEF l

(* One of those is changed.                                                *)
LEMMA DownDiffers ==
    ASSUME NEW x \in Tile, NEW y \in Tile, NEW v, NEW who, NEW n, NEW a, Differs(x.down, y.down, n, a),
           y.ground = x.ground, y.beings = x.beings, y.top = x.top
    PROVE  Differs(Visible(x, v, who), Visible(y, v, who), Under(x) + Len(Seen(x, v, who)) + n, a)
<1>1. GroundOf(y) = GroundOf(x) /\ Seen(y, v, who) = Seen(x, v, who)
  BY DEF GroundOf, Seen
<1> DEFINE l == (GroundOf(x) \o x.top) \o Seen(x, v, who)
<1>2. l \in Seq(Things) /\ Len(l) = Under(x) + Len(Seen(x, v, who))
  BY UnderIs
<1> HIDE DEF l
<1>3. Differs(l \o x.down, l \o y.down, Len(l) + n, a)
  BY <1>2, DiffersAfter
<1> QED
  BY <1>1, <1>2, <1>3, TileParts, Zenon DEF l

(* The number of a place as it is sent.                                    *)
AsSent(n) == IF n < Limit THEN n ELSE -1

(* Tile::getStackposOfItem counts the creatures that the player sees.      *)
LEMMA SeenBeforeIs ==
    ASSUME NEW x \in Tile, NEW v
    PROVE  SeenBefore(x, v) = Len(Seen(x, v, hidden))
<1>1. x.beings \in Seq(Creatures)
  BY DEF Tile
<1>2. ASSUME NEW i \in DOMAIN x.beings
      PROVE  CanSeeCreature(v, x.beings[i], hidden) <=> x.beings[i] \in SeenBy(v, hidden)
  <2>1. x.beings[i] \in Creatures
    BY <1>1
  <2> QED
    BY <2>1 DEF SeenBy, Creatures
<1>3. {i \in DOMAIN x.beings : CanSeeCreature(v, x.beings[i], hidden)} = PlacesIn(x.beings, SeenBy(v, hidden))
  BY <1>2 DEF PlacesIn
<1> QED
  BY <1>1, <1>3, AmongCount DEF SeenBefore, Seen

(* The number that Tile::getStackposOfItem gives.                          *)
LEMMA StackposIs ==
    ASSUME NEW x \in Tile, NEW k, NEW v
    PROVE  /\ StackposOfItem(x, "ground", k, v) = 0
           /\ StackposOfItem(x, "top", k, v) = AsSent(Len(GroundOf(x)) + k - 1)
           /\ StackposOfItem(x, "down", k, v) = AsSent(Under(x) + Len(Seen(x, v, hidden)) + k - 1)
<1>1. 0 < Limit
  BY TileViewAssumption
<1>2. StackposOfItem(x, "ground", k, v) = 0
  BY <1>1 DEF StackposOfItem
<1>3. StackposOfItem(x, "top", k, v) = AsSent(Len(GroundOf(x)) + k - 1)
  BY DEF StackposOfItem, AsSent
<1>4. StackposOfItem(x, "down", k, v) = AsSent(Under(x) + Len(Seen(x, v, hidden)) + k - 1)
  BY SeenBeforeIs DEF StackposOfItem, AsSent, Under
<1> QED
  BY <1>2, <1>3, <1>4

(* Two tiles that are the same but for one of their lists of items.        *)
SameBut(list, x, y) ==
    /\ y.ground = x.ground /\ y.beings = x.beings
    /\ list = "top" => y.down = x.down
    /\ list = "down" => y.top = x.top

(* An item has the same number on the tile with it and without it, and is  *)
(* there.                                                                  *)
LEMMA ItemGrows ==
    ASSUME NEW x \in Tile, NEW y \in Tile, NEW v, NEW list \in {"top", "down"}, NEW k \in Nat \ {0}, NEW a,
           SameBut(list, x, y), Grows(x[list], y[list], k - 1, a)
    PROVE  \E n \in Nat : /\ Grows(Visible(x, v, hidden), Visible(y, v, hidden), n, a)
                          /\ StackposOfItem(x, list, k, v) = AsSent(n)
                          /\ StackposOfItem(y, list, k, v) = AsSent(n)
<1>1. CASE list = "top"
  <2> DEFINE n == Len(GroundOf(x)) + (k - 1)
  <2>1. n \in Nat /\ n = Len(GroundOf(x)) + k - 1
    BY UnderIs
  <2>2. Grows(Visible(x, v, hidden), Visible(y, v, hidden), n, a)
    BY <1>1, TopGrows DEF SameBut
  <2>3. GroundOf(y) = GroundOf(x)
    BY DEF SameBut, GroundOf
  <2>4. StackposOfItem(x, list, k, v) = AsSent(n) /\ StackposOfItem(y, list, k, v) = AsSent(n)
    BY <1>1, <2>1, <2>3, StackposIs
  <2> QED
    BY <2>1, <2>2, <2>4
<1>2. CASE list = "down"
  <2> DEFINE n == Under(x) + Len(Seen(x, v, hidden)) + (k - 1)
  <2>1. n \in Nat /\ n = Under(x) + Len(Seen(x, v, hidden)) + k - 1
    BY UnderIs
  <2>2. Grows(Visible(x, v, hidden), Visible(y, v, hidden), n, a)
    BY <1>2, DownGrows DEF SameBut
  <2>3. Under(y) = Under(x) /\ Seen(y, v, hidden) = Seen(x, v, hidden)
    BY <1>2 DEF SameBut, GroundOf, Under, Seen
  <2>4. StackposOfItem(x, list, k, v) = AsSent(n) /\ StackposOfItem(y, list, k, v) = AsSent(n)
    BY <1>2, <2>1, <2>3, StackposIs
  <2> QED
    BY <2>1, <2>2, <2>4
<1> QED
  BY <1>1, <1>2

(* An item that is changed keeps its number, and is there.                 *)
LEMMA ItemDiffers ==
    ASSUME NEW x \in Tile, NEW y \in Tile, NEW v, NEW list \in {"top", "down"}, NEW k \in Nat \ {0}, NEW a,
           SameBut(list, x, y), Differs(x[list], y[list], k - 1, a)
    PROVE  \E n \in Nat : /\ Differs(Visible(x, v, hidden), Visible(y, v, hidden), n, a)
                          /\ StackposOfItem(x, list, k, v) = AsSent(n)
                          /\ StackposOfItem(y, list, k, v) = AsSent(n)
<1>1. CASE list = "top"
  <2> DEFINE n == Len(GroundOf(x)) + (k - 1)
  <2>1. n \in Nat /\ n = Len(GroundOf(x)) + k - 1
    BY UnderIs
  <2>2. Differs(Visible(x, v, hidden), Visible(y, v, hidden), n, a)
    BY <1>1, TopDiffers DEF SameBut
  <2>3. GroundOf(y) = GroundOf(x)
    BY DEF SameBut, GroundOf
  <2>4. StackposOfItem(x, list, k, v) = AsSent(n) /\ StackposOfItem(y, list, k, v) = AsSent(n)
    BY <1>1, <2>1, <2>3, StackposIs
  <2> QED
    BY <2>1, <2>2, <2>4
<1>2. CASE list = "down"
  <2> DEFINE n == Under(x) + Len(Seen(x, v, hidden)) + (k - 1)
  <2>1. n \in Nat /\ n = Under(x) + Len(Seen(x, v, hidden)) + k - 1
    BY UnderIs
  <2>2. Differs(Visible(x, v, hidden), Visible(y, v, hidden), n, a)
    BY <1>2, DownDiffers DEF SameBut
  <2>3. Under(y) = Under(x) /\ Seen(y, v, hidden) = Seen(x, v, hidden)
    BY <1>2 DEF SameBut, GroundOf, Under, Seen
  <2>4. StackposOfItem(x, list, k, v) = AsSent(n) /\ StackposOfItem(y, list, k, v) = AsSent(n)
    BY <1>2, <2>1, <2>3, StackposIs
  <2> QED
    BY <2>1, <2>2, <2>4
<1> QED
  BY <1>1, <1>2

(* What a spectator is told of an item.                                    *)
LEMMA AddedTrue ==
    ASSUME NEW s, NEW r, NEW n, NEW a, Grows(s, r, n, a), NEW shown \in {Lost, Cut(s)}
    PROVE  /\ Added(shown, AsSent(n), a) \in {Lost, Cut(r)}
           /\ shown # Lost => Added(shown, AsSent(n), a) = Cut(r)
<1>1. n \in Nat /\ Limit \in Nat /\ n # -1
  BY TileViewAssumption DEF Grows
<1>2. CASE n < Limit
  <2>1. Added(shown, AsSent(n), a) = ClientAdd(shown, n, a)
    BY <1>1, <1>2 DEF Added, AsSent
  <2> QED
    BY <2>1, AddTold
<1>3. CASE ~(n < Limit)
  <2>1. Added(shown, AsSent(n), a) = shown
    BY <1>1, <1>3 DEF Added, AsSent
  <2>2. Cut(r) = Cut(s)
    BY <1>1, <1>3, CutGrown
  <2> QED
    BY <2>1, <2>2
<1> QED
  BY <1>2, <1>3

(* ... that is removed.                                                    *)
LEMMA RemovedTrue ==
    ASSUME NEW s, NEW r, NEW n, NEW a, Grows(s, r, n, a), NEW shown \in {Lost, Cut(r)}
    PROVE  /\ Removed(shown, AsSent(n), Len(r) > Limit) \in {Lost, Cut(s)}
           /\ (shown # Lost /\ Len(r) <= Limit) => Removed(shown, AsSent(n), Len(r) > Limit) = Cut(s)
<1>1. n \in Nat /\ Limit \in Nat /\ n # -1 /\ Len(r) \in Nat
  BY TileViewAssumption DEF Grows
<1>2. CASE Len(r) > Limit
  BY <1>1, <1>2 DEF Removed
<1>3. CASE ~(Len(r) > Limit)
  <2>1. Len(r) <= Limit
    BY <1>1, <1>3
  <2>2. /\ ClientRemove(shown, n) \in {Lost, Cut(s)} /\ n \in 0..(Limit - 1)
        /\ shown # Lost => ClientRemove(shown, n) = Cut(s)
    BY <2>1, RemoveTold
  <2>3. AsSent(n) = n
    BY <1>1, <2>2 DEF AsSent
  <2>4. Removed(shown, AsSent(n), Len(r) > Limit) = ClientRemove(shown, n)
    BY <1>1, <1>3, <2>3 DEF Removed
  <2> QED
    BY <2>2, <2>4
<1> QED
  BY <1>2, <1>3

(* ... that is changed.                                                    *)
LEMMA ChangedTrue ==
    ASSUME NEW s, NEW r, NEW n, NEW a, Differs(s, r, n, a), NEW shown \in {Lost, Cut(s)}
    PROVE  /\ Changed(shown, AsSent(n), a) \in {Lost, Cut(r)}
           /\ shown # Lost => Changed(shown, AsSent(n), a) = Cut(r)
<1>1. n \in Nat /\ Limit \in Nat /\ n # -1
  BY TileViewAssumption DEF Differs
<1>2. CASE n < Limit
  <2>1. Changed(shown, AsSent(n), a) = ClientChange(shown, n, a)
    BY <1>1, <1>2 DEF Changed, AsSent
  <2> QED
    BY <2>1, <1>2, ChangeTold
<1>3. CASE ~(n < Limit)
  <2>1. Changed(shown, AsSent(n), a) = shown
    BY <1>1, <1>3 DEF Changed, AsSent
  <2>2. Cut(r) = Cut(s)
    BY <1>1, <1>3, ChangeTold
  <2> QED
    BY <2>1, <2>2
<1> QED
  BY <1>2, <1>3

(* The state. No creature stands twice on the map.                         *)
Alone(ts) ==
    /\ \A t \in Tiles : IsInjective(ts[t].beings)
    /\ \A t, u \in Tiles : t # u => ToSet(ts[t].beings) \cap ToSet(ts[u].beings) = {}

(* A client shows something of each tile.                                  *)
ScreenTyped(s) == s = [v \in Viewers |-> [t \in Tiles |-> s[v][t]]]

(* Tiles, those who are hidden, and screens; who is hidden is in the game. *)
Typed ==
    /\ tiles \in [Tiles -> Tile]
    /\ hidden \subseteq (Access \cup Monsters) \cap Somewhere(tiles)
    /\ ScreenTyped(screen)

(* The invariant: numbers are right because nobody stands in two places.   *)
ViewInv == Typed /\ Alone(tiles) /\ ScreensTrue

(* A creature stands where it is found, if it is nowhere else.             *)
LEMMA TileOfIs ==
    ASSUME NEW ts, NEW t \in Tiles, NEW c \in ToSet(ts[t].beings),
           \A u \in Tiles : u # t => c \notin ToSet(ts[u].beings)
    PROVE  TileOf(ts, c) = t /\ c \in Somewhere(ts)
<1>1. \A u \in Tiles : c \in ToSet(ts[u].beings) <=> u = t
  OBVIOUS
<1>2. TileOf(ts, c) = CHOOSE u \in Tiles : c \in ToSet(ts[u].beings)
  BY Zenon DEF TileOf
<1>3. (CHOOSE u \in Tiles : c \in ToSet(ts[u].beings)) = t
  BY <1>1
<1> QED
  BY <1>2, <1>3 DEF Somewhere

(* Who is on the map is found on one tile.                                 *)
LEMMA Stands ==
    ASSUME NEW ts, Alone(ts), NEW c \in Somewhere(ts)
    PROVE  TileOf(ts, c) \in Tiles /\ c \in ToSet(ts[TileOf(ts, c)].beings)
           /\ \A u \in Tiles : u # TileOf(ts, c) => c \notin ToSet(ts[u].beings)
<1>1. PICK t \in Tiles : c \in ToSet(ts[t].beings)
  BY DEF Somewhere
<1>2. \A u \in Tiles : u # t => c \notin ToSet(ts[u].beings)
  BY <1>1 DEF Alone
<1>3. TileOf(ts, c) = t
  BY <1>1, <1>2, TileOfIs
<1> QED
  BY <1>1, <1>2, <1>3

(* Nothing that depends on creatures is changed when they stay where they  *)
(* are.                                                                    *)
LEMMA SameBeings ==
    ASSUME NEW ts, Alone(ts), NEW us, \A t \in Tiles : us[t].beings = ts[t].beings
    PROVE  /\ Alone(us) /\ Somewhere(us) = Somewhere(ts)
           /\ \A v, t : CanSee(us, v, t) <=> CanSee(ts, v, t)
<1>1. Alone(us) /\ Somewhere(us) = Somewhere(ts)
  BY DEF Alone, Somewhere
<1>2. ASSUME NEW c \in Somewhere(ts)
      PROVE  TileOf(us, c) = TileOf(ts, c)
  <2>1. TileOf(ts, c) \in Tiles /\ c \in ToSet(ts[TileOf(ts, c)].beings)
        /\ \A u \in Tiles : u # TileOf(ts, c) => c \notin ToSet(ts[u].beings)
    BY <1>2, Stands
  <2> QED
    BY <2>1, TileOfIs
<1> QED
  BY <1>1, <1>2 DEF CanSee

(* The elements of two lists, one after the other.                         *)
LEMMA ConcatElems ==
    ASSUME NEW S, NEW p \in Seq(S), NEW q \in Seq(S)
    PROVE  ToSet(p \o q) = ToSet(p) \cup ToSet(q)
<1> DEFINE r == p \o q
<1>1. /\ DOMAIN p = 1..Len(p) /\ DOMAIN q = 1..Len(q) /\ DOMAIN r = 1..(Len(p) + Len(q))
      /\ Len(p) \in Nat /\ Len(q) \in Nat
  OBVIOUS
<1>2. \A i \in 1..Len(p) : r[i] = p[i]
  OBVIOUS
<1>3. \A i \in 1..Len(q) : r[Len(p) + i] = q[i]
  OBVIOUS
<1> HIDE DEF r
<1>4. ASSUME NEW i \in DOMAIN r PROVE r[i] \in ToSet(p) \cup ToSet(q)
  <2>1. CASE i <= Len(p)
    BY <1>1, <1>2, <2>1 DEF ToSet
  <2>2. CASE i > Len(p)
    <3>1. i - Len(p) \in 1..Len(q) /\ Len(p) + (i - Len(p)) = i
      BY <1>1, <2>2
    <3> QED
      BY <1>1, <1>3, <3>1 DEF ToSet
  <2> QED
    BY <1>1, <2>1, <2>2
<1>5. ASSUME NEW i \in 1..Len(p) PROVE p[i] \in ToSet(r)
  <2>1. i \in DOMAIN r
    BY <1>1
  <2> QED
    BY <1>2, <2>1 DEF ToSet
<1>6. ASSUME NEW i \in 1..Len(q) PROVE q[i] \in ToSet(r)
  <2>1. Len(p) + i \in DOMAIN r
    BY <1>1
  <2> QED
    BY <1>3, <2>1 DEF ToSet
<1> QED
  BY <1>1, <1>4, <1>5, <1>6 DEF ToSet, r

(* Of creatures, a player sees those that stand on the tile.               *)
LEMMA VisibleElems ==
    ASSUME NEW x \in Tile, NEW v, NEW who
    PROVE  ToSet(Visible(x, v, who)) \subseteq Grounds \cup Tops \cup Downs \cup ToSet(x.beings)
<1> DEFINE g == GroundOf(x)
           b == Seen(x, v, who)
<1>1. /\ g \in Seq(Things) /\ x.top \in Seq(Things) /\ b \in Seq(Things) /\ x.down \in Seq(Things)
      /\ x.beings \in Seq(Creatures) /\ x.down \in Seq(Downs) /\ x.top \in Seq(Tops)
      /\ Visible(x, v, who) = ((g \o x.top) \o b) \o x.down
  BY TileParts
<1>2. ToSet(g) \subseteq Grounds
  BY DEF Tile, GroundOf, ToSet
<1>3. ToSet(b) \subseteq ToSet(x.beings)
  BY <1>1, AmongElems DEF Seen
<1>4. ToSet(x.top) \subseteq Tops /\ ToSet(x.down) \subseteq Downs
  BY <1>1 DEF ToSet
<1> HIDE DEF g, b
<1> DEFINE gt == g \o x.top
           gtb == gt \o b
<1>5. gt \in Seq(Things) /\ ToSet(gt) = ToSet(g) \cup ToSet(x.top)
  BY <1>1, ConcatElems
<1> HIDE DEF gt
<1>6. gtb \in Seq(Things) /\ ToSet(gtb) = ToSet(gt) \cup ToSet(b)
  BY <1>1, <1>5, ConcatElems
<1> HIDE DEF gtb
<1>7. ToSet(gtb \o x.down) = ToSet(gtb) \cup ToSet(x.down)
  BY <1>1, <1>6, ConcatElems
<1> QED
  BY <1>1, <1>2, <1>3, <1>4, <1>5, <1>6, <1>7 DEF gt, gtb

(* A client that has a tile of the map does not take it for lost.          *)
LEMMA ShownIsKnown ==
    ASSUME NEW x \in Tile, NEW v, NEW who
    PROVE  Cut(Visible(x, v, who)) # Lost
<1> DEFINE s == Visible(x, v, who)
<1>1. /\ s \in Seq(Things) /\ Len(s) \in Nat /\ Len(Cut(s)) = (IF Len(s) > Limit THEN Limit ELSE Len(s))
      /\ \A i \in 1..Len(Cut(s)) : Cut(s)[i] = s[i]
  BY TileParts, CutIs
<1>2. NoGround \notin ToSet(s)
  <2>1. ToSet(x.beings) \subseteq Creatures
    BY DEF Tile, ToSet
  <2> QED
    BY <2>1, VisibleElems, TileViewAssumption DEF Creatures
<1> HIDE DEF s
<1>3. Len(Lost) = 2 /\ Lost[1] = NoGround
  BY DEF Lost
<1>4. ASSUME Cut(s) = Lost PROVE FALSE
  <2>0. Len(Cut(s)) = 2 /\ Cut(s)[1] = NoGround
    BY <1>3, <1>4
  <2>1. 1 \in 1..Len(Cut(s)) /\ 1 \in 1..Len(s) /\ s[1] = NoGround
    BY <1>1, <2>0, TileViewAssumption
  <2>2. DOMAIN s = 1..Len(s)
    BY <1>1
  <2> QED
    BY <1>2, <2>1, <2>2 DEF ToSet
<1> QED
  BY <1>4 DEF s

(* How many things a tile has.                                             *)
LEMMA CountIs ==
    ASSUME NEW x \in Tile
    PROVE  /\ ThingCount(x) = Under(x) + Len(x.beings) + Len(x.down) /\ ThingCount(x) \in Nat
           /\ Under(x) = Len(GroundOf(x)) + Len(x.top) /\ Under(x) \in Nat
           /\ Len(GroundOf(x)) = (IF x.ground = NoGround THEN 0 ELSE 1) /\ Len(GroundOf(x)) \in Nat
           /\ Len(x.top) \in Nat /\ Len(x.beings) \in Nat /\ Len(x.down) \in Nat
<1>1. x.top \in Seq(Tops) /\ x.beings \in Seq(Creatures) /\ x.down \in Seq(Downs)
  BY DEF Tile
<1> DEFINE g == Len(GroundOf(x))  a == Len(x.top)  b == Len(x.beings)  d == Len(x.down)
<1>2. a \in Nat /\ b \in Nat /\ d \in Nat
  BY <1>1
<1>3. g = (IF x.ground = NoGround THEN 0 ELSE 1)
  BY DEF GroundOf
<1>4. ThingCount(x) = g + a + b + d /\ Under(x) = g + a
  BY Zenon DEF ThingCount, Under
<1> HIDE DEF g, a, b, d
<1>5. g \in Nat
  BY <1>3
<1>6. ThingCount(x) = Under(x) + b + d /\ ThingCount(x) \in Nat /\ Under(x) = g + a /\ Under(x) \in Nat
  BY <1>2, <1>4, <1>5
<1> QED
  BY <1>2, <1>3, <1>5, <1>6, Zenon DEF g, a, b, d

(* A list of it has another length.                                        *)
LEMMA CountWith ==
    ASSUME NEW x \in Tile, NEW y \in Tile, NEW list \in {"top", "down"}, SameBut(list, x, y), NEW n \in Int,
           Len(y[list]) = Len(x[list]) + n
    PROVE  ThingCount(y) = ThingCount(x) + n
<1> DEFINE g == Len(GroundOf(x))  a == Len(x.top)  b == Len(x.beings)  d == Len(x.down)
           e == Len(y.top)  f == Len(y.down)
<1>1. /\ g \in Nat /\ a \in Nat /\ b \in Nat /\ d \in Nat /\ e \in Nat /\ f \in Nat
      /\ ThingCount(x) = Under(x) + b + d /\ Under(x) = g + a
  BY CountIs, Zenon
<1>2. ThingCount(y) = Under(y) + b + f /\ Under(y) = g + e
  <2>1. y.beings = x.beings /\ GroundOf(y) = GroundOf(x)
    BY DEF SameBut, GroundOf
  <2> QED
    BY <2>1, CountIs, Zenon
<1>3. (e = a + n /\ f = d) \/ (e = a /\ f = d + n)
  BY DEF SameBut
<1> HIDE DEF g, a, b, d, e, f
<1> QED
  BY <1>1, <1>2, <1>3

(* A list of it has one thing more.                                        *)
LEMMA CountGrows ==
    ASSUME NEW x \in Tile, NEW y \in Tile, NEW list \in {"top", "down"}, SameBut(list, x, y),
           NEW k, NEW a, Grows(x[list], y[list], k, a)
    PROVE  ThingCount(y) = ThingCount(x) + 1
<1>1. Len(y[list]) = Len(x[list]) + 1 /\ 1 \in Int
  BY DEF Grows
<1> QED
  BY <1>1, CountWith

(* It has another ground.                                                  *)
LEMMA CountGround ==
    ASSUME NEW x \in Tile, NEW y \in Tile, y.top = x.top, y.beings = x.beings, y.down = x.down
    PROVE  /\ ThingCount(x) \in Nat /\ ThingCount(y) \in Nat
           /\ (x.ground = NoGround /\ y.ground # NoGround) => ThingCount(y) = ThingCount(x) + 1
           /\ (x.ground # NoGround /\ y.ground # NoGround) => ThingCount(y) = ThingCount(x)
<1> DEFINE g == Len(GroundOf(x))  h == Len(GroundOf(y))
           a == Len(x.top)  b == Len(x.beings)  d == Len(x.down)
<1>1. /\ g \in Nat /\ a \in Nat /\ b \in Nat /\ d \in Nat /\ ThingCount(x) \in Nat /\ ThingCount(y) \in Nat
      /\ ThingCount(x) = Under(x) + b + d /\ Under(x) = g + a
      /\ ThingCount(y) = Under(y) + b + d /\ Under(y) = h + a
  BY CountIs, Zenon
<1>2. /\ g = (IF x.ground = NoGround THEN 0 ELSE 1)
      /\ h = (IF y.ground = NoGround THEN 0 ELSE 1)
  BY CountIs
<1> HIDE DEF g, h, a, b, d
<1> QED
  BY <1>1, <1>2

(* The player sees more of a tile than a client shows.                     *)
Over(x, v) == Len(Visible(x, v, hidden)) > Limit

(* Such a tile has more.                                                   *)
LEMMA FullCounts ==
    ASSUME NEW x \in Tile, NEW v, Over(x, v)
    PROVE  ThingCount(x) > Limit
<1> DEFINE l == (GroundOf(x) \o x.top) \o Seen(x, v, hidden)
           a == Len(Seen(x, v, hidden))  b == Len(x.beings)  d == Len(x.down)
<1>1. l \in Seq(Things) /\ Len(l) = Under(x) + a /\ a \in Nat
  BY UnderIs
<1>2. x.down \in Seq(Things) /\ Visible(x, v, hidden) = l \o x.down /\ x.beings \in Seq(Creatures)
  BY TileParts
<1>3. a <= b
  <2> DEFINE places == PlacesIn(x.beings, SeenBy(v, hidden))
  <2>1. Cardinality(places) = a
    BY <1>2, AmongCount DEF Seen
  <2>2. b \in Nat /\ places \subseteq 1..b
    BY <1>2 DEF PlacesIn
  <2> HIDE DEF places, a, b
  <2>3. IsFiniteSet(1..b) /\ Cardinality(1..b) = b
    <3>1. 1 \in Int /\ b \in Int /\ (1 > b => b = 0) /\ b - 1 + 1 = b
      BY <2>2
    <3> QED
      BY <3>1, FS_Interval
  <2>4. Cardinality(places) <= Cardinality(1..b)
    BY <2>2, <2>3, FS_Subset
  <2> QED
    BY <2>1, <2>3, <2>4
<1>4. Len(l \o x.down) = Len(l) + d
  <2> HIDE DEF l
  <2>1. l \in Seq(Things) /\ x.down \in Seq(Things)
    BY <1>1, <1>2
  <2> QED
    BY <2>1
<1> HIDE DEF l
<1>5. Len(Visible(x, v, hidden)) = Len(l) + d
  BY <1>2, <1>4, Zenon
<1>6. ThingCount(x) = Under(x) + b + d /\ Under(x) \in Nat /\ b \in Nat /\ d \in Nat
  BY CountIs, Zenon
<1> HIDE DEF a, b, d
<1> QED
  BY <1>1, <1>3, <1>5, <1>6, TileViewAssumption DEF Over

(* A tile is sent again, if the client lost it.                            *)
LEMMA SentAgainIs ==
    ASSUME NEW x \in Tile, NEW v, NEW who, NEW shown \in {Lost, Cut(Visible(x, v, who))},
           ThingCount(x) <= Resend => shown # Lost
    PROVE  SentAgain(x, v, who, shown) = Cut(Visible(x, v, who))
  BY CountIs, TileViewAssumption DEF SentAgain, Described

(* What a change of one tile, other than of its creatures, does.           *)
LEMMA ItemStep ==
    ASSUME ViewInv, NEW t \in Tiles, NEW y \in Tile, y.beings = tiles[t].beings,
           tiles' = [tiles EXCEPT ![t] = y], hidden' = hidden, NEW new,
           screen' = [v \in Viewers |-> IF CanSee(tiles, v, t) THEN [screen[v] EXCEPT ![t] = new[v]] ELSE screen[v]],
           \A v \in Viewers : CanSee(tiles, v, t)
              => new[v] \in {Lost, Described(y, v, hidden)} /\ (new[v] = Lost => ThingCount(y) > Limit)
    PROVE  ViewInv'
<1>1. tiles \in [Tiles -> Tile] /\ Alone(tiles) /\ ScreensTrue
      /\ hidden \subseteq (Access \cup Monsters) \cap Somewhere(tiles)
      /\ \A v \in Viewers : screen[v] = [u \in Tiles |-> screen[v][u]]
  BY DEF ViewInv, Typed, ScreenTyped
<1>2. /\ tiles' \in [Tiles -> Tile] /\ tiles'[t] = y
      /\ \A u \in Tiles : tiles'[u].beings = tiles[u].beings
      /\ \A u \in Tiles : u # t => tiles'[u] = tiles[u]
  BY <1>1
<1>3. Alone(tiles') /\ Somewhere(tiles') = Somewhere(tiles)
      /\ \A v, u : CanSee(tiles', v, u) <=> CanSee(tiles, v, u)
  BY <1>1, <1>2, SameBeings
<1>4. \A v \in Viewers : screen'[v] = IF CanSee(tiles, v, t) THEN [screen[v] EXCEPT ![t] = new[v]]
      ELSE screen[v]
  OBVIOUS
<1>5. \A v \in Viewers : screen'[v] = [u \in Tiles |-> screen'[v][u]]
  BY <1>1, <1>4
<1>6. ScreenTyped(screen')
  BY <1>5 DEF ScreenTyped
<1>7. ASSUME NEW v \in Viewers, NEW u \in Tiles, CanSee(tiles, v, u)
      PROVE  /\ screen'[v][u] \in {Lost, Described(tiles'[u], v, hidden)}
             /\ screen'[v][u] = Lost => ThingCount(tiles'[u]) > Limit
  <2>1. CASE u = t
    <3>1. screen'[v][t] = new[v]
      BY <1>1, <1>4, <1>7, <2>1
    <3> QED
      BY <1>2, <1>7, <2>1, <3>1
  <2>2. CASE u # t
    <3>1. screen'[v][u] = screen[v][u]
      BY <1>1, <1>4, <2>2
    <3> QED
      BY <1>1, <1>2, <1>7, <2>2, <3>1 DEF ScreensTrue
  <2> QED
    BY <2>1, <2>2
<1>8. ScreensTrue'
  <2>1. \A v \in Viewers, u \in Tiles : CanSee(tiles', v, u)
          => /\ screen'[v][u] \in {Lost, Described(tiles'[u], v, hidden')}
             /\ screen'[v][u] = Lost => ThingCount(tiles'[u]) > Limit
    BY <1>3, <1>7
  <2> QED
    BY <2>1, Zenon DEF ScreensTrue
<1> QED
  BY <1>1, <1>2, <1>3, <1>6, <1>8 DEF ViewInv, Typed

(* The message of an item added, with the number counted after the change. *)
LEMMA ItemAdded ==
    ASSUME NEW x \in Tile, NEW y \in Tile, NEW v, NEW list \in {"top", "down"}, NEW k \in Nat \ {0}, NEW a,
           SameBut(list, x, y), Grows(x[list], y[list], k - 1, a),
           NEW shown \in {Lost, Cut(Visible(x, v, hidden))}
    PROVE  /\ Added(shown, StackposOfItem(y, list, k, v), a) \in {Lost, Cut(Visible(y, v, hidden))}
           /\ Added(shown, StackposOfItem(y, list, k, v), a) = Lost => shown = Lost
<1>1. PICK n \in Nat : Grows(Visible(x, v, hidden), Visible(y, v, hidden), n, a)
      /\ StackposOfItem(y, list, k, v) = AsSent(n)
  BY ItemGrows
<1> QED
  BY <1>1, AddedTrue, ShownIsKnown

(* A client that was told of a removal, unless more was there than it could *)
(* know.                                                                   *)
Follows(told, shown, s, over) == told \in {Lost, Cut(s)} /\ (told = Lost => shown = Lost \/ over)

(* The message of an item removed, with the number counted before the      *)
(* change.                                                                 *)
LEMMA ItemRemoved ==
    ASSUME NEW x \in Tile, NEW y \in Tile, NEW v, NEW list \in {"top", "down"}, NEW k \in Nat \ {0}, NEW a,
           SameBut(list, x, y), Grows(x[list], y[list], k - 1, a),
           NEW shown \in {Lost, Cut(Visible(y, v, hidden))}
    PROVE  Follows(Removed(shown, StackposOfItem(y, list, k, v), Full(y, v)), shown,
                   Visible(x, v, hidden), Over(y, v))
<1>1. PICK n \in Nat : Grows(Visible(x, v, hidden), Visible(y, v, hidden), n, a)
      /\ StackposOfItem(y, list, k, v) = AsSent(n)
  BY ItemGrows
<1>2. Len(Visible(y, v, hidden)) \in Nat /\ Limit \in Nat
  BY TileParts, TileViewAssumption
<1> QED
  BY <1>1, <1>2, RemovedTrue, ShownIsKnown DEF Full, Over, Follows

(* The message of an item changed.                                         *)
LEMMA ItemChanged ==
    ASSUME NEW x \in Tile, NEW y \in Tile, NEW v, NEW list \in {"top", "down"}, NEW k \in Nat \ {0}, NEW a,
           SameBut(list, x, y), Differs(x[list], y[list], k - 1, a),
           NEW shown \in {Lost, Cut(Visible(x, v, hidden))}
    PROVE  /\ Changed(shown, StackposOfItem(y, list, k, v), a) \in {Lost, Cut(Visible(y, v, hidden))}
           /\ Changed(shown, StackposOfItem(y, list, k, v), a) = Lost => shown = Lost
<1>1. PICK n \in Nat : Differs(Visible(x, v, hidden), Visible(y, v, hidden), n, a)
      /\ StackposOfItem(y, list, k, v) = AsSent(n)
  BY ItemDiffers
<1> QED
  BY <1>1, ChangedTrue, ShownIsKnown

(* The kinds of items that a list may hold.                                *)
Kinds(list) == IF list = "top" THEN Tops ELSE Downs

(* A tile whose list was replaced.                                         *)
LEMMA TileWith ==
    ASSUME NEW x \in Tile, NEW list \in {"top", "down"}, NEW w \in Seq(Kinds(list))
    PROVE  /\ [x EXCEPT ![list] = w] \in Tile /\ [x EXCEPT ![list] = w][list] = w
           /\ SameBut(list, x, [x EXCEPT ![list] = w])
           /\ \A u : [[x EXCEPT ![list] = w] EXCEPT ![list] = u] = [x EXCEPT ![list] = u]
<1>1. CASE list = "top"
  BY <1>1 DEF Tile, Kinds, SameBut
<1>2. CASE list = "down"
  BY <1>2 DEF Tile, Kinds, SameBut
<1> QED
  BY <1>1, <1>2

(* A list of a tile.                                                       *)
LEMMA TileList ==
    ASSUME NEW x \in Tile, NEW list \in {"top", "down"}
    PROVE  x[list] \in Seq(Kinds(list)) /\ x[list] \in Seq(Things) /\ Kinds(list) \subseteq Things
<1>1. CASE list = "top"
  BY <1>1, TileParts DEF Tile, Kinds, Things
<1>2. CASE list = "down"
  BY <1>2, TileParts DEF Tile, Kinds, Things
<1> QED
  BY <1>1, <1>2

(* What the invariant says of one tile.                                    *)
LEMMA ViewFacts ==
    ASSUME ViewInv, NEW t \in Tiles
    PROVE  /\ tiles[t] \in Tile
           /\ \A v \in Viewers : CanSee(tiles, v, t)
                => /\ screen[v][t] \in {Lost, Cut(Visible(tiles[t], v, hidden))}
                   /\ screen[v][t] = Lost => ThingCount(tiles[t]) > Limit
  BY Zenon DEF ViewInv, Typed, ScreensTrue, Described

(* Tile::addThing of a ground.                                             *)
LEMMA AddGroundTrue ==
    ASSUME ViewInv, NEW t \in Tiles, NEW x \in Grounds, AddGround(t, x), hidden' = hidden
    PROVE  ViewInv'
<1> DEFINE y == [tiles[t] EXCEPT !.ground = x]
           told(v, shown) == IF tiles[t].ground = NoGround THEN Added(shown, 0, x)
                             ELSE SentAgain(y, v, hidden, Changed(shown, 0, x))
           new == [v \in Viewers |-> told(v, screen[v][t])]
<1>1. tiles[t] \in Tile /\ tiles \in [Tiles -> Tile]
  BY ViewFacts DEF ViewInv, Typed
<1>2. y \in Tile /\ y.beings = tiles[t].beings /\ y.top = tiles[t].top /\ y.down = tiles[t].down
      /\ y.ground = x
  BY <1>1 DEF Tile
<1>3. tiles' = [tiles EXCEPT ![t] = y] /\ tiles'[t] = y
  BY <1>1 DEF AddGround
<1>4. screen' = [v \in Viewers |-> IF CanSee(tiles, v, t) THEN [screen[v] EXCEPT ![t] = new[v]] ELSE screen[v]]
  BY <1>3 DEF AddGround, ToldOf
<1> HIDE DEF y
<1>5. ASSUME NEW v \in Viewers, CanSee(tiles, v, t)
      PROVE  new[v] \in {Lost, Described(y, v, hidden)} /\ (new[v] = Lost => ThingCount(y) > Limit)
  <2> DEFINE shown == screen[v][t]
  <2>1. /\ shown \in {Lost, Cut(Visible(tiles[t], v, hidden))}
        /\ shown = Lost => ThingCount(tiles[t]) > Limit
    BY <1>5, ViewFacts
  <2>2. x # NoGround
    BY TileViewAssumption
  <2>3. new[v] = IF tiles[t].ground = NoGround THEN Added(shown, 0, x)
                 ELSE SentAgain(y, v, hidden, Changed(shown, 0, x))
    OBVIOUS
  <2> HIDE DEF shown, new
  <2>4. AsSent(0) = 0
    BY TileViewAssumption DEF AsSent
  <2>5. /\ ThingCount(tiles[t]) \in Nat /\ ThingCount(y) \in Nat
        /\ tiles[t].ground = NoGround => ThingCount(y) = ThingCount(tiles[t]) + 1
        /\ tiles[t].ground # NoGround => ThingCount(y) = ThingCount(tiles[t])
    BY <1>1, <1>2, <2>2, CountGround
  <2>a. Limit \in Nat /\ Resend \in Nat /\ Resend < Limit
    BY TileViewAssumption
  <2>6. CASE tiles[t].ground = NoGround
    <3>1. Grows(Visible(tiles[t], v, hidden), Visible(y, v, hidden), 0, x)
      BY <1>1, <1>2, <2>2, <2>6, GroundGrows
    <3>2. /\ Added(shown, AsSent(0), x) \in {Lost, Cut(Visible(y, v, hidden))}
          /\ shown # Lost => Added(shown, AsSent(0), x) = Cut(Visible(y, v, hidden))
      BY <2>1, <3>1, AddedTrue
    <3>3. Cut(Visible(y, v, hidden)) # Lost
      BY <1>2, ShownIsKnown
    <3>4. new[v] = Added(shown, AsSent(0), x)
      BY <2>3, <2>4, <2>6
    <3>5. new[v] = Lost => shown = Lost
      BY <3>2, <3>3, <3>4
    <3> QED
      BY <2>1, <2>5, <2>6, <2>a, <3>2, <3>4, <3>5 DEF Described
  <2>7. CASE tiles[t].ground # NoGround
    <3>1. Differs(Visible(tiles[t], v, hidden), Visible(y, v, hidden), 0, x)
      BY <1>1, <1>2, <2>2, <2>7, GroundDiffers
    <3>2. /\ Changed(shown, AsSent(0), x) \in {Lost, Cut(Visible(y, v, hidden))}
          /\ shown # Lost => Changed(shown, AsSent(0), x) = Cut(Visible(y, v, hidden))
      BY <2>1, <3>1, ChangedTrue
    <3>3. Cut(Visible(y, v, hidden)) # Lost
      BY <1>2, ShownIsKnown
    <3>4. ThingCount(y) <= Resend => Changed(shown, 0, x) # Lost
      BY <2>1, <2>4, <2>5, <2>7, <2>a, <3>2, <3>3
    <3>5. new[v] = Cut(Visible(y, v, hidden))
      BY <1>2, <2>3, <2>4, <2>7, <3>2, <3>4, SentAgainIs
    <3> QED
      BY <3>3, <3>5 DEF Described
  <2> QED
    BY <2>6, <2>7
<1> HIDE DEF new
<1> QED
  BY <1>2, <1>3, <1>4, <1>5, ItemStep

(* Tile::addThing of another item, with the one that makes place for it.   *)
LEMMA InsertedTrue ==
    ASSUME ViewInv, NEW t \in Tiles, NEW list \in {"top", "down"}, NEW x \in Kinds(list),
           NEW old \in 0..Len(tiles[t][list]), NEW w,
           w = IF old = 0 THEN tiles[t][list] ELSE RemoveAt(tiles[t][list], old),
           NEW k \in 1..(Len(w) + 1), Inserted(t, list, k, x, old), hidden' = hidden
    PROVE  ViewInv'
<1>1. tiles[t] \in Tile /\ tiles \in [Tiles -> Tile]
  BY ViewFacts DEF ViewInv, Typed
<1>2. tiles[t][list] \in Seq(Kinds(list)) /\ tiles[t][list] \in Seq(Things) /\ Kinds(list) \subseteq Things
  BY <1>1, TileList
<1>3. w \in Seq(Kinds(list))
  <2>1. CASE old = 0
    BY <1>2, <2>1
  <2>2. CASE old # 0
    BY <1>2, <2>2, RemoveAtIs
  <2> QED
    BY <2>1, <2>2
<1>4. w \in Seq(Things) /\ x \in Things
  BY <1>2, <1>3
<1> DEFINE z == InsertAt(w, k, x)
<1>5. z \in Seq(Kinds(list))
  BY <1>3, InsertAtIs
<1> DEFINE without == [tiles[t] EXCEPT ![list] = w]
           with == [without EXCEPT ![list] = z]
<1>6. without \in Tile /\ without[list] = w /\ SameBut(list, tiles[t], without)
  BY <1>1, <1>3, TileWith
<1> HIDE DEF z, without
<1>7. with \in Tile /\ with[list] = z /\ SameBut(list, without, with)
  BY <1>5, <1>6, TileWith
<1>8. [tiles[t] EXCEPT ![list] = IF old = 0 THEN @ ELSE RemoveAt(@, old)] = without
      /\ [without EXCEPT ![list] = InsertAt(@, k, x)] = with
  BY <1>6 DEF without, z
<1> HIDE DEF with
<1> DEFINE told(v, shown) ==
              Added(IF old = 0 THEN shown
                    ELSE SentAgain(without, v, hidden,
                            Removed(shown, StackposOfItem(tiles[t], list, old, v), Full(tiles[t], v))),
                    StackposOfItem(with, list, k, v), x)
           new == [v \in Viewers |-> told(v, screen[v][t])]
<1>9. tiles' = [tiles EXCEPT ![t] = with]
  BY <1>8 DEF Inserted
<1>10. screen' = [v \in Viewers |-> IF CanSee(tiles, v, t) THEN [screen[v] EXCEPT ![t] = new[v]] ELSE screen[v]]
  BY <1>8 DEF Inserted, ToldOf
<1>11. ASSUME NEW v \in Viewers, CanSee(tiles, v, t)
       PROVE  new[v] \in {Lost, Described(with, v, hidden)} /\ (new[v] = Lost => ThingCount(with) > Limit)
  <2> DEFINE shown == screen[v][t]
             removed == Removed(shown, StackposOfItem(tiles[t], list, old, v), Full(tiles[t], v))
             first == IF old = 0 THEN shown ELSE SentAgain(without, v, hidden, removed)
  <2>1. /\ shown \in {Lost, Cut(Visible(tiles[t], v, hidden))}
        /\ shown = Lost => ThingCount(tiles[t]) > Limit
    BY <1>11, ViewFacts
  <2>2. new[v] = Added(first, StackposOfItem(with, list, k, v), x)
    OBVIOUS
  <2> HIDE DEF shown, new, removed
  <2>3. /\ first \in {Lost, Cut(Visible(without, v, hidden))}
        /\ first = Lost => ThingCount(without) > Limit
    <3>1. CASE old = 0
      <4>1. without = tiles[t]
        BY <1>1, <3>1 DEF without, Tile
      <4> QED
        BY <2>1, <3>1, <4>1
    <3>2. CASE old # 0
      <4>0. old \in 1..Len(tiles[t][list]) /\ old \in Nat \ {0}
        BY <1>2, <3>2
      <4>1. Grows(w, tiles[t][list], old - 1, tiles[t][list][old])
        BY <1>2, <3>2, <4>0, RemoveGrows
      <4>2. SameBut(list, without, tiles[t])
        BY <1>6 DEF SameBut
      <4> DEFINE a == tiles[t][list][old]
      <4>a. Grows(without[list], tiles[t][list], old - 1, a)
        BY <1>6, <4>1
      <4>b. without \in Tile /\ tiles[t] \in Tile
        BY <1>1, <1>6
      <4> HIDE DEF a
      <4>c. Follows(removed, shown, Visible(without, v, hidden), Over(tiles[t], v))
        BY <2>1, <4>a, <4>b, <4>0, <4>2, ItemRemoved DEF removed
      <4>3. /\ removed \in {Lost, Cut(Visible(without, v, hidden))}
            /\ removed = Lost => shown = Lost \/ Over(tiles[t], v)
        BY <4>c, Zenon DEF Follows
      <4>5. ThingCount(tiles[t]) = ThingCount(without) + 1
        BY <4>2, <4>a, <4>b, CountGrows
      <4>6. Over(tiles[t], v) => ThingCount(tiles[t]) > Limit
        BY <4>b, FullCounts
      <4>7. ThingCount(without) <= Resend => removed # Lost
        BY <2>1, <4>3, <4>5, <4>6, <4>b, CountIs, TileViewAssumption
      <4>8. SentAgain(without, v, hidden, removed) = Cut(Visible(without, v, hidden))
        BY <4>3, <4>7, <4>b, SentAgainIs
      <4>9. Cut(Visible(without, v, hidden)) # Lost
        BY <4>b, ShownIsKnown
      <4> QED
        BY <3>2, <4>8, <4>9
    <3> QED
      BY <3>1, <3>2
  <2> HIDE DEF first
  <2>4. Grows(w, z, k - 1, x)
    BY <1>4, InsertGrows DEF z
  <2>5. k \in Nat \ {0}
    BY <1>4
  <2>a. Grows(without[list], with[list], k - 1, x)
    BY <1>6, <1>7, <2>4
  <2>b. without \in Tile /\ with \in Tile /\ SameBut(list, without, with)
    BY <1>6, <1>7
  <2>7. /\ Added(first, StackposOfItem(with, list, k, v), x) \in {Lost, Cut(Visible(with, v, hidden))}
        /\ Added(first, StackposOfItem(with, list, k, v), x) = Lost => first = Lost
    BY <2>3, <2>a, <2>b, <2>5, ItemAdded
  <2>9. ThingCount(with) = ThingCount(without) + 1
    BY <2>a, <2>b, CountGrows
  <2>10. ThingCount(without) \in Nat /\ Limit \in Nat
    BY <2>b, CountIs, TileViewAssumption
  <2> QED
    BY <2>2, <2>3, <2>7, <2>9, <2>10 DEF Described
<1>12. with.beings = tiles[t].beings
  BY <1>6, <1>7 DEF SameBut
<1> HIDE DEF new
<1> QED
  BY <1>7, <1>9, <1>10, <1>11, <1>12, ItemStep

(* The least of a set of places.                                           *)
LEMMA MinIn ==
    ASSUME NEW s, s \subseteq Nat, s # {}
    PROVE  Min(s) \in s /\ \A y \in s : Min(s) <= y
<1>1. PICK k \in s : \A m \in s : ~(m < k)
  BY LeastNumber
<1>2. k \in s /\ \A y \in s : k <= y
  BY <1>1
<1> QED
  BY <1>2, Zenon DEF Min

(* At finds a place of the list, or none.                                  *)
LEMMA AtIs ==
    ASSUME NEW S, NEW s \in Seq(S), NEW kinds
    PROVE  At(s, kinds) \in 0..Len(s)
<1> DEFINE found == {i \in DOMAIN s : s[i] \in kinds}
<1>1. found \subseteq Nat /\ found \subseteq 1..Len(s)
  OBVIOUS
<1>2. CASE found = {}
  BY <1>2 DEF At
<1>3. CASE found # {}
  <2>1. Min(found) \in found
    BY <1>1, <1>3, MinIn
  <2> QED
    BY <1>1, <1>3, <2>1 DEF At
<1> QED
  BY <1>2, <1>3

(* Tile::addThing of an item keeps the screens true.                       *)
LEMMA AddItemTrue ==
    ASSUME ViewInv, NEW t \in Tiles, NEW x \in Grounds \cup Tops \cup Downs, AddItem(t, x)
    PROVE  ViewInv'
<1>1. tiles[t] \in Tile /\ hidden' = hidden
  BY ViewFacts DEF AddItem
<1>2. tiles[t].top \in Seq(Tops) /\ tiles[t].down \in Seq(Downs)
  BY <1>1 DEF Tile
<1>3. CASE x \in Grounds
  BY <1>1, <1>3, AddGroundTrue DEF AddItem
<1>4. CASE x \notin Grounds /\ x \in Tops
  <2> DEFINE old == IF x \in Splashes THEN At(tiles[t].top, Splashes) ELSE 0
             top == IF old = 0 THEN tiles[t].top ELSE RemoveAt(tiles[t].top, old)
             k == At(top, {y \in Tops : Order[x] <= Order[y]})
             place == IF k = 0 THEN Len(top) + 1 ELSE k
  <2>1. Inserted(t, "top", place, x, old)
    BY <1>4 DEF AddItem, AddTop
  <2>2. old \in 0..Len(tiles[t].top)
    BY <1>2, AtIs
  <2> HIDE DEF old
  <2>3. top \in Seq(Tops)
    <3>1. CASE old = 0
      BY <1>2, <3>1
    <3>2. CASE old # 0
      BY <1>2, <2>2, <3>2, RemoveAtIs
    <3> QED
      BY <3>1, <3>2
  <2> HIDE DEF top
  <2>4. k \in 0..Len(top) /\ Len(top) \in Nat
    BY <2>3, AtIs
  <2> HIDE DEF k
  <2>5. place \in 1..(Len(top) + 1)
    BY <2>4
  <2> HIDE DEF place
  <2>6. x \in Kinds("top")
    BY <1>4 DEF Kinds
  <2>7. tiles[t]["top"] = tiles[t].top
    OBVIOUS
  <2>8. top = IF old = 0 THEN tiles[t]["top"] ELSE RemoveAt(tiles[t]["top"], old)
    BY <2>7 DEF top
  <2> QED
    BY <1>1, <2>1, <2>2, <2>5, <2>6, <2>7, <2>8, InsertedTrue
<1>5. CASE x \notin Grounds /\ x \notin Tops
  <2> DEFINE old == IF x \in Fields THEN At(tiles[t].down, Fields) ELSE 0
             down == IF old = 0 THEN tiles[t].down ELSE RemoveAt(tiles[t].down, old)
  <2>1. Inserted(t, "down", 1, x, old)
    BY <1>5 DEF AddItem, AddDown
  <2>2. old \in 0..Len(tiles[t].down)
    BY <1>2, AtIs
  <2> HIDE DEF old
  <2>3. down \in Seq(Downs)
    <3>1. CASE old = 0
      BY <1>2, <3>1
    <3>2. CASE old # 0
      BY <1>2, <2>2, <3>2, RemoveAtIs
    <3> QED
      BY <3>1, <3>2
  <2> HIDE DEF down
  <2>4. Len(down) \in Nat
    BY <2>3
  <2>5. 1 \in 1..(Len(down) + 1)
    BY <2>4
  <2>6. x \in Kinds("down")
    BY <1>5 DEF Kinds
  <2>7. tiles[t]["down"] = tiles[t].down
    OBVIOUS
  <2>8. down = IF old = 0 THEN tiles[t]["down"] ELSE RemoveAt(tiles[t]["down"], old)
    BY <2>7 DEF down
  <2> QED
    BY <1>1, <2>1, <2>2, <2>5, <2>6, <2>7, <2>8, InsertedTrue
<1> QED
  BY <1>3, <1>4, <1>5

(* So does Tile::removeThing of an item.                                   *)
LEMMA TakeItemTrue ==
    ASSUME ViewInv, NEW t \in Tiles, NEW list \in {"ground", "top", "down"}, NEW k \in Nat,
           TakeItem(t, list, k)
    PROVE  ViewInv'
<1>1. tiles[t] \in Tile /\ tiles \in [Tiles -> Tile] /\ hidden' = hidden
  BY ViewFacts DEF ViewInv, Typed, TakeItem
<1> DEFINE y == [tiles[t] EXCEPT ![list] = IF list = "ground" THEN NoGround ELSE RemoveAt(@, k)]
           removed(v) == Removed(screen[v][t], StackposOfItem(tiles[t], list, k, v), Full(tiles[t], v))
           new == [v \in Viewers |-> SentAgain(y, v, hidden, removed(v))]
<1>2. tiles' = [tiles EXCEPT ![t] = y] /\ tiles'[t] = y
  BY <1>1 DEF TakeItem
<1> HIDE DEF y
<1>3. screen' = [v \in Viewers |-> IF CanSee(tiles, v, t) THEN [screen[v] EXCEPT ![t] = new[v]] ELSE screen[v]]
  BY <1>2 DEF TakeItem, ToldOf
<1>4. \A v \in Viewers : new[v] = SentAgain(y, v, hidden, removed(v))
  OBVIOUS
<1> HIDE DEF new
<1>5. /\ y \in Tile /\ y.beings = tiles[t].beings /\ ThingCount(tiles[t]) = ThingCount(y) + 1
      /\ \A v \in Viewers : CanSee(tiles, v, t)
           => /\ removed(v) \in {Lost, Cut(Visible(y, v, hidden))}
              /\ removed(v) = Lost => screen[v][t] = Lost \/ Over(tiles[t], v)
  <2>1. CASE list = "ground"
    <3>1. y \in Tile /\ y.beings = tiles[t].beings /\ y.top = tiles[t].top /\ y.down = tiles[t].down
          /\ y.ground = NoGround
      BY <1>1, <2>1 DEF Tile, y
    <3>2. tiles[t].ground # NoGround
      BY <2>1 DEF TakeItem
    <3>3. ThingCount(tiles[t]) = ThingCount(y) + 1
      BY <1>1, <3>1, <3>2, CountGround
    <3>4. ASSUME NEW v \in Viewers, CanSee(tiles, v, t)
          PROVE  /\ removed(v) \in {Lost, Cut(Visible(y, v, hidden))}
                 /\ removed(v) = Lost => screen[v][t] = Lost \/ Over(tiles[t], v)
      <4>1. Grows(Visible(y, v, hidden), Visible(tiles[t], v, hidden), 0, tiles[t].ground)
        BY <1>1, <3>1, <3>2, GroundGrows
      <4>2. screen[v][t] \in {Lost, Cut(Visible(tiles[t], v, hidden))}
        BY <3>4, ViewFacts
      <4>3. StackposOfItem(tiles[t], list, k, v) = AsSent(0)
        BY <1>1, <2>1, StackposIs, TileViewAssumption DEF AsSent
      <4> DEFINE shown == screen[v][t]
                 told == Removed(shown, AsSent(0), Full(tiles[t], v))
      <4> HIDE DEF shown
      <4>4. /\ told \in {Lost, Cut(Visible(y, v, hidden))}
            /\ (shown # Lost /\ Len(Visible(tiles[t], v, hidden)) <= Limit) => told = Cut(Visible(y, v, hidden))
        BY <4>1, <4>2, RemovedTrue DEF Full, shown
      <4>5. Cut(Visible(y, v, hidden)) # Lost
        BY <3>1, ShownIsKnown
      <4>6. Len(Visible(tiles[t], v, hidden)) \in Nat /\ Limit \in Nat
        BY <1>1, TileParts, TileViewAssumption
      <4>7. told = Lost => shown = Lost \/ Over(tiles[t], v)
        BY <4>4, <4>5, <4>6 DEF Over
      <4> QED
        BY <4>3, <4>4, <4>7 DEF shown
    <3> QED
      BY <3>1, <3>3, <3>4
  <2>2. CASE list # "ground"
    <3> DEFINE w == RemoveAt(tiles[t][list], k)
               a == tiles[t][list][k]
    <3>1. list \in {"top", "down"} /\ k \in DOMAIN tiles[t][list]
      BY <2>2 DEF TakeItem
    <3>2. tiles[t][list] \in Seq(Kinds(list)) /\ tiles[t][list] \in Seq(Things)
      BY <1>1, <3>1, TileList
    <3>3. k \in 1..Len(tiles[t][list]) /\ k \in Nat \ {0}
      BY <3>1, <3>2
    <3>4. w \in Seq(Kinds(list))
      BY <3>2, <3>3, RemoveAtIs
    <3>5. Grows(w, tiles[t][list], k - 1, a)
      BY <3>2, <3>3, RemoveGrows
    <3>6. y = [tiles[t] EXCEPT ![list] = w]
      BY <2>2 DEF y
    <3> HIDE DEF w, a
    <3>7. y \in Tile /\ y[list] = w /\ SameBut(list, tiles[t], y)
      <4> DEFINE z == [tiles[t] EXCEPT ![list] = w]
      <4>1. z \in Tile /\ z[list] = w /\ SameBut(list, tiles[t], z)
        BY <1>1, <3>1, <3>4, TileWith
      <4> HIDE DEF z
      <4>2. y = z
        BY <3>6 DEF z
      <4> QED
        BY <4>1, <4>2
    <3>8. SameBut(list, y, tiles[t]) /\ y.beings = tiles[t].beings
      BY <3>7 DEF SameBut
    <3>9. Grows(y[list], tiles[t][list], k - 1, a)
      BY <3>5, <3>7
    <3>11. ThingCount(tiles[t]) = ThingCount(y) + 1
      BY <1>1, <3>1, <3>7, <3>8, <3>9, CountGrows
    <3>12. ASSUME NEW v \in Viewers, CanSee(tiles, v, t)
           PROVE  /\ removed(v) \in {Lost, Cut(Visible(y, v, hidden))}
                  /\ removed(v) = Lost => screen[v][t] = Lost \/ Over(tiles[t], v)
      <4>1. screen[v][t] \in {Lost, Cut(Visible(tiles[t], v, hidden))}
        BY <3>12, ViewFacts
      <4>2. Follows(removed(v), screen[v][t], Visible(y, v, hidden), Over(tiles[t], v))
        BY <1>1, <3>1, <3>3, <3>7, <3>8, <3>9, <4>1, ItemRemoved
      <4> QED
        BY <4>2, Zenon DEF Follows
    <3> QED
      BY <3>7, <3>8, <3>11, <3>12
  <2> QED
    BY <2>1, <2>2
<1> HIDE DEF removed
<1>6. ASSUME NEW v \in Viewers, CanSee(tiles, v, t)
      PROVE  new[v] \in {Lost, Described(y, v, hidden)} /\ (new[v] = Lost => ThingCount(y) > Limit)
  <2>1. screen[v][t] = Lost \/ Over(tiles[t], v) => ThingCount(tiles[t]) > Limit
    BY <1>1, <1>6, ViewFacts, FullCounts
  <2>2. ThingCount(y) <= Resend => removed(v) # Lost
    BY <1>5, <1>6, <2>1, CountIs, TileViewAssumption
  <2>3. new[v] = Cut(Visible(y, v, hidden))
    BY <1>4, <1>5, <1>6, <2>2, SentAgainIs
  <2> QED
    BY <1>5, <2>3, ShownIsKnown DEF Described
<1> QED
  BY <1>1, <1>2, <1>3, <1>5, <1>6, ItemStep

(* So do Tile::updateThing and replaceThing.                               *)
LEMMA UpdateItemTrue ==
    ASSUME ViewInv, NEW t \in Tiles, NEW list \in {"top", "down"}, NEW k \in Nat, NEW x,
           NEW removal \in {"first", "last", "none"}, UpdateItem(t, list, k, x, removal)
    PROVE  ViewInv'
<1>1. tiles[t] \in Tile /\ tiles \in [Tiles -> Tile] /\ hidden' = hidden
  BY ViewFacts DEF ViewInv, Typed, UpdateItem
<1> DEFINE w == [tiles[t][list] EXCEPT ![k] = x]
           y == [tiles[t] EXCEPT ![list] = w]
<1>2. x \in Kinds(list) /\ k \in DOMAIN tiles[t][list]
  BY DEF UpdateItem, Kinds
<1>3. tiles[t][list] \in Seq(Kinds(list)) /\ tiles[t][list] \in Seq(Things) /\ Kinds(list) \subseteq Things
  BY <1>1, TileList
<1>4. k \in 1..Len(tiles[t][list]) /\ k \in Nat \ {0}
  BY <1>2, <1>3
<1>5. w \in Seq(Kinds(list))
  BY <1>2, <1>3, <1>4
<1>6. Differs(tiles[t][list], w, k - 1, x)
  <2> DEFINE s == tiles[t][list]
  <2>1. s \in Seq(Things) /\ k \in 1..Len(s) /\ x \in Things
    BY <1>2, <1>3, <1>4
  <2> HIDE DEF s
  <2>2. Differs(s, [s EXCEPT ![k] = x], k - 1, x)
    BY <2>1 DEF Differs
  <2> QED
    BY <2>2 DEF s
<1>7. tiles' = [tiles EXCEPT ![t] = y]
  BY DEF UpdateItem
<1> HIDE DEF w
<1>8. y \in Tile /\ y[list] = w /\ SameBut(list, tiles[t], y)
  BY <1>1, <1>5, TileWith
<1> HIDE DEF y
<1>9. y.beings = tiles[t].beings /\ tiles'[t] = y
  BY <1>1, <1>7, <1>8 DEF SameBut
<1> DEFINE before(v) == IF removal = "first" THEN SentAgain(tiles[t], v, hidden, screen[v][t]) ELSE screen[v][t]
           told(v, x0) == Changed(before(v), StackposOfItem(x0, list, k, v), x)
           last(v, x0) == IF removal = "last" THEN SentAgain(x0, v, hidden, told(v, x0)) ELSE told(v, x0)
           new == [v \in Viewers |-> last(v, y)]
<1>10. screen' = [v \in Viewers |-> IF CanSee(tiles, v, t) THEN [screen[v] EXCEPT ![t] = new[v]] ELSE screen[v]]
  <2>1. screen' = [v \in Viewers |-> IF CanSee(tiles, v, t) THEN [screen[v] EXCEPT ![t] = last(v, tiles'[t])] ELSE screen[v]]
    BY Zenon DEF UpdateItem, ToldOf
  <2> HIDE DEF last
  <2> QED
    BY <1>9, <2>1
<1>11. \A v \in Viewers : new[v] = IF removal = "last" THEN SentAgain(y, v, hidden, told(v, y)) ELSE told(v, y)
  OBVIOUS
<1> HIDE DEF new, last
<1>12. Differs(tiles[t][list], y[list], k - 1, x)
  BY <1>6, <1>8
<1>a. ThingCount(y) = ThingCount(tiles[t])
  <2>1. Len(y[list]) = Len(tiles[t][list]) /\ Len(tiles[t][list]) \in Nat
    BY <1>12 DEF Differs
  <2>2. ThingCount(y) = ThingCount(tiles[t]) + 0
    BY <1>1, <1>8, <2>1, CountWith
  <2> QED
    BY <1>1, <2>2, CountIs
<1>13. ASSUME NEW v \in Viewers, CanSee(tiles, v, t)
       PROVE  new[v] \in {Lost, Described(y, v, hidden)} /\ (new[v] = Lost => ThingCount(y) > Limit)
  <2>1. /\ screen[v][t] \in {Lost, Cut(Visible(tiles[t], v, hidden))}
        /\ screen[v][t] = Lost => ThingCount(tiles[t]) > Limit
    BY <1>13, ViewFacts
  <2>2. /\ before(v) \in {Lost, Cut(Visible(tiles[t], v, hidden))}
        /\ before(v) = Lost => ThingCount(tiles[t]) > Limit
    BY <2>1 DEF SentAgain, Described, before
  <2> HIDE DEF before
  <2>3. /\ told(v, y) \in {Lost, Cut(Visible(y, v, hidden))}
        /\ told(v, y) = Lost => before(v) = Lost
    BY <1>1, <1>4, <1>8, <1>12, <2>2, ItemChanged
  <2> HIDE DEF told
  <2>4. SentAgain(y, v, hidden, told(v, y)) \in {told(v, y), Cut(Visible(y, v, hidden))}
    BY DEF SentAgain, Described
  <2>5. Cut(Visible(y, v, hidden)) # Lost
    BY <1>8, ShownIsKnown
  <2>6. new[v] \in {told(v, y), Cut(Visible(y, v, hidden))}
    BY <1>11, <2>4
  <2> QED
    BY <1>a, <2>2, <2>3, <2>5, <2>6 DEF Described
<1> QED
  BY <1>1, <1>7, <1>8, <1>9, <1>10, <1>13, ItemStep

(* A list that a creature is in: those before it, and those after.         *)
Parted(s, c, p, q) ==
    /\ s = Append(p, c) \o q /\ Without(s, c) = p \o q
    /\ c \notin ToSet(p) /\ c \notin ToSet(q)

(* A list whose elements are all of another.                               *)
LEMMA ElemsWithin ==
    ASSUME NEW r, NEW s, \A i \in DOMAIN r : \E j \in DOMAIN s : r[i] = s[j]
    PROVE  ToSet(r) \subseteq ToSet(s)
  BY DEF ToSet

(* A list without repetition is parted by each of its elements.            *)
LEMMA Parts ==
    ASSUME NEW S, NEW s \in Seq(S), IsInjective(s), NEW k \in 1..Len(s)
    PROVE  \E p, q \in Seq(S) : /\ Parted(s, s[k], p, q) /\ Len(p) = k - 1
                                /\ \A i \in 1..(k - 1) : p[i] = s[i]
<1> DEFINE c == s[k]
<1>1. PICK p : p = SubSeq(s, 1, k - 1)
  OBVIOUS
<1>2. PICK q : q = SubSeq(s, k + 1, Len(s))
  OBVIOUS
<1>3. /\ p \in Seq(S) /\ Len(p) = k - 1 /\ \A i \in 1..(k - 1) : p[i] = s[i]
      /\ q \in Seq(S) /\ Len(q) = Len(s) - k /\ \A i \in 1..(Len(s) - k) : q[i] = s[k + i]
  BY <1>1, <1>2, SMTT(30)
<1>4. c \in S /\ Len(s) \in Nat /\ k \in Nat /\ 1 <= k /\ k <= Len(s)
  OBVIOUS
<1>5. \A i, j \in 1..Len(s) : s[i] = s[j] => i = j
  BY DEF IsInjective
<1>6. c \notin ToSet(p)
  <2>1. ASSUME NEW i \in 1..(k - 1) PROVE p[i] # c
    BY <1>3, <1>4, <1>5
  <2>2. DOMAIN p = 1..(k - 1)
    BY <1>3
  <2> QED
    BY <2>1, <2>2 DEF ToSet
<1>7. c \notin ToSet(q)
  <2>1. ASSUME NEW i \in 1..(Len(s) - k) PROVE q[i] # c
    <3>1. k + i \in 1..Len(s) /\ k + i # k
      BY <1>4
    <3> QED
      BY <1>3, <1>5, <3>1
  <2>2. DOMAIN q = 1..(Len(s) - k)
    BY <1>3
  <2> QED
    BY <2>1, <2>2 DEF ToSet
<1>8. s = Append(p, c) \o q
  <2> DEFINE a == Append(p, c)
  <2>1. a \in Seq(S) /\ Len(a) = k /\ a[k] = c /\ \A i \in 1..(k - 1) : a[i] = s[i]
    BY <1>3, <1>4
  <2> HIDE DEF a
  <2> DEFINE r == a \o q
  <2>2. r \in Seq(S) /\ Len(r) = Len(s)
    BY <1>3, <1>4, <2>1
  <2>3. ASSUME NEW i \in 1..Len(s) PROVE r[i] = s[i]
    <3>1. r[i] = IF i <= k THEN a[i] ELSE q[i - k]
      BY <1>3, <1>4, <2>1
    <3> HIDE DEF r
    <3>2. CASE i <= k - 1
      BY <1>4, <2>1, <3>1, <3>2
    <3>3. CASE i = k
      BY <1>4, <2>1, <3>1, <3>3
    <3>4. CASE i > k
      <4>1. i - k \in 1..(Len(s) - k) /\ k + (i - k) = i
        BY <1>4, <3>4
      <4> QED
        BY <1>3, <1>4, <3>1, <3>4, <4>1
    <3> QED
      BY <1>4, <3>2, <3>3, <3>4
  <2> HIDE DEF r
  <2> QED
    BY <2>2, <2>3, SameSeq, Zenon DEF r, a
<1> DEFINE kept == ToSet(s) \ {c}
<1>9. ToSet(p) \subseteq kept /\ ToSet(q) \subseteq kept
  <2>1. ToSet(p) \subseteq ToSet(s)
    <3>1. DOMAIN p = 1..(k - 1) /\ DOMAIN s = 1..Len(s)
      BY <1>3
    <3>2. ASSUME NEW i \in 1..(k - 1) PROVE i \in 1..Len(s) /\ p[i] = s[i]
      BY <1>3, <1>4
    <3> QED
      BY <3>1, <3>2, ElemsWithin
  <2>2. ToSet(q) \subseteq ToSet(s)
    <3>1. DOMAIN q = 1..(Len(s) - k) /\ DOMAIN s = 1..Len(s)
      BY <1>3
    <3>2. ASSUME NEW i \in 1..(Len(s) - k) PROVE k + i \in 1..Len(s)
      BY <1>4
    <3>3. ASSUME NEW i \in 1..(Len(s) - k) PROVE q[i] = s[k + i]
      BY <1>3
    <3> QED
      BY <3>1, <3>2, <3>3, ElemsWithin
  <2> QED
    BY <2>1, <2>2, <1>6, <1>7
<1>10. Without(s, c) = p \o q
  <2> DEFINE a == Append(p, c)
  <2>1. a \in Seq(S)
    BY <1>3, <1>4
  <2>0. c \notin kept /\ c \in S
    BY <1>4
  <2>a. p \in Seq(S) /\ q \in Seq(S)
    BY <1>3
  <2> HIDE DEF a, kept, c
  <2>2. Among(a \o q, kept) = Among(a, kept) \o Among(q, kept)
    BY <2>1, <2>a, AmongConcat, SMTT(30)
  <2>3. Among(Append(p, c), kept) = Among(p, kept)
    BY <2>0, <2>a, AmongOneMore
  <2>4. Among(p, kept) = p /\ Among(q, kept) = q
    BY <1>9, <2>a, AmongAll
  <2> QED
    BY <1>8, <2>2, <2>3, <2>4, Zenon DEF Without, a, kept, c
<1> QED
  BY <1>3, <1>6, <1>7, <1>8, <1>10 DEF Parted

(* What a player sees of a list that is parted.                            *)
LEMMA PartedSeen ==
    ASSUME NEW S, NEW s \in Seq(S), NEW c \in S, NEW p \in Seq(S), NEW q \in Seq(S), Parted(s, c, p, q),
           NEW seen
    PROVE  /\ Among(s, seen) = (IF c \in seen THEN Append(Among(p, seen), c) ELSE Among(p, seen)) \o Among(q, seen)
           /\ Among(Without(s, c), seen) = Among(p, seen) \o Among(q, seen)
<1> DEFINE a == Append(p, c)
<1>1. a \in Seq(S) /\ s = a \o q
  BY DEF Parted
<1> HIDE DEF a
<1>2. Among(s, seen) = Among(a, seen) \o Among(q, seen)
  BY <1>1, AmongConcat
<1>3. Among(Append(p, c), seen) = IF c \in seen THEN Append(Among(p, seen), c) ELSE Among(p, seen)
  BY AmongOneMore
<1>4. Among(Without(s, c), seen) = Among(p, seen) \o Among(q, seen)
  BY AmongConcat DEF Parted
<1> QED
  BY <1>2, <1>3, <1>4 DEF a

(* Without leaves out one element.                                         *)
LEMMA WithoutIs ==
    ASSUME NEW S, NEW s \in Seq(S), NEW c
    PROVE  Without(s, c) \in Seq(S) /\ ToSet(Without(s, c)) = ToSet(s) \ {c}
  BY AmongType, AmongElems DEF Without

(* It brings in no repetition.                                             *)
LEMMA WithoutInjective ==
    ASSUME NEW S, NEW s \in Seq(S), IsInjective(s), NEW c \in ToSet(s)
    PROVE  IsInjective(Without(s, c))
<1>1. PICK k \in 1..Len(s) : s[k] = c
  BY DEF ToSet
<1>2. PICK p, q \in Seq(S) : Parted(s, c, p, q) /\ Len(p) = k - 1
  BY <1>1, Parts
<1>3. s = Append(p, c) \o q /\ Without(s, c) = p \o q
  BY <1>2 DEF Parted
<1> DEFINE r == p \o q
           a == Append(p, c)
<1>4. c \in S /\ Len(s) \in Nat /\ Len(p) \in Nat /\ Len(q) \in Nat
  BY <1>1
<1>5. a \in Seq(S) /\ Len(a) = Len(p) + 1 /\ \A i \in 1..Len(p) : a[i] = p[i]
  BY <1>4
<1> HIDE DEF a
<1>6. s = a \o q /\ Len(s) = Len(a) + Len(q)
  BY <1>3, <1>5 DEF a
<1>7. \A i \in 1..Len(s) : s[i] = IF i <= Len(a) THEN a[i] ELSE q[i - Len(a)]
  BY <1>5, <1>6
<1>8. Len(r) = Len(p) + Len(q) /\ DOMAIN r = 1..Len(r)
      /\ \A i \in 1..Len(r) : r[i] = IF i <= Len(p) THEN p[i] ELSE q[i - Len(p)]
  OBVIOUS
<1> HIDE DEF r
<1> DEFINE at(i) == IF i <= Len(p) THEN i ELSE i + 1
<1>9. ASSUME NEW i \in 1..Len(r) PROVE at(i) \in 1..Len(s) /\ r[i] = s[at(i)]
  <2>1. CASE i <= Len(p)
    <3>1. i \in 1..Len(p) /\ i \in 1..Len(s) /\ i <= Len(a)
      BY <1>4, <1>5, <1>6, <2>1
    <3>2. r[i] = p[i] /\ s[i] = a[i] /\ a[i] = p[i]
      BY <1>5, <1>7, <1>8, <2>1, <3>1
    <3> QED
      BY <2>1, <3>1, <3>2
  <2>2. CASE i > Len(p)
    <3>1. i + 1 \in 1..Len(s) /\ ~(i + 1 <= Len(a)) /\ (i + 1) - Len(a) = i - Len(p) /\ ~(i <= Len(p))
      BY <1>4, <1>5, <1>6, <1>8, <2>2
    <3> QED
      BY <1>7, <1>8, <3>1
  <2> QED
    BY <1>4, <2>1, <2>2
<1>10. \A i, j \in 1..Len(r) : at(i) = at(j) => i = j
  BY <1>4, <1>8
<1>11. \A i, j \in 1..Len(s) : s[i] = s[j] => i = j
  BY DEF IsInjective
<1> HIDE DEF at
<1>12. \A i, j \in 1..Len(r) : r[i] = r[j] => i = j
  BY <1>9, <1>10, <1>11
<1> QED
  BY <1>3, <1>8, <1>12 DEF IsInjective, r

(* It undoes an arrival.                                                   *)
LEMMA WithoutLast ==
    ASSUME NEW S, NEW s \in Seq(S), NEW c \in S, c \notin ToSet(s)
    PROVE  Without(Append(s, c), c) = s
<1> DEFINE kept == ToSet(Append(s, c)) \ {c}
<1>1. Among(Append(s, c), kept) = Among(s, kept)
  BY AmongOneMore
<1>2. ToSet(s) \subseteq kept
  BY PushElems
<1>3. Among(s, kept) = s
  BY <1>2, AmongAll
<1> QED
  BY <1>1, <1>3 DEF Without

(* v sees of the others the same with these hidden as with those.          *)
SameOthers(v, c, who, others) ==
    \A b \in Creatures \ {c} : CanSeeCreature(v, b, who) <=> CanSeeCreature(v, b, others)

(* Then v sees the same of a list that c is not in.                        *)
LEMMA SeenOfOthers ==
    ASSUME NEW s \in Seq(Creatures), NEW v, NEW c, c \notin ToSet(s), NEW who, NEW others,
           SameOthers(v, c, who, others)
    PROVE  Among(s, SeenBy(v, who)) = Among(s, SeenBy(v, others))
<1>1. ASSUME NEW b \in ToSet(s) PROVE b \in SeenBy(v, who) <=> b \in SeenBy(v, others)
  <2>1. b \in Creatures \ {c}
    BY DEF ToSet
  <2> QED
    BY <2>1 DEF SameOthers, SeenBy, Creatures
<1> QED
  BY <1>1, AmongAgree

(* Tile::getClientIndexOfCreature finds the creature.                      *)
LEMMA IndexIs ==
    ASSUME NEW x \in Tile, NEW v, NEW who, NEW c \in ToSet(x.beings), IsInjective(x.beings)
    PROVE  \E p, q \in Seq(Creatures) :
              Parted(x.beings, c, p, q)
              /\ ClientIndexOfCreature(x, v, c, who) = Under(x) + Len(Among(p, SeenBy(v, who)))
<1> DEFINE s == x.beings
<1>1. s \in Seq(Creatures) /\ DOMAIN s = 1..Len(s) /\ Len(s) \in Nat
  BY DEF Tile
<1> HIDE DEF s
<1>2. PICK k \in 1..Len(s) : s[k] = c
  BY <1>1 DEF ToSet, s
<1>3. PICK p, q \in Seq(Creatures) : Parted(s, c, p, q) /\ Len(p) = k - 1 /\ \A i \in 1..(k - 1) : p[i] = s[i]
  BY <1>1, <1>2, Parts, ZenonT(30) DEF s
<1> DEFINE I == {i \in 1..Len(s) : s[i] = c}
<1>4. I = {k}
  BY <1>1, <1>2 DEF IsInjective, s
<1>5. SelectInSeq(s, LAMBDA b : b = c) = Min(I)
  <2>1. I # {}
    BY <1>4
  <2> QED
    BY <2>1, Zenon DEF SelectInSeq
<1> HIDE DEF I
<1>6. Min(I) = k
  <2>1. I \subseteq Nat /\ I # {}
    BY <1>4
  <2>2. Min(I) \in I
    BY <2>1, MinIn
  <2> QED
    BY <1>4, <2>2
<1> DEFINE before == {i \in 1..(SelectInSeq(s, LAMBDA b : b = c) - 1) : CanSeeCreature(v, s[i], who)}
<1>7. before = PlacesIn(p, SeenBy(v, who))
  <2>1. before = {i \in 1..(k - 1) : CanSeeCreature(v, s[i], who)}
    BY <1>5, <1>6
  <2>2. DOMAIN p = 1..(k - 1)
    BY <1>3
  <2>3. ASSUME NEW i \in 1..(k - 1) PROVE CanSeeCreature(v, s[i], who) <=> p[i] \in SeenBy(v, who)
    <3>1. p[i] \in Creatures /\ p[i] = s[i]
      BY <1>3
    <3> QED
      BY <3>1 DEF SeenBy, Creatures
  <2> QED
    BY <2>1, <2>2, <2>3 DEF PlacesIn
<1>8. Cardinality(before) = Len(Among(p, SeenBy(v, who)))
  BY <1>3, <1>7, AmongCount
<1>9. ClientIndexOfCreature(x, v, c, who) = Under(x) + Cardinality(before)
  BY Zenon DEF ClientIndexOfCreature, Under, s
<1> QED
  BY <1>3, <1>8, <1>9 DEF s

(* Two players who see the same of the others count the same number.       *)
LEMMA IndexAgrees ==
    ASSUME NEW x \in Tile, NEW v, NEW who, NEW c \in ToSet(x.beings), IsInjective(x.beings),
           NEW others, NEW w,
           \A b \in Creatures \ {c} : CanSeeCreature(v, b, who) <=> CanSeeCreature(w, b, others)
    PROVE  ClientIndexOfCreature(x, v, c, who) = ClientIndexOfCreature(x, w, c, others)
<1> DEFINE s == x.beings
           upto == SelectInSeq(s, LAMBDA b : b = c) - 1
<1>1. s \in Seq(Creatures) /\ DOMAIN s = 1..Len(s) /\ Len(s) \in Nat
  BY DEF Tile
<1> HIDE DEF s
<1>2. PICK k \in 1..Len(s) : s[k] = c
  BY <1>1 DEF ToSet, s
<1> DEFINE I == {i \in 1..Len(s) : s[i] = c}
<1>4. I = {k}
  BY <1>1, <1>2 DEF IsInjective, s
<1>5. SelectInSeq(s, LAMBDA b : b = c) = Min(I)
  <2>1. I # {}
    BY <1>4
  <2> QED
    BY <2>1, Zenon DEF SelectInSeq
<1> HIDE DEF I
<1>6. upto = k - 1
  <2>1. I \subseteq Nat /\ I # {}
    BY <1>4
  <2>2. Min(I) \in I
    BY <2>1, MinIn
  <2> QED
    BY <1>4, <1>5, <2>2
<1> HIDE DEF upto
<1>7. ASSUME NEW i \in 1..upto PROVE CanSeeCreature(v, s[i], who) <=> CanSeeCreature(w, s[i], others)
  <2>1. i \in 1..Len(s) /\ i # k
    BY <1>1, <1>6
  <2>2. s[i] \in Creatures \ {c}
    BY <1>1, <1>2, <2>1 DEF IsInjective, s
  <2> QED
    BY <2>2
<1>8. {i \in 1..upto : CanSeeCreature(v, s[i], who)} = {i \in 1..upto : CanSeeCreature(w, s[i], others)}
  BY <1>7
<1>9. /\ ClientIndexOfCreature(x, v, c, who)
           = Len(GroundOf(x)) + Len(x.top) + Cardinality({i \in 1..upto : CanSeeCreature(v, s[i], who)})
      /\ ClientIndexOfCreature(x, w, c, others)
           = Len(GroundOf(x)) + Len(x.top) + Cardinality({i \in 1..upto : CanSeeCreature(w, s[i], others)})
  BY Zenon DEF ClientIndexOfCreature, s, upto
<1> QED
  BY <1>8, <1>9

(* A tile without one of its creatures.                                    *)
LessOne(y, x, c) ==
    y.ground = x.ground /\ y.top = x.top /\ y.down = x.down /\ y.beings = Without(x.beings, c)

(* It has one thing less.                                                  *)
LEMMA CountLess ==
    ASSUME NEW x \in Tile, NEW y \in Tile, NEW c \in ToSet(x.beings), IsInjective(x.beings), LessOne(y, x, c)
    PROVE  ThingCount(x) = ThingCount(y) + 1 /\ ThingCount(y) \in Nat
<1> DEFINE s == x.beings
<1>1. s \in Seq(Creatures)
  BY DEF Tile
<1>2. PICK k \in 1..Len(s) : s[k] = c
  BY <1>1 DEF ToSet
<1>3. PICK p, q \in Seq(Creatures) : Parted(s, c, p, q)
  BY <1>1, <1>2, Parts, ZenonT(30)
<1>4. s = Append(p, c) \o q /\ y.beings = p \o q /\ GroundOf(y) = GroundOf(x) /\ y.top = x.top /\ y.down = x.down
  BY <1>3 DEF Parted, LessOne, GroundOf
<1> DEFINE m == Len(p)  n == Len(q)  b == Len(s)  e == Len(y.beings)  d == Len(x.down)
<1>5. m \in Nat /\ n \in Nat /\ Len(p \o q) = m + n
  OBVIOUS
<1>6. Len(Append(p, c) \o q) = m + 1 + n
  <2>1. c \in Creatures
    BY <1>1, <1>2
  <2> DEFINE a == Append(p, c)
  <2>2. a \in Seq(Creatures) /\ Len(a) = m + 1
    BY <2>1
  <2> HIDE DEF a
  <2>3. Len(a \o q) = Len(a) + n
    BY <2>2
  <2> QED
    BY <2>2, <2>3 DEF a
<1>7. b = m + 1 + n /\ e = m + n
  BY <1>4, <1>5, <1>6, Zenon
<1>8. /\ ThingCount(x) = Under(x) + b + d /\ ThingCount(y) = Under(x) + e + d
      /\ Under(x) \in Nat /\ d \in Nat
  <2>1. Under(y) = Under(x)
    BY <1>4, Zenon DEF Under
  <2> QED
    BY <1>4, <2>1, CountIs, Zenon
<1> HIDE DEF m, n, b, e, d
<1> QED
  BY <1>5, <1>7, <1>8

(* A creature that the player sees is shown at its number, another is not. *)
LEMMA CreatureShows ==
    ASSUME NEW x \in Tile, NEW y \in Tile, NEW c \in ToSet(x.beings), IsInjective(x.beings), LessOne(y, x, c),
           NEW v, NEW who, NEW others, SameOthers(v, c, who, others)
    PROVE  /\ CanSeeCreature(v, c, who)
                => Grows(Visible(y, v, others), Visible(x, v, who), ClientIndexOfCreature(x, v, c, who), c)
           /\ ~CanSeeCreature(v, c, who) => Visible(y, v, others) = Visible(x, v, who)
<1>1. PICK p, q \in Seq(Creatures) :
        Parted(x.beings, c, p, q)
        /\ ClientIndexOfCreature(x, v, c, who) = Under(x) + Len(Among(p, SeenBy(v, who)))
  BY IndexIs
<1>2. x.beings \in Seq(Creatures) /\ c \in Creatures /\ c \in Things
  <2>1. x.beings \in Seq(Creatures)
    BY DEF Tile
  <2>2. c \in Creatures
    BY <2>1 DEF ToSet
  <2> QED
    BY <2>1, <2>2 DEF Creatures, Things
<1> DEFINE P == Among(p, SeenBy(v, who))
           Q == Among(q, SeenBy(v, who))
<1>3. Seen(x, v, who) = (IF c \in SeenBy(v, who) THEN Append(P, c) ELSE P) \o Q
  BY <1>1, <1>2, PartedSeen, SMTT(30) DEF Seen
<1>4. Seen(y, v, others) = P \o Q
  <2>1. Seen(y, v, others) = Among(p, SeenBy(v, others)) \o Among(q, SeenBy(v, others))
    BY <1>1, <1>2, PartedSeen, SMTT(30) DEF Seen, LessOne
  <2>2. c \notin ToSet(p) /\ c \notin ToSet(q)
    BY <1>1 DEF Parted
  <2>3. Among(p, SeenBy(v, others)) = P /\ Among(q, SeenBy(v, others)) = Q
    BY <2>2, SeenOfOthers
  <2> QED
    BY <2>1, <2>3
<1>5. P \in Seq(Things) /\ Q \in Seq(Things)
  <2>1. P \in Seq(Creatures) /\ Q \in Seq(Creatures)
    BY AmongType
  <2>2. Creatures \subseteq Things
    BY DEF Creatures, Things
  <2> QED
    BY <2>1, <2>2
<1>6. c \in SeenBy(v, who) <=> CanSeeCreature(v, c, who)
  BY <1>2 DEF SeenBy, Creatures
<1> HIDE DEF P, Q
<1>7. ASSUME CanSeeCreature(v, c, who)
      PROVE  Grows(Visible(y, v, others), Visible(x, v, who), ClientIndexOfCreature(x, v, c, who), c)
  <2>1. Grows(P, Append(P, c), Len(P), c)
    BY <1>2, <1>5, PushGrows
  <2> DEFINE a == Append(P, c)
             n == Len(P)
  <2> HIDE DEF a, n
  <2>2. Grows(P, a, n, c)
    BY <2>1 DEF a, n
  <2>3. Grows(P \o Q, a \o Q, n, c)
    BY <1>5, <2>2, GrowsBefore
  <2>4. Grows(Seen(y, v, others), Seen(x, v, who), n, c)
    BY <1>3, <1>4, <1>6, <1>7, <2>3 DEF a
  <2>5. Under(y) = Under(x) /\ x.ground = y.ground /\ x.top = y.top /\ x.down = y.down
    BY DEF LessOne, Under, GroundOf
  <2>6. Grows(Visible(y, v, others), Visible(x, v, who), Under(y) + n, c)
    BY <2>4, <2>5, BeingsGrow
  <2> QED
    BY <1>1, <2>5, <2>6 DEF n, P
<1>8. ASSUME ~CanSeeCreature(v, c, who)
      PROVE  Visible(y, v, others) = Visible(x, v, who)
  <2>1. Seen(y, v, others) = Seen(x, v, who)
    BY <1>3, <1>4, <1>6, <1>8
  <2>2. GroundOf(x) = GroundOf(y) /\ x.top = y.top /\ x.down = y.down
    BY DEF LessOne, GroundOf
  <2> QED
    BY <2>1, <2>2, TileParts, Zenon
<1> QED
  BY <1>7, <1>8

(* Tiles that the creature is not on look the same.                        *)
LEMMA ShowsOthers ==
    ASSUME NEW x \in Tile, NEW c, c \notin ToSet(x.beings), NEW v, NEW who, NEW others,
           SameOthers(v, c, who, others)
    PROVE  Visible(x, v, who) = Visible(x, v, others)
<1>1. x.beings \in Seq(Creatures)
  BY DEF Tile
<1>2. Seen(x, v, who) = Seen(x, v, others)
  BY <1>1, SeenOfOthers DEF Seen
<1> QED
  BY <1>2, Zenon DEF Visible, Seen

(* A creature leaves a tile.                                               *)
LEMMA LessOneTile ==
    ASSUME NEW x \in Tile, NEW c
    PROVE  /\ [x EXCEPT !.beings = Without(@, c)] \in Tile
           /\ LessOne([x EXCEPT !.beings = Without(@, c)], x, c)
<1>1. x.beings \in Seq(Creatures)
  BY DEF Tile
<1>2. Without(x.beings, c) \in Seq(Creatures)
  BY <1>1, WithoutIs
<1> QED
  BY <1>2 DEF Tile, LessOne

(* A creature comes to a tile, after the others.                           *)
LEMMA OneMoreTile ==
    ASSUME NEW x \in Tile, NEW c \in Creatures, c \notin ToSet(x.beings), IsInjective(x.beings)
    PROVE  LET y == [x EXCEPT !.beings = Append(@, c)]
           IN  /\ y \in Tile /\ LessOne(x, y, c) /\ c \in ToSet(y.beings)
               /\ ToSet(y.beings) = ToSet(x.beings) \cup {c} /\ IsInjective(y.beings)
<1>1. x.beings \in Seq(Creatures)
  BY DEF Tile
<1> DEFINE y == [x EXCEPT !.beings = Append(@, c)]
<1> DEFINE b == Append(x.beings, c)
<1>0. b \in Seq(Creatures)
  BY <1>1
<1> HIDE DEF b
<1>2. y \in Tile /\ y.beings = b /\ y.ground = x.ground /\ y.top = x.top /\ y.down = x.down
  BY <1>0 DEF Tile, b
<1> HIDE DEF y
<1>3. LessOne(x, y, c)
  BY <1>1, <1>2, WithoutLast DEF LessOne, b
<1>4. ToSet(y.beings) = ToSet(x.beings) \cup {c}
  BY <1>1, <1>2, PushElems DEF b
<1>5. IsInjective(y.beings)
  BY <1>1, <1>2, PushInjective DEF b
<1> QED
  BY <1>2, <1>3, <1>4, <1>5 DEF y

(* A creature that is not on the tile is not shown there.                  *)
LEMMA NotShown ==
    ASSUME NEW x \in Tile, NEW c \in Creatures, c \notin ToSet(x.beings), NEW v, NEW who
    PROVE  /\ c \notin ToSet(Visible(x, v, who)) /\ c # NoGround
           /\ \A shown \in {Lost, Cut(Visible(x, v, who))} : shown \in Seq(Things) /\ c \notin ToSet(shown)
<1> DEFINE s == Visible(x, v, who)
<1>1. c \notin ToSet(s) /\ c # NoGround
  BY VisibleElems, TileViewAssumption DEF Creatures
<1>2. s \in Seq(Things)
  BY TileParts
<1> HIDE DEF s
<1>3. ToSet(Cut(s)) \subseteq ToSet(s) /\ Cut(s) \in Seq(Things)
  <2>1. Cut(s) \in Seq(Things) /\ Len(s) \in Nat /\ Len(Cut(s)) = (IF Len(s) > Limit THEN Limit ELSE Len(s))
        /\ \A i \in 1..Len(Cut(s)) : Cut(s)[i] = s[i]
    BY <1>2, CutIs
  <2>2. DOMAIN Cut(s) = 1..Len(Cut(s))
    BY <2>1
  <2>3. DOMAIN s = 1..Len(s)
    BY <1>2
  <2>4. 1..Len(Cut(s)) \subseteq 1..Len(s)
    BY <2>1, TileViewAssumption
  <2> QED
    BY <2>1, <2>2, <2>3, <2>4 DEF ToSet
<1>4. Lost \in Seq(Things) /\ ToSet(Lost) = {NoGround}
  BY DEF Lost, Things, ToSet
<1> QED
  BY <1>1, <1>3, <1>4 DEF s

(* What a client shows of a tile is what it now holds, and the client only *)
(* loses it when a creature leaves it that was among too many.             *)
TakenSo(told, before, new, u, t, v) ==
    /\ told \in {Lost, Cut(new)}
    /\ told = Lost => before = Lost \/ (u = t /\ Over(tiles[t], v))

(* What the tile a creature leaves, and the others, are to a client that   *)
(* is told.                                                                *)
LEMMA TakenTrue ==
    ASSUME NEW t \in Tiles, NEW u \in Tiles, NEW v, NEW shown, shown = [w \in Tiles |-> shown[w]],
           tiles \in [Tiles -> Tile], Alone(tiles), NEW c \in ToSet(tiles[t].beings),
           NEW y \in Tile, LessOne(y, tiles[t], c), NEW others, SameOthers(v, c, hidden, others),
           CanSeeCreature(v, c, hidden), NEW n \in {-1, ClientIndexOfCreature(tiles[t], v, c, hidden)},
           shown[u] \in {Lost, Cut(Visible(tiles[u], v, hidden))}
    PROVE  TakenSo(Taken(v, shown, t, n, c)[u], shown[u],
                   Visible(IF u = t THEN y ELSE tiles[u], v, others), u, t, v)
<1> SUFFICES /\ Taken(v, shown, t, n, c)[u] \in {Lost, Cut(Visible(IF u = t THEN y ELSE tiles[u], v, others))}
             /\ Taken(v, shown, t, n, c)[u] = Lost => shown[u] = Lost \/ (u = t /\ Over(tiles[t], v))
  BY Zenon DEF TakenSo
<1> DEFINE s == Visible(y, v, others)
           r == Visible(tiles[t], v, hidden)
           k == ClientIndexOfCreature(tiles[t], v, c, hidden)
<1>1. tiles[t] \in Tile /\ tiles[u] \in Tile /\ IsInjective(tiles[t].beings)
      /\ tiles[t].beings \in Seq(Creatures)
  BY DEF Alone, Tile
<1>2. Grows(s, r, k, c)
  BY <1>1, CreatureShows
<1>3. c \in Creatures
  BY <1>1 DEF ToSet
<1>4. ASSUME u # t PROVE /\ shown[u] \in {Lost, Cut(Visible(tiles[u], v, others))}
                         /\ ClientForget(shown[u], c) = shown[u]
  <2>1. c \notin ToSet(tiles[u].beings)
    BY <1>4 DEF Alone
  <2>2. Visible(tiles[u], v, hidden) = Visible(tiles[u], v, others)
    BY <1>1, <2>1, ShowsOthers
  <2>3. shown[u] \in Seq(Things) /\ c \notin ToSet(shown[u])
    BY <1>1, <1>3, <2>1, NotShown
  <2> QED
    BY <2>2, <2>3, ForgetOther
<1>5. c \notin ToSet(s) /\ c # NoGround
  <2>1. c \notin ToSet(y.beings)
    BY <1>1, WithoutIs DEF LessOne
  <2> QED
    BY <1>3, <2>1, NotShown
<1>6. (Full(tiles[t], v) <=> Len(r) > Limit) /\ (Over(tiles[t], v) <=> Len(r) > Limit)
  BY DEF Full, Over
<1>a. Cut(s) # Lost
  BY ShownIsKnown
<1> HIDE DEF s, r, k
<1>7. CASE Len(r) > Limit
  <2>1. Taken(v, shown, t, n, c) = [shown EXCEPT ![t] = Lost]
    BY <1>6, <1>7 DEF Taken
  <2>2. CASE u = t
    BY <1>6, <1>7, <2>1, <2>2
  <2>3. CASE u # t
    BY <1>4, <2>1, <2>3
  <2> QED
    BY <2>2, <2>3
<1>8. CASE ~(Len(r) > Limit) /\ n \in 0..(Limit - 1)
  <2>1. Taken(v, shown, t, n, c) = [shown EXCEPT ![t] = ClientRemove(@, n)]
    BY <1>6, <1>8 DEF Taken
  <2>2. CASE u = t
    <3>1. n = k
      BY <1>8 DEF k
    <3>2. Len(r) <= Limit
      BY <1>2, <1>8, TileViewAssumption DEF Grows
    <3>3. shown[t] \in {Lost, Cut(r)}
      BY <2>2 DEF r
    <3>4. /\ ClientRemove(shown[t], n) \in {Lost, Cut(s)}
          /\ shown[t] # Lost => ClientRemove(shown[t], n) = Cut(s)
      BY <1>2, <3>1, <3>2, <3>3, RemoveTold
    <3> QED
      BY <1>a, <2>1, <2>2, <3>4 DEF s
  <2>3. CASE u # t
    BY <1>4, <2>1, <2>3
  <2> QED
    BY <2>2, <2>3
<1>9. CASE ~(Len(r) > Limit) /\ n \notin 0..(Limit - 1)
  <2>1. Taken(v, shown, t, n, c) = [w \in Tiles |-> ClientForget(shown[w], c)]
    BY <1>6, <1>9 DEF Taken
  <2>2. CASE u = t
    <3>2. Len(r) <= Limit
      BY <1>2, <1>9, TileViewAssumption DEF Grows
    <3>3. shown[t] \in {Lost, Cut(r)}
      BY <2>2 DEF r
    <3>4. /\ ClientForget(shown[t], c) \in {Lost, Cut(s)}
          /\ shown[t] # Lost => ClientForget(shown[t], c) = Cut(s)
      BY <1>2, <1>5, <3>2, <3>3, ForgetTold
    <3> QED
      BY <1>a, <2>1, <2>2, <3>4 DEF s
  <2>3. CASE u # t
    BY <1>4, <2>1, <2>3
  <2> QED
    BY <2>2, <2>3
<1> QED
  BY <1>7, <1>8, <1>9

(* The client shows something of each tile after it.                       *)
LEMMA TakenTyped ==
    ASSUME NEW v, NEW shown, NEW t, NEW n, NEW c, shown = [w \in Tiles |-> shown[w]]
    PROVE  Taken(v, shown, t, n, c) = [w \in Tiles |-> Taken(v, shown, t, n, c)[w]]
  BY DEF Taken

(* The map when one creature comes, goes or moves.                         *)
OthersStay(us, ts, c) ==
    \A u \in Tiles : IsInjective(us[u].beings) /\ ToSet(us[u].beings) \ {c} = ToSet(ts[u].beings) \ {c}

(* The creature stands on one tile at most.                                *)
NotTwice(us, c) == \A t, u \in Tiles : (c \in ToSet(us[t].beings) /\ c \in ToSet(us[u].beings)) => t = u

(* Then the others stand where they did and see what they saw.             *)
LEMMA MapChanged ==
    ASSUME NEW ts, Alone(ts), NEW us, NEW c, OthersStay(us, ts, c), NotTwice(us, c)
    PROVE  /\ Alone(us) /\ Somewhere(us) \ {c} = Somewhere(ts) \ {c}
           /\ \A v, u : v # c => (CanSee(us, v, u) <=> CanSee(ts, v, u))
<1>1. \A b, u : (u \in Tiles /\ b # c) => (b \in ToSet(us[u].beings) <=> b \in ToSet(ts[u].beings))
  BY DEF OthersStay
<1>2. Alone(us)
  <2>1. ASSUME NEW t \in Tiles, NEW u \in Tiles, t # u, NEW b \in ToSet(us[t].beings),
               b \in ToSet(us[u].beings)
        PROVE  FALSE
    <3>1. CASE b = c
      BY <2>1, <3>1 DEF NotTwice
    <3>2. CASE b # c
      BY <1>1, <2>1, <3>2 DEF Alone
    <3> QED
      BY <3>1, <3>2
  <2> QED
    BY <2>1 DEF Alone, OthersStay
<1>3. Somewhere(us) \ {c} = Somewhere(ts) \ {c}
  BY <1>1 DEF Somewhere
<1>4. ASSUME NEW v, NEW u, v # c
      PROVE  CanSee(us, v, u) <=> CanSee(ts, v, u)
  <2>1. v \in Somewhere(us) <=> v \in Somewhere(ts)
    BY <1>3, <1>4
  <2>2. CASE v \in Somewhere(ts)
    <3>1. TileOf(ts, v) \in Tiles /\ v \in ToSet(ts[TileOf(ts, v)].beings)
          /\ \A w \in Tiles : w # TileOf(ts, v) => v \notin ToSet(ts[w].beings)
      BY <2>2, Stands
    <3>2. v \in ToSet(us[TileOf(ts, v)].beings) /\ \A w \in Tiles : w # TileOf(ts, v)
          => v \notin ToSet(us[w].beings)
      BY <1>1, <1>4, <3>1
    <3>3. TileOf(us, v) = TileOf(ts, v)
      BY <3>1, <3>2, TileOfIs
    <3> QED
      BY <2>1, <3>3 DEF CanSee
  <2>3. CASE v \notin Somewhere(ts)
    BY <2>1, <2>3 DEF CanSee
  <2> QED
    BY <2>2, <2>3
<1> QED
  BY <1>2, <1>3, <1>4

(* The tile that a creature left is sent again, if the client lost it.     *)
LEMMA LeftBehindTrue ==
    ASSUME NEW t \in Tiles, NEW u \in Tiles, NEW v, NEW shown, shown = [w \in Tiles |-> shown[w]],
           tiles' \in [Tiles -> Tile], CanSee(tiles', v, u),
           shown[u] \in {Lost, Cut(Visible(tiles'[u], v, hidden'))},
           (u = t /\ ThingCount(tiles'[t]) <= Resend) => shown[u] # Lost
    PROVE  /\ LeftBehind(v, t, shown)[u] \in {Lost, Cut(Visible(tiles'[u], v, hidden'))}
           /\ LeftBehind(v, t, shown)[u] = Lost => u # t /\ shown[u] = Lost
<1>1. CASE u # t
  <2>1. LeftBehind(v, t, shown)[u] = shown[u]
    BY <1>1 DEF LeftBehind
  <2> QED
    BY <1>1, <2>1
<1>2. CASE u = t
  <2> DEFINE y == tiles'[t]
             now == SentAgain(y, v, hidden', shown[t])
  <2>1. y \in Tile /\ LeftBehind(v, t, shown)[t] = now
    BY <1>2 DEF LeftBehind
  <2> HIDE DEF y
  <2>2. shown[t] \in {Lost, Cut(Visible(y, v, hidden'))} /\ (ThingCount(y) <= Resend => shown[t] # Lost)
    BY <1>2 DEF y
  <2>3. now = Cut(Visible(y, v, hidden')) /\ Cut(Visible(y, v, hidden')) # Lost
    BY <2>1, <2>2, SentAgainIs, ShownIsKnown
  <2> HIDE DEF now
  <2> QED
    BY <1>2, <2>1, <2>3 DEF y
<1> QED
  BY <1>1, <1>2

(* The client shows something of each tile after it.                       *)
LEMMA LeftBehindTyped ==
    ASSUME NEW v, NEW t, NEW shown, shown = [w \in Tiles |-> shown[w]]
    PROVE  LeftBehind(v, t, shown) = [w \in Tiles |-> LeftBehind(v, t, shown)[w]]
  BY DEF LeftBehind

(* What a step has to show for the invariant to go on.                     *)
LEMMA ViewAgain ==
    ASSUME tiles' \in [Tiles -> Tile], Alone(tiles'),
           hidden' \subseteq (Access \cup Monsters) \cap Somewhere(tiles'),
           \A v \in Viewers : screen'[v] = [u \in Tiles |-> screen'[v][u]], NEW f,
           screen' = [v \in Viewers |-> f[v]],
           \A v \in Viewers, u \in Tiles :
              CanSee(tiles', v, u)
                => /\ screen'[v][u] \in {Lost, Cut(Visible(tiles'[u], v, hidden'))}
                   /\ screen'[v][u] = Lost => ThingCount(tiles'[u]) > Limit
    PROVE  ViewInv'
<1>1. ScreenTyped(screen')
  BY DEF ScreenTyped
<1>2. ScreensTrue'
  BY Zenon DEF ScreensTrue, Described
<1> QED
  BY <1>1, <1>2 DEF ViewInv, Typed

(* Game::placeCreature keeps the screens true.                             *)
LEMMA PlaceTrue ==
    ASSUME ViewInv, NEW c \in Creatures, NEW t \in Tiles, PlaceCreature(c, t)
    PROVE  ViewInv'
<1> DEFINE y == [tiles[t] EXCEPT !.beings = Append(@, c)]
<1>1. tiles \in [Tiles -> Tile] /\ Alone(tiles)
      /\ hidden \subseteq (Access \cup Monsters) \cap Somewhere(tiles)
      /\ hidden' = hidden /\ c \notin Somewhere(tiles)
      /\ \A v \in Viewers : screen[v] = [u \in Tiles |-> screen[v][u]]
  BY DEF ViewInv, Typed, PlaceCreature, ScreenTyped
<1>2. tiles[t] \in Tile /\ IsInjective(tiles[t].beings) /\ \A u \in Tiles : c \notin ToSet(tiles[u].beings)
  BY <1>1 DEF Alone, Somewhere
<1>3. /\ y \in Tile /\ LessOne(tiles[t], y, c) /\ c \in ToSet(y.beings)
      /\ ToSet(y.beings) = ToSet(tiles[t].beings) \cup {c} /\ IsInjective(y.beings)
  BY <1>2, OneMoreTile
<1>4. tiles' = [tiles EXCEPT ![t] = y]
  BY DEF PlaceCreature
<1> HIDE DEF y
<1>5. tiles' \in [Tiles -> Tile] /\ tiles'[t] = y /\ \A u \in Tiles : u # t => tiles'[u] = tiles[u]
  BY <1>1, <1>3, <1>4
<1>6. OthersStay(tiles', tiles, c)
  <2>1. ASSUME NEW u \in Tiles
        PROVE  IsInjective(tiles'[u].beings) /\ ToSet(tiles'[u].beings) \ {c} = ToSet(tiles[u].beings) \ {c}
    <3>1. CASE u = t
      BY <1>3, <1>5, <3>1
    <3>2. CASE u # t
      BY <1>1, <1>5, <3>2 DEF Alone
    <3> QED
      BY <3>1, <3>2
  <2> QED
    BY <2>1 DEF OthersStay
<1>7. \A u \in Tiles : c \in ToSet(tiles'[u].beings) <=> u = t
  BY <1>2, <1>3, <1>5
<1>7a. NotTwice(tiles', c)
  BY <1>7 DEF NotTwice
<1>8. /\ Alone(tiles') /\ Somewhere(tiles') \ {c} = Somewhere(tiles) \ {c}
      /\ \A v, u : v # c => (CanSee(tiles', v, u) <=> CanSee(tiles, v, u))
  BY <1>1, <1>6, <1>7a, MapChanged
<1>9. c \in Somewhere(tiles') /\ TileOf(tiles', c) = t
  BY <1>7, TileOfIs
<1>10. hidden' \subseteq (Access \cup Monsters) \cap Somewhere(tiles')
  BY <1>1, <1>8
<1> DEFINE Told(v) == IF v = c THEN MapDescription(tiles', v, t, hidden)
                      ELSE IF ~CanSee(tiles', v, t) THEN screen[v]
                      ELSE Appeared(screen[v], t, ClientIndexOfCreature(tiles'[t], v, c, hidden), c,
                                    Described(tiles'[t], v, hidden))
           told == [v \in Viewers |-> Told(v)]
<1>11. screen' = [v \in Viewers |-> Told(v)]
  BY DEF PlaceCreature
<1>12. screen' = [v \in Viewers |-> told[v]] /\ \A v \in Viewers : screen'[v] = Told(v)
  BY <1>11
<1>13. \A v \in Viewers : screen'[v] = [u \in Tiles |-> screen'[v][u]]
  BY <1>1, <1>12 DEF MapDescription, Appeared
<1> HIDE DEF told
<1>14. ASSUME NEW v \in Viewers, NEW u \in Tiles, CanSee(tiles', v, u)
       PROVE  /\ screen'[v][u] \in {Lost, Cut(Visible(tiles'[u], v, hidden))}
              /\ screen'[v][u] = Lost => ThingCount(tiles'[u]) > Limit
  <2>1. CASE v = c
    <3>1. u \in Sight[t]
      BY <1>9, <1>14, <2>1 DEF CanSee
    <3>2. screen'[v] = MapDescription(tiles', v, t, hidden)
      BY <1>12, <2>1
    <3>3. screen'[v][u] = Cut(Visible(tiles'[u], v, hidden))
      BY <3>1, <3>2 DEF MapDescription, Described
    <3>4. Cut(Visible(tiles'[u], v, hidden)) # Lost
      <4>1. tiles'[u] \in Tile
        BY <1>5
      <4> QED
        BY <4>1, ShownIsKnown
    <3> QED
      BY <3>3, <3>4
  <2>2. CASE v # c
    <3>1. CanSee(tiles, v, u)
      BY <1>8, <1>14, <2>2
    <3>2. /\ screen[v][u] \in {Lost, Cut(Visible(tiles[u], v, hidden))}
          /\ screen[v][u] = Lost => ThingCount(tiles[u]) > Limit
      BY <3>1, ViewFacts
    <3>3. CASE u # t
      <4>1. screen'[v][u] = screen[v][u]
        BY <1>1, <1>12, <2>2, <3>3 DEF Appeared
      <4> QED
        BY <1>5, <3>2, <3>3, <4>1
    <3>4. CASE u = t
      <4> DEFINE n == ClientIndexOfCreature(tiles'[t], v, c, hidden)
      <4>1. c \notin hidden
        BY <1>1
      <4>2. CanSeeCreature(v, c, hidden) /\ SameOthers(v, c, hidden, hidden)
        BY <4>1 DEF CanSeeCreature, SameOthers
      <4>3. Grows(Visible(tiles[t], v, hidden), Visible(y, v, hidden), ClientIndexOfCreature(y, v, c, hidden), c)
        BY <1>2, <1>3, <4>2, CreatureShows
      <4>4. Grows(Visible(tiles[t], v, hidden), Visible(y, v, hidden), n, c)
        BY <1>5, <4>3
      <4>5. screen'[v] = Appeared(screen[v], t, n, c, Described(y, v, hidden))
        BY <1>5, <1>12, <1>14, <2>2, <3>4
      <4> HIDE DEF n
      <4>6. screen'[v][t] = IF n >= Limit THEN Described(y, v, hidden) ELSE ClientAdd(screen[v][t], n, c)
        BY <1>1, <4>5 DEF Appeared
      <4>7. /\ ClientAdd(screen[v][t], n, c) \in {Lost, Cut(Visible(y, v, hidden))}
            /\ screen[v][t] # Lost => ClientAdd(screen[v][t], n, c) = Cut(Visible(y, v, hidden))
        BY <3>2, <3>4, <4>4, AddTold
      <4>8. Cut(Visible(y, v, hidden)) # Lost
        BY <1>3, ShownIsKnown
      <4>9. screen'[v][t] \in {Lost, Cut(Visible(y, v, hidden))} /\ (screen'[v][t] = Lost => screen[v][t] = Lost)
        BY <4>6, <4>7, <4>8 DEF Described
      <4>10. ThingCount(y) = ThingCount(tiles[t]) + 1 /\ ThingCount(tiles[t]) \in Nat /\ Limit \in Nat
        BY <1>2, <1>3, CountLess, TileViewAssumption
      <4> QED
        BY <1>5, <3>2, <3>4, <4>9, <4>10
    <3> QED
      BY <3>3, <3>4
  <2> QED
    BY <2>1, <2>2
<1>15. \A v \in Viewers, u \in Tiles : CanSee(tiles', v, u)
         => /\ screen'[v][u] \in {Lost, Cut(Visible(tiles'[u], v, hidden'))}
            /\ screen'[v][u] = Lost => ThingCount(tiles'[u]) > Limit
  BY <1>1, <1>14
<1>16. screen' = [v \in Viewers |-> told[v]]
  BY <1>12
<1> HIDE DEF Told
<1> QED
  BY <1>5, <1>8, <1>10, <1>13, <1>15, <1>16, ViewAgain

(* An order of the spectators is a list of all of them.                    *)
LEMMA OrderIs ==
    ASSUME NEW W, IsFiniteSet(W), NEW order \in SetToSeqs(W)
    PROVE  order \in Seq(W) /\ ToSet(order) = W
<1> DEFINE n == Cardinality(W)
<1>1. n \in Nat
  BY FS_CardinalityType
<1>2. order \in [1..n -> W] /\ \A i, j \in 1..n : i # j => order[i] # order[j]
  BY DEF SetToSeqs
<1>3. IsFiniteSet(1..n) /\ Cardinality(1..n) = n
  BY <1>1, FS_Interval
<1>4. order \in Injection(1..n, W)
  BY <1>2 DEF Injection, IsInjective
<1> HIDE DEF n
<1>5. order \in Surjection(1..n, W)
  BY <1>3, <1>4, FS_Injection DEF n
<1>6. order \in Seq(W)
  BY <1>1, <1>2
<1> QED
  BY <1>2, <1>5, <1>6 DEF Surjection, ToSet

(* The spectators who see a creature, and the vector of old positions.     *)
Seeing(order, c, who) == Among(order, {v \in Viewers : CanSeeCreature(v, c, who)})
Entries(x, order, c, who) ==
    [i \in DOMAIN order |->
        IF CanSeeCreature(order[i], c, who) THEN ClientIndexOfCreature(x, order[i], c, who) ELSE -1]

(* Game::removeCreature: the entry that a player takes is its own number,  *)
(* or none.                                                                *)
LEMMA EntryTaken ==
    ASSUME NEW x \in Tile, IsInjective(x.beings), NEW c \in ToSet(x.beings),
           NEW who \in SUBSET (Access \cup Monsters),
           NEW spectators \in Seq(Viewers), NEW v \in ToSet(Seeing(spectators, c, who))
    PROVE  LET seeing == Seeing(spectators, c, who)
           IN  /\ Entries(x, spectators, c, who)[CHOOSE i \in DOMAIN seeing : seeing[i] = v]
                      \in {-1, ClientIndexOfCreature(x, v, c, who)}
               /\ CanSeeCreature(v, c, who) /\ v \in Viewers
<1> DEFINE seeing == Seeing(spectators, c, who)
           entries == Entries(x, spectators, c, who)
<1> DEFINE see == {w \in Viewers : CanSeeCreature(w, c, who)}
<1>1. /\ seeing \in Seq(Viewers) /\ Len(seeing) <= Len(spectators)
      /\ ToSet(seeing) = ToSet(spectators) \cap see
  BY AmongType, AmongElems DEF Seeing
<1>2. CanSeeCreature(v, c, who) /\ v \in Viewers
  BY <1>1
<1> HIDE DEF see
<1>3. \E i \in DOMAIN seeing : seeing[i] = v
  BY DEF ToSet
<1> DEFINE i == CHOOSE i \in DOMAIN seeing : seeing[i] = v
<1>4. i \in DOMAIN seeing /\ seeing[i] = v
  BY <1>3
<1> HIDE DEF i, seeing
<1>5. i \in DOMAIN spectators
  BY <1>1, <1>4
<1>6. spectators[i] \in Viewers
  BY <1>5
<1> DEFINE w == spectators[i]
<1>7. entries[i] = IF CanSeeCreature(w, c, who) THEN ClientIndexOfCreature(x, w, c, who) ELSE -1
  BY <1>5 DEF Entries
<1> HIDE DEF entries
<1>8. ASSUME ~CanSeeCreature(w, c, who)
      PROVE  entries[i] \in {-1, ClientIndexOfCreature(x, v, c, who)}
  BY <1>2, <1>7, <1>8
<1>9. ASSUME CanSeeCreature(w, c, who) /\ c \notin who
      PROVE  entries[i] \in {-1, ClientIndexOfCreature(x, v, c, who)}
  <2>1. \A a \in Viewers : CanSeeCreature(a, c, who)
    BY <1>9 DEF CanSeeCreature
  <2>2. see = Viewers
    BY <2>1 DEF see
  <2>3. seeing = spectators
    <3>1. ToSet(spectators) \subseteq Viewers
      BY DEF ToSet
    <3>2. Among(spectators, see) = spectators
      BY <2>2, <3>1, AmongAll
    <3> QED
      BY <3>2, Zenon DEF see, seeing, Seeing
  <2>4. w = v
    BY <1>4, <2>3
  <2> QED
    BY <1>2, <1>7, <1>9, <2>4
<1>10. ASSUME CanSeeCreature(w, c, who) /\ c \in who
      PROVE  entries[i] \in {-1, ClientIndexOfCreature(x, v, c, who)}
  <2>1. Access = Senses
    BY TileViewAssumption
  <2>2. ASSUME NEW a \in Viewers, CanSeeCreature(a, c, who) PROVE a \in Access
    BY <2>1, <2>2, <1>10, TileViewAssumption DEF CanSeeCreature
  <2>3. w \in Access /\ v \in Access
    BY <1>2, <1>6, <1>10, <2>2
  <2>4. \A b : CanSeeCreature(w, b, who) /\ CanSeeCreature(v, b, who)
    BY <2>1, <2>3 DEF CanSeeCreature
  <2>5. ClientIndexOfCreature(x, w, c, who) = ClientIndexOfCreature(x, v, c, who)
    BY <2>4, IndexAgrees
  <2> QED
    BY <1>2, <1>7, <1>10, <2>5
<1>11. entries[i] \in {-1, ClientIndexOfCreature(x, v, c, who)} /\ CanSeeCreature(v, c, who) /\ v \in Viewers
  BY <1>2, <1>8, <1>9, <1>10
<1> QED
  BY <1>11, Zenon DEF i, entries, seeing

(* One tile has one creature less.                                         *)
LosesOne(us, ts, t, c) ==
    us \in [Tiles -> Tile] /\ LessOne(us[t], ts[t], c) /\ \A u \in Tiles : u # t => us[u] = ts[u]

(* Game::removeCreature leaves the map so.                                 *)
LEMMA LeavesWithout ==
    ASSUME NEW ts \in [Tiles -> Tile], NEW t \in Tiles, NEW c
    PROVE  LosesOne([ts EXCEPT ![t].beings = Without(@, c)], ts, t, c)
<1> DEFINE y == [ts[t] EXCEPT !.beings = Without(@, c)]
           us == [ts EXCEPT ![t] = y]
<1>1. y \in Tile /\ LessOne(y, ts[t], c)
  BY LessOneTile
<1>2. [ts EXCEPT ![t].beings = Without(@, c)] = us
  OBVIOUS
<1> HIDE DEF y
<1>3. us \in [Tiles -> Tile] /\ us[t] = y /\ \A u \in Tiles : u # t => us[u] = ts[u]
  BY <1>1
<1> HIDE DEF us
<1>4. LosesOne(us, ts, t, c)
  BY <1>1, <1>3 DEF LosesOne
<1> QED
  BY <1>2, <1>4, Zenon

(* The creature is off the map, and the others are where they were.        *)
LEMMA OffTheMap ==
    ASSUME NEW ts \in [Tiles -> Tile], Alone(ts), NEW t \in Tiles, NEW c \in ToSet(ts[t].beings), NEW us,
           LosesOne(us, ts, t, c)
    PROVE  /\ us \in [Tiles -> Tile] /\ Alone(us) /\ Somewhere(us) = Somewhere(ts) \ {c}
           /\ LessOne(us[t], ts[t], c) /\ \A u \in Tiles : u # t => us[u] = ts[u]
           /\ \A v, u : v # c => (CanSee(us, v, u) <=> CanSee(ts, v, u))
<1>1. \A u \in Tiles : u # t => c \notin ToSet(ts[u].beings)
  BY DEF Alone
<1>2. ts[t].beings \in Seq(Creatures) /\ IsInjective(ts[t].beings)
  BY DEF Tile, Alone
<1>3. us \in [Tiles -> Tile] /\ LessOne(us[t], ts[t], c) /\ \A u \in Tiles : u # t => us[u] = ts[u]
  BY DEF LosesOne
<1>4. ToSet(us[t].beings) = ToSet(ts[t].beings) \ {c} /\ IsInjective(us[t].beings)
  BY <1>2, <1>3, WithoutIs, WithoutInjective DEF LessOne
<1>5. ASSUME NEW u \in Tiles
      PROVE  IsInjective(us[u].beings) /\ ToSet(us[u].beings) \ {c} = ToSet(ts[u].beings) \ {c}
  <2>1. CASE u = t
    BY <1>4, <2>1
  <2>2. CASE u # t
    BY <1>3, <2>2 DEF Alone
  <2> QED
    BY <2>1, <2>2
<1>6. OthersStay(us, ts, c)
  BY <1>5 DEF OthersStay
<1>7. \A u \in Tiles : c \notin ToSet(us[u].beings)
  BY <1>1, <1>3, <1>4
<1>8. NotTwice(us, c)
  BY <1>7 DEF NotTwice
<1>9. /\ Alone(us) /\ Somewhere(us) \ {c} = Somewhere(ts) \ {c}
      /\ \A v, u : v # c => (CanSee(us, v, u) <=> CanSee(ts, v, u))
  BY <1>6, <1>8, MapChanged
<1>10. c \notin Somewhere(us)
  BY <1>7 DEF Somewhere
<1>11. Somewhere(us) = Somewhere(ts) \ {c}
  BY <1>9, <1>10
<1> QED
  BY <1>3, <1>9, <1>11

(* Game::removeCreature keeps the screens true.                            *)
LEMMA RemoveTrue ==
    ASSUME ViewInv, NEW c \in Somewhere(tiles), NEW spectators \in SetToSeqs(Viewers \cap Somewhere(tiles)),
           RemoveCreature(c, spectators)
    PROVE  ViewInv'
<1>1. tiles \in [Tiles -> Tile] /\ Alone(tiles)
      /\ hidden \subseteq (Access \cup Monsters) \cap Somewhere(tiles)
      /\ hidden' = hidden \ {c} /\ \A v \in Viewers : screen[v] = [u \in Tiles |-> screen[v][u]]
  BY DEF ViewInv, Typed, RemoveCreature, ScreenTyped
<1> DEFINE t == TileOf(tiles, c)
           seeing == Seeing(spectators, c, hidden)
           entries == Entries(tiles[t], spectators, c, hidden)
           taken(v) == entries[CHOOSE i \in DOMAIN seeing : seeing[i] = v]
           Shown(v) == IF v \notin ToSet(seeing) THEN screen[v]
                       ELSE IF taken(v) \in 0 .. Limit - 1 /\ ~CanSee(tiles, v, t) THEN screen[v]
                       ELSE Taken(v, screen[v], t, taken(v), c)
           Told(v) == IF v = c THEN AllDark ELSE LeftBehind(v, t, Shown(v))
           told == [v \in Viewers |-> Told(v)]
<1>2. tiles' = [tiles EXCEPT ![t].beings = Without(@, c)] /\ screen' = told
  BY DEF RemoveCreature, Seeing, Entries
<1>3. t \in Tiles /\ c \in ToSet(tiles[t].beings) /\ \A u \in Tiles : u # t => c \notin ToSet(tiles[u].beings)
  BY <1>1, Stands
<1> HIDE DEF t
<1>4. /\ tiles' \in [Tiles -> Tile] /\ Alone(tiles') /\ Somewhere(tiles') = Somewhere(tiles) \ {c}
      /\ LessOne(tiles'[t], tiles[t], c) /\ \A u \in Tiles : u # t => tiles'[u] = tiles[u]
      /\ \A v, u : v # c => (CanSee(tiles', v, u) <=> CanSee(tiles, v, u))
  <2>1. LosesOne(tiles', tiles, t, c)
    BY <1>1, <1>2, <1>3, LeavesWithout
  <2> QED
    BY <1>1, <1>3, <2>1, OffTheMap
<1>5. hidden' \subseteq (Access \cup Monsters) \cap Somewhere(tiles')
  BY <1>1, <1>4
<1>6. spectators \in Seq(Viewers \cap Somewhere(tiles)) /\ ToSet(spectators) = Viewers \cap Somewhere(tiles)
  <2>1. IsFiniteSet(Viewers \cap Somewhere(tiles))
    BY TileViewAssumption, FS_Intersection
  <2> QED
    BY <2>1, OrderIs
<1>7. spectators \in Seq(Viewers)
  BY <1>6
<1>8. screen' = [v \in Viewers |-> told[v]] /\ \A v \in Viewers : screen'[v] = Told(v)
  BY <1>2
<1>9. tiles[t] \in Tile /\ tiles'[t] \in Tile /\ IsInjective(tiles[t].beings)
      /\ tiles[t].beings \in Seq(Creatures)
  BY <1>1, <1>3, <1>4 DEF Tile, Alone
<1>10. ASSUME NEW v \in ToSet(seeing)
       PROVE  taken(v) \in {-1, ClientIndexOfCreature(tiles[t], v, c, hidden)}
               /\ CanSeeCreature(v, c, hidden) /\ v \in Viewers
  <2>1. hidden \in SUBSET (Access \cup Monsters)
    BY <1>1
  <2> QED
    BY <1>3, <1>7, <1>9, <1>10, <2>1, EntryTaken
<1>11. ToSet(seeing) = ToSet(spectators) \cap {v \in Viewers : CanSeeCreature(v, c, hidden)}
  BY <1>7, AmongElems DEF Seeing
<1> HIDE DEF seeing, entries, told
<1> HIDE DEF taken
<1>a. ASSUME NEW v \in Viewers PROVE Shown(v) = [u \in Tiles |-> Shown(v)[u]]
  <2> DEFINE shown == screen[v]
             n == taken(v)
  <2>1. Shown(v) \in {shown, Taken(v, shown, t, n, c)}
    OBVIOUS
  <2>2. shown = [u \in Tiles |-> shown[u]]
    BY <1>1
  <2> HIDE DEF shown, n, Shown
  <2>3. Taken(v, shown, t, n, c) = [u \in Tiles |-> Taken(v, shown, t, n, c)[u]]
    BY <2>2, TakenTyped
  <2> QED
    BY <2>1, <2>2, <2>3
<1>12. \A v \in Viewers : screen'[v] = [u \in Tiles |-> screen'[v][u]]
  <2>1. ASSUME NEW v \in Viewers PROVE Told(v) = [u \in Tiles |-> Told(v)[u]]
    <3>1. CASE v = c
      BY <3>1 DEF AllDark
    <3>2. CASE v # c
      <4> DEFINE shown == Shown(v)
      <4>1. Told(v) = LeftBehind(v, t, shown) /\ shown = [u \in Tiles |-> shown[u]]
        BY <1>a, <3>2
      <4> HIDE DEF shown, Told
      <4>2. LeftBehind(v, t, shown) = [u \in Tiles |-> LeftBehind(v, t, shown)[u]]
        BY <4>1, LeftBehindTyped
      <4> QED
        BY <4>1, <4>2, Zenon
    <3> QED
      BY <3>1, <3>2
  <2> QED
    BY <1>8, <2>1
<1>13. ASSUME NEW v \in Viewers, NEW u \in Tiles, CanSee(tiles', v, u)
       PROVE  /\ screen'[v][u] \in {Lost, Cut(Visible(tiles'[u], v, hidden'))}
              /\ screen'[v][u] = Lost => ThingCount(tiles'[u]) > Limit
  <2>1. v \in Somewhere(tiles') /\ v # c /\ v \in Somewhere(tiles)
    BY <1>4, <1>13 DEF CanSee
  <2>2. CanSee(tiles, v, u)
    BY <1>4, <1>13, <2>1
  <2>3. /\ screen[v][u] \in {Lost, Cut(Visible(tiles[u], v, hidden))}
        /\ screen[v][u] = Lost => ThingCount(tiles[u]) > Limit
    BY <2>2, ViewFacts
  <2>4. SameOthers(v, c, hidden, hidden')
    BY <1>1 DEF SameOthers, CanSeeCreature
  <2>5. tiles[u] \in Tile
    BY <1>1
  <2>6. u # t => Visible(tiles[u], v, hidden) = Visible(tiles'[u], v, hidden')
    BY <1>3, <1>4, <2>4, <2>5, ShowsOthers
  <2> DEFINE now == Shown(v)
  <2>7. /\ now[u] \in {Lost, Cut(Visible(tiles'[u], v, hidden'))}
        /\ now[u] = Lost => screen[v][u] = Lost \/ (u = t /\ Over(tiles[t], v))
    <3>1. CASE v \notin ToSet(seeing)
      <4>1. ~CanSeeCreature(v, c, hidden)
        BY <1>6, <1>11, <2>1, <3>1
      <4>2. Visible(tiles[t], v, hidden) = Visible(tiles'[t], v, hidden')
        BY <1>3, <1>4, <1>9, <2>4, <4>1, CreatureShows
      <4>3. now = screen[v]
        BY <3>1
      <4> QED
        BY <2>3, <2>6, <4>2, <4>3
    <3>2. CASE v \in ToSet(seeing) /\ taken(v) \in 0 .. Limit - 1 /\ ~CanSee(tiles, v, t)
      <4>1. u # t
        BY <2>2, <3>2
      <4>2. now = screen[v]
        BY <3>2
      <4> QED
        BY <2>3, <2>6, <4>1, <4>2
    <3>3. CASE v \in ToSet(seeing) /\ ~(taken(v) \in 0 .. Limit - 1 /\ ~CanSee(tiles, v, t))
      <4> DEFINE shown == screen[v]
                 n == taken(v)
      <4>1. now = Taken(v, shown, t, n, c)
        BY <3>3
      <4>2. n \in {-1, ClientIndexOfCreature(tiles[t], v, c, hidden)} /\ CanSeeCreature(v, c, hidden)
        BY <1>10, <3>3
      <4>3. shown = [w \in Tiles |-> shown[w]]
        BY <1>1
      <4>4. shown[u] \in {Lost, Cut(Visible(tiles[u], v, hidden))}
        BY <2>3
      <4> HIDE DEF n, now
      <4>5. SUFFICES /\ Taken(v, shown, t, n, c)[u] \in {Lost, Cut(Visible(tiles'[u], v, hidden'))}
                     /\ Taken(v, shown, t, n, c)[u] = Lost => shown[u] = Lost \/ (u = t /\ Over(tiles[t], v))
        BY <4>1
      <4> HIDE DEF shown
      <4>6. PICK y \in Tile : y = tiles'[t]
        BY <1>9
      <4>7. LessOne(y, tiles[t], c)
        BY <1>4, <4>6
      <4>8. TakenSo(Taken(v, shown, t, n, c)[u], shown[u],
                    Visible(IF u = t THEN y ELSE tiles[u], v, hidden'), u, t, v)
        BY <1>1, <1>3, <2>4, <4>2, <4>3, <4>4, <4>7, TakenTrue, ZenonT(30)
      <4> QED
        BY <1>4, <4>6, <4>8 DEF TakenSo
    <3> QED
      BY <3>1, <3>2, <3>3
  <2>8. screen'[v] = LeftBehind(v, t, now) /\ now = [w \in Tiles |-> now[w]]
    BY <1>8, <1>a, <2>1
  <2> HIDE DEF now
  <2>9. ThingCount(tiles[t]) = ThingCount(tiles'[t]) + 1 /\ ThingCount(tiles'[t]) \in Nat
    BY <1>3, <1>4, <1>9, CountLess
  <2>10. Over(tiles[t], v) => ThingCount(tiles[t]) > Limit
    BY <1>9, FullCounts
  <2>11. (u = t /\ ThingCount(tiles'[t]) <= Resend) => now[u] # Lost
    BY <2>3, <2>7, <2>9, <2>10, TileViewAssumption
  <2>12. /\ LeftBehind(v, t, now)[u] \in {Lost, Cut(Visible(tiles'[u], v, hidden'))}
         /\ LeftBehind(v, t, now)[u] = Lost => u # t /\ now[u] = Lost
    BY <1>3, <1>4, <1>13, <2>7, <2>8, <2>11, LeftBehindTrue
  <2> QED
    BY <1>4, <2>3, <2>7, <2>8, <2>12
<1> HIDE DEF Shown
<1> HIDE DEF Told
<1> QED
  BY <1>4, <1>5, <1>8, <1>12, <1>13, ViewAgain

(* One creature goes from one tile to the end of another.                  *)
Moves(us, ts, from, to, c) ==
    /\ us \in [Tiles -> Tile] /\ \A u \in Tiles \ {from, to} : us[u] = ts[u]
    /\ LessOne(us[from], ts[from], c) /\ LessOne(ts[to], us[to], c)
    /\ us[to].beings = Append(ts[to].beings, c) /\ IsInjective(us[to].beings)
    /\ ToSet(us[to].beings) = ToSet(ts[to].beings) \cup {c}

(* Map::moveCreature leaves the map so.                                    *)
LEMMA MovesWith ==
    ASSUME NEW ts \in [Tiles -> Tile], Alone(ts), NEW from \in Tiles, NEW to \in Tiles, from # to,
           NEW c \in ToSet(ts[from].beings)
    PROVE  Moves([ts EXCEPT ![from].beings = Without(@, c), ![to].beings = Append(@, c)], ts, from, to, c)
<1> DEFINE x == [ts[from] EXCEPT !.beings = Without(@, c)]
           y == [ts[to] EXCEPT !.beings = Append(@, c)]
           us == [ts EXCEPT ![from] = x, ![to] = y]
<1>1. ts[from] \in Tile /\ ts[to] \in Tile /\ ts[from].beings \in Seq(Creatures) /\ IsInjective(ts[to].beings)
  BY DEF Tile, Alone
<1>2. c \in Creatures /\ c \notin ToSet(ts[to].beings)
  <2>1. c \notin ToSet(ts[to].beings)
    BY DEF Alone
  <2>2. c \in Creatures
    BY <1>1 DEF ToSet
  <2> QED
    BY <2>1, <2>2
<1>3. x \in Tile /\ LessOne(x, ts[from], c)
  BY <1>1, LessOneTile
<1>4. /\ y \in Tile /\ LessOne(ts[to], y, c) /\ ToSet(y.beings) = ToSet(ts[to].beings) \cup {c}
      /\ IsInjective(y.beings)
  BY <1>1, <1>2, OneMoreTile
<1>5. y.beings = Append(ts[to].beings, c)
  BY <1>1 DEF Tile
<1>6. [ts EXCEPT ![from].beings = Without(@, c), ![to].beings = Append(@, c)] = us
  OBVIOUS
<1> HIDE DEF x, y
<1>7. us \in [Tiles -> Tile] /\ us[from] = x /\ us[to] = y /\ \A u \in Tiles \ {from, to} : us[u] = ts[u]
  BY <1>3, <1>4
<1> HIDE DEF us
<1>8. Moves(us, ts, from, to, c)
  BY <1>3, <1>4, <1>5, <1>7 DEF Moves
<1> QED
  BY <1>6, <1>8, Zenon

(* The creature is on its new tile, and the others are where they were.    *)
LEMMA OverTheMap ==
    ASSUME NEW ts \in [Tiles -> Tile], Alone(ts), NEW from \in Tiles, NEW to \in Tiles, from # to,
           NEW c \in ToSet(ts[from].beings), NEW us, Moves(us, ts, from, to, c)
    PROVE  /\ us \in [Tiles -> Tile] /\ Alone(us) /\ Somewhere(us) = Somewhere(ts) /\ TileOf(us, c) = to
           /\ c \in ToSet(us[to].beings) /\ c \notin ToSet(ts[to].beings)
           /\ \A v, u : v # c => (CanSee(us, v, u) <=> CanSee(ts, v, u))
<1>1. \A u \in Tiles : u # from => c \notin ToSet(ts[u].beings)
  BY DEF Alone
<1>2. ts[from].beings \in Seq(Creatures) /\ IsInjective(ts[from].beings)
  BY DEF Tile, Alone
<1>3. ToSet(us[from].beings) = ToSet(ts[from].beings) \ {c} /\ IsInjective(us[from].beings)
  BY <1>2, WithoutIs, WithoutInjective DEF LessOne, Moves
<1>4. /\ us \in [Tiles -> Tile] /\ \A u \in Tiles : (u # from /\ u # to) => us[u] = ts[u]
      /\ IsInjective(us[to].beings) /\ ToSet(us[to].beings) = ToSet(ts[to].beings) \cup {c}
  BY DEF Moves
<1>5. ASSUME NEW u \in Tiles
      PROVE  IsInjective(us[u].beings) /\ ToSet(us[u].beings) \ {c} = ToSet(ts[u].beings) \ {c}
  <2>1. CASE u = from
    BY <1>3, <2>1
  <2>2. CASE u = to
    BY <1>1, <1>4, <2>2
  <2>3. CASE u # from /\ u # to
    BY <1>4, <2>3 DEF Alone
  <2> QED
    BY <2>1, <2>2, <2>3
<1>6. OthersStay(us, ts, c)
  BY <1>5 DEF OthersStay
<1>7. \A u \in Tiles : c \in ToSet(us[u].beings) <=> u = to
  <2>1. c \in ToSet(us[to].beings) /\ c \notin ToSet(us[from].beings)
    BY <1>3, <1>4
  <2> QED
    BY <1>1, <1>4, <2>1
<1>8. NotTwice(us, c)
  BY <1>7 DEF NotTwice
<1>9. /\ Alone(us) /\ Somewhere(us) \ {c} = Somewhere(ts) \ {c}
      /\ \A v, u : v # c => (CanSee(us, v, u) <=> CanSee(ts, v, u))
  BY <1>6, <1>8, MapChanged
<1>10. TileOf(us, c) = to /\ c \in Somewhere(us)
  BY <1>7, TileOfIs
<1>11. c \in Somewhere(ts)
  BY DEF Somewhere
<1>12. Somewhere(us) = Somewhere(ts)
  BY <1>9, <1>10, <1>11
<1> QED
  BY <1>1, <1>4, <1>7, <1>9, <1>10, <1>12

(* What the move shows of each tile.                                       *)
LEMMA MoveShows ==
    ASSUME tiles \in [Tiles -> Tile], Alone(tiles), NEW from \in Tiles, NEW to \in Tiles, from # to,
           NEW c \in ToSet(tiles[from].beings), NEW us, Moves(us, tiles, from, to, c), NEW v
    PROVE  /\ CanSeeCreature(v, c, hidden)
                => Grows(Visible(tiles[to], v, hidden), Visible(us[to], v, hidden), ClientIndexOfCreature(us[to], v, c, hidden), c)
           /\ ~CanSeeCreature(v, c, hidden)
                => /\ Visible(us[to], v, hidden) = Visible(tiles[to], v, hidden)
                   /\ Visible(us[from], v, hidden) = Visible(tiles[from], v, hidden)
<1>1. SameOthers(v, c, hidden, hidden)
  BY DEF SameOthers
<1>2. /\ us[to] \in Tile /\ us[from] \in Tile /\ tiles[to] \in Tile /\ tiles[from] \in Tile
      /\ LessOne(us[from], tiles[from], c) /\ LessOne(tiles[to], us[to], c)
      /\ c \in ToSet(us[to].beings) /\ IsInjective(us[to].beings) /\ IsInjective(tiles[from].beings)
  BY DEF Moves, Alone
<1>3. /\ CanSeeCreature(v, c, hidden)
           => Grows(Visible(tiles[to], v, hidden), Visible(us[to], v, hidden), ClientIndexOfCreature(us[to], v, c, hidden), c)
      /\ ~CanSeeCreature(v, c, hidden) => Visible(tiles[to], v, hidden) = Visible(us[to], v, hidden)
  BY <1>1, <1>2, CreatureShows
<1>4. ~CanSeeCreature(v, c, hidden) => Visible(us[from], v, hidden) = Visible(tiles[from], v, hidden)
  BY <1>1, <1>2, CreatureShows
<1> QED
  BY <1>3, <1>4

(* A message about one tile keeps what the client shows of it true.        *)
Kept(told, before, new) == told \in {Lost, Cut(new)} /\ (told = Lost => before = Lost)

(* The newcomer is put last, which is where it stands.                     *)
LEMMA LastShown ==
    ASSUME NEW x \in Tile, NEW y \in Tile, NEW c \in Creatures, LessOne(x, y, c),
           y.beings = Append(x.beings, c),
           NEW v, NEW who, CanSeeCreature(v, c, who), NEW shown \in {Lost, Cut(Visible(x, v, who))}
    PROVE  Kept(ClientPutLast(shown, c), shown, Visible(y, v, who))
<1> DEFINE u == (GroundOf(x) \o x.top) \o Seen(x, v, who)
           l == GroundOf(x) \o x.top
           b == Seen(x, v, who)
<1>1. /\ GroundOf(x) \in Seq(Things) /\ x.top \in Seq(Tops) /\ x.top \in Seq(Things) /\ x.down \in Seq(Downs)
      /\ b \in Seq(Creatures) /\ b \in Seq(Things) /\ x.beings \in Seq(Creatures)
      /\ Visible(x, v, who) = u \o x.down
  BY TileParts
<1>2. c \in Things /\ c \in SeenBy(v, who)
  BY DEF Creatures, Things, SeenBy
<1>3. Seen(y, v, who) = Append(b, c)
  BY <1>1, <1>2, AmongOneMore, SMTT(30) DEF Seen
<1>4. GroundOf(y) = GroundOf(x) /\ y.top = x.top /\ y.down = x.down
  BY DEF LessOne, GroundOf
<1>5. ToSet(GroundOf(x)) \subseteq Grounds
  BY DEF Tile, GroundOf, ToSet
<1>6. ToSet(x.top) \subseteq Tops /\ ToSet(b) \subseteq Creatures
  BY <1>1 DEF ToSet
<1>7. l \in Seq(Things) /\ ToSet(l) \subseteq Grounds \cup Tops
  BY <1>1, <1>5, <1>6, ConcatElems
<1> HIDE DEF l, b
<1>8. l \o b \in Seq(Things) /\ ToSet(l \o b) \subseteq Grounds \cup Tops \cup Creatures
  BY <1>1, <1>6, <1>7, ConcatElems
<1>9. u = l \o b
  BY Zenon DEF l, b
<1> HIDE DEF u
<1>10. u \in Seq(Things) /\ ToSet(u) \cap Downs = {}
  BY <1>8, <1>9, TileViewAssumption DEF Creatures
<1>11. /\ ClientPutLast(shown, c) \in {Lost, Cut(Append(u, c) \o x.down)}
       /\ shown # Lost => ClientPutLast(shown, c) = Cut(Append(u, c) \o x.down)
  BY <1>1, <1>2, <1>10, PutLastTold
<1>12. Append(l \o b, c) = l \o Append(b, c)
  <2>0. l \in Seq(Things) /\ b \in Seq(Things) /\ c \in Things
    BY <1>1, <1>2, <1>7
  <2>1. l \o Append(b, c) = Append(l \o b, c)
    BY <2>0, ConcatPush
  <2> QED
    BY <2>1, Zenon
<1>13. Visible(y, v, who) = (l \o Append(b, c)) \o x.down
  <2>1. Visible(y, v, who) = ((GroundOf(y) \o y.top) \o Seen(y, v, who)) \o y.down
    BY TileParts
  <2> QED
    BY <1>3, <1>4, <2>1, Zenon DEF l
<1>14. Visible(y, v, who) = Append(u, c) \o x.down
  BY <1>9, <1>12, <1>13, Zenon
<1>15. Cut(Append(u, c) \o x.down) # Lost
  BY <1>14, ShownIsKnown
<1> QED
  BY <1>11, <1>14, <1>15 DEF Kept

(* One tile is told of, the others are not.                                *)
KeptAt(told, before, t, new) ==
    Kept(told[t], before[t], new) /\ \A u \in Tiles : u # t => told[u] = before[u]

(* A creature that appears is added at its number, or the tile is sent     *)
(* whole.                                                                  *)
LEMMA AppearedTrue ==
    ASSUME NEW shown, shown = [w \in Tiles |-> shown[w]], NEW t \in Tiles, NEW n, NEW c, NEW x, NEW y \in Tile, NEW v,
           NEW before, NEW after, Grows(Visible(x, v, before), Visible(y, v, after), n, c),
           shown[t] \in {Lost, Cut(Visible(x, v, before))},
           NEW whole, whole = Described(y, v, after)
    PROVE  KeptAt(Appeared(shown, t, n, c, whole), shown, t, Visible(y, v, after))
<1>1. /\ ClientAdd(shown[t], n, c) \in {Lost, Cut(Visible(y, v, after))}
      /\ shown[t] # Lost => ClientAdd(shown[t], n, c) = Cut(Visible(y, v, after))
  BY AddTold
<1>2. /\ Appeared(shown, t, n, c, whole)[t] = IF n >= Limit THEN whole ELSE ClientAdd(shown[t], n, c)
      /\ \A u \in Tiles : u # t => Appeared(shown, t, n, c, whole)[u] = shown[u]
  BY DEF Appeared
<1>3. whole = Cut(Visible(y, v, after)) /\ Cut(Visible(y, v, after)) # Lost
  BY ShownIsKnown DEF Described
<1> QED
  BY <1>1, <1>2, <1>3 DEF Kept, KeptAt

(* What another player is told of the move                                 *)
(* (ProtocolGame::sendMoveCreature).                                       *)
LEMMA ToldMove ==
    ASSUME tiles \in [Tiles -> Tile], Alone(tiles), NEW from \in Tiles, NEW to \in Tiles, from # to,
           NEW c \in ToSet(tiles[from].beings), Moves(tiles', tiles, from, to, c), NEW v, v # c,
           NEW shown, shown = [w \in Tiles |-> shown[w]], NEW teleport \in BOOLEAN, NEW u \in Tiles,
           CanSee(tiles, v, u),
           \A w \in Tiles : CanSee(tiles, v, w) => shown[w] \in {Lost, Cut(Visible(tiles[w], v, hidden))}
    PROVE  TakenSo(ToldOfMove(v, shown, c, from, to, teleport)[u], shown[u], Visible(tiles'[u], v, hidden), u, from, v)
<1> DEFINE old == ClientIndexOfCreature(tiles[from], v, c, hidden)
           new == ClientIndexOfCreature(tiles'[to], v, c, hidden)
           taken == Taken(v, shown, from, old, c)
           whole == Described(tiles'[to], v, hidden)
           told == ToldOfMove(v, shown, c, from, to, teleport)
<1>0. told = IF ~CanSeeCreature(v, c, hidden) THEN shown
             ELSE CASE CanSee(tiles, v, from) /\ CanSee(tiles, v, to) /\ teleport  ->
             Appeared(taken, to, new, c, whole)
               [] CanSee(tiles, v, from) /\ CanSee(tiles, v, to) /\ ~teleport ->
               [taken EXCEPT ![to] = ClientPutLast(@, c)]
               [] CanSee(tiles, v, from) /\ ~CanSee(tiles, v, to)             -> taken
               [] ~CanSee(tiles, v, from) /\ CanSee(tiles, v, to)             ->
               Appeared(shown, to, new, c, whole)
               [] OTHER                                                      -> shown
  BY Zenon DEF ToldOfMove
<1> SUFFICES TakenSo(told[u], shown[u], Visible(tiles'[u], v, hidden), u, from, v)
  OBVIOUS
<1> HIDE DEF told, whole, taken, new, old
<1>1. /\ ~CanSeeCreature(v, c, hidden) => told = shown
      /\ CanSeeCreature(v, c, hidden) =>
           /\ (CanSee(tiles, v, from) /\ CanSee(tiles, v, to) /\ teleport)
              => told = Appeared(taken, to, new, c, whole)
           /\ (CanSee(tiles, v, from) /\ CanSee(tiles, v, to) /\ ~teleport)
              => told = [taken EXCEPT ![to] = ClientPutLast(@, c)]
           /\ (CanSee(tiles, v, from) /\ ~CanSee(tiles, v, to)) => told = taken
           /\ (~CanSee(tiles, v, from) /\ CanSee(tiles, v, to)) => told = Appeared(shown, to, new, c, whole)
           /\ (~CanSee(tiles, v, from) /\ ~CanSee(tiles, v, to)) => told = shown
  <2> DEFINE a == CanSeeCreature(v, c, hidden)
             b == CanSee(tiles, v, from)
             d == CanSee(tiles, v, to)
  <2>1. ~a => told = shown
    BY <1>0, Zenon
  <2>2. a /\ b /\ d /\ teleport => told = Appeared(taken, to, new, c, whole)
    BY <1>0
  <2>3. a /\ b /\ d /\ ~teleport => told = [taken EXCEPT ![to] = ClientPutLast(@, c)]
    BY <1>0
  <2>4. a /\ b /\ ~d => told = taken
    BY <1>0
  <2>5. a /\ ~b /\ d => told = Appeared(shown, to, new, c, whole)
    BY <1>0
  <2>6. a /\ ~b /\ ~d => told = shown
    BY <1>0
  <2> QED
    BY <2>1, <2>2, <2>3, <2>4, <2>5, <2>6, Zenon
<1> USE DEF whole, taken, new, old
<1>2. \A w \in Tiles : (w # from /\ w # to) => tiles'[w] = tiles[w]
  BY DEF Moves
<1>3. shown[u] \in {Lost, Cut(Visible(tiles[u], v, hidden))}
  OBVIOUS
<1>4. tiles'[from] \in Tile /\ tiles'[to] \in Tile /\ tiles[to] \in Tile
      /\ LessOne(tiles'[from], tiles[from], c)
      /\ LessOne(tiles[to], tiles'[to], c) /\ tiles'[to].beings = Append(tiles[to].beings, c)
  BY DEF Moves
<1>5. /\ CanSeeCreature(v, c, hidden)
         => Grows(Visible(tiles[to], v, hidden), Visible(tiles'[to], v, hidden), new, c)
      /\ ~CanSeeCreature(v, c, hidden)
                => /\ Visible(tiles'[to], v, hidden) = Visible(tiles[to], v, hidden)
                   /\ Visible(tiles'[from], v, hidden) = Visible(tiles[from], v, hidden)
  BY MoveShows
<1>6. CASE ~CanSeeCreature(v, c, hidden)
  BY <1>1, <1>2, <1>3, <1>5, <1>6 DEF TakenSo
<1>7. CASE CanSeeCreature(v, c, hidden)
  <2>1. ASSUME NEW w \in Tiles, CanSee(tiles, v, w)
        PROVE  TakenSo(taken[w], shown[w], Visible(IF w = from THEN tiles'[from] ELSE tiles[w], v, hidden), w, from, v)
    <3>1. shown[w] \in {Lost, Cut(Visible(tiles[w], v, hidden))}
      BY <2>1
    <3>2. SameOthers(v, c, hidden, hidden) /\ old \in {-1, ClientIndexOfCreature(tiles[from], v, c, hidden)}
      BY DEF SameOthers
    <3> HIDE DEF old
    <3> QED
      BY <1>4, <1>7, <3>1, <3>2, TakenTrue, ZenonT(30)
  <2>2. taken = [w \in Tiles |-> taken[w]]
    BY TakenTyped
  <2> HIDE DEF taken
  <2>3. CanSee(tiles, v, to) => TakenSo(taken[to], shown[to], Visible(tiles[to], v, hidden), to, from, v)
    BY <2>1
  <2>a. ASSUME CanSee(tiles, v, to), NEW now, Kept(now, taken[to], Visible(tiles'[to], v, hidden))
        PROVE  TakenSo(now, shown[to], Visible(tiles'[to], v, hidden), to, from, v)
    BY <2>3, <2>a DEF TakenSo, Kept
  <2>b. u # to => TakenSo(taken[u], shown[u], Visible(tiles'[u], v, hidden), u, from, v)
    BY <1>2, <2>1
  <2>4. CASE CanSee(tiles, v, from) /\ CanSee(tiles, v, to) /\ teleport
    <3>0. told = Appeared(taken, to, new, c, whole)
      BY <1>1, <1>7, <2>4
    <3>1. whole = Described(tiles'[to], v, hidden)
      OBVIOUS
    <3> HIDE DEF whole, new
    <3>2. taken[to] \in {Lost, Cut(Visible(tiles[to], v, hidden))}
      BY <2>3, <2>4 DEF TakenSo
    <3>3. Grows(Visible(tiles[to], v, hidden), Visible(tiles'[to], v, hidden), new, c) /\ tiles'[to] \in Tile
      BY <1>4, <1>5, <1>7
    <3>4. KeptAt(Appeared(taken, to, new, c, whole), taken, to, Visible(tiles'[to], v, hidden))
      BY <2>2, <3>1, <3>2, <3>3, AppearedTrue
    <3> QED
      BY <2>4, <2>a, <2>b, <3>0, <3>4 DEF KeptAt
  <2>5. CASE CanSee(tiles, v, from) /\ CanSee(tiles, v, to) /\ ~teleport
    <3>0. told = [taken EXCEPT ![to] = ClientPutLast(@, c)]
      BY <1>1, <1>7, <2>5
    <3>1. Kept(ClientPutLast(taken[to], c), taken[to], Visible(tiles'[to], v, hidden))
      <4>0. taken[to] \in {Lost, Cut(Visible(tiles[to], v, hidden))}
        BY <2>3, <2>5 DEF TakenSo
      <4>1. c \in Creatures
        <5>1. tiles[from].beings \in Seq(Creatures)
          BY DEF Tile
        <5> QED
          BY <5>1 DEF ToSet
      <4> QED
        BY <1>4, <1>7, <4>0, <4>1, LastShown
    <3>2. told[to] = ClientPutLast(taken[to], c) /\ \A w \in Tiles : w # to => told[w] = taken[w]
      BY <2>2, <3>0
    <3> QED
      BY <2>5, <2>a, <2>b, <3>1, <3>2
  <2>6. CASE CanSee(tiles, v, from) /\ ~CanSee(tiles, v, to)
    <3>1. told = taken /\ u # to
      BY <1>1, <1>7, <2>6
    <3> QED
      BY <2>b, <3>1
  <2>7. CASE ~CanSee(tiles, v, from) /\ CanSee(tiles, v, to)
    <3>0. told = Appeared(shown, to, new, c, whole) /\ u # from
      BY <1>1, <1>7, <2>7
    <3>1. whole = Described(tiles'[to], v, hidden) /\ shown[to] \in {Lost, Cut(Visible(tiles[to], v, hidden))}
      BY <2>7
    <3> HIDE DEF whole, new
    <3>3. Grows(Visible(tiles[to], v, hidden), Visible(tiles'[to], v, hidden), new, c) /\ tiles'[to] \in Tile
      BY <1>4, <1>5, <1>7
    <3>4. KeptAt(Appeared(shown, to, new, c, whole), shown, to, Visible(tiles'[to], v, hidden))
      BY <3>1, <3>3, AppearedTrue
    <3> QED
      BY <1>2, <1>3, <3>0, <3>4 DEF TakenSo, Kept, KeptAt
  <2>8. CASE ~CanSee(tiles, v, from) /\ ~CanSee(tiles, v, to)
    BY <1>1, <1>2, <1>3, <1>7, <2>8 DEF TakenSo
  <2> QED
    BY <2>4, <2>5, <2>6, <2>7, <2>8
<1> QED
  BY <1>6, <1>7

(* The client shows something of each tile after it.                       *)
LEMMA ToldMoveTyped ==
    ASSUME NEW v, NEW shown, shown = [w \in Tiles |-> shown[w]], NEW c, NEW from, NEW to,
           NEW teleport \in BOOLEAN
    PROVE  LET told == ToldOfMove(v, shown, c, from, to, teleport) IN told = [w \in Tiles |-> told[w]]
<1> DEFINE old == ClientIndexOfCreature(tiles[from], v, c, hidden)
           new == ClientIndexOfCreature(tiles'[to], v, c, hidden)
           taken == Taken(v, shown, from, old, c)
           whole == Described(tiles'[to], v, hidden)
           told == ToldOfMove(v, shown, c, from, to, teleport)
<1>1. told \in {shown, taken, Appeared(taken, to, new, c, whole), [taken EXCEPT ![to] = ClientPutLast(@, c)],
                Appeared(shown, to, new, c, whole)}
  BY DEF ToldOfMove
<1>2. taken = [w \in Tiles |-> taken[w]]
  BY TakenTyped
<1> HIDE DEF taken, told, old, new, whole
<1>3. told = [w \in Tiles |-> told[w]]
  BY <1>1, <1>2 DEF Appeared
<1> QED
  BY <1>3, Zenon DEF told

(* What the player who moves is told.  What was out of its sight is sent.  *)
OwnMoveSo(told, before, new, u, from, v) ==
    /\ told \in {Lost, Cut(new)}
    /\ told = Lost => u \in Sight[from] /\ (before = Lost \/ (u = from /\ Over(tiles[from], v)))

LEMMA ToldOwnMove ==
    ASSUME tiles \in [Tiles -> Tile], Alone(tiles), NEW from \in Tiles, NEW to \in Tiles, from # to,
           NEW v \in ToSet(tiles[from].beings), Moves(tiles', tiles, from, to, v), v \in Viewers,
           NEW shown, shown = [w \in Tiles |-> shown[w]], NEW teleport \in BOOLEAN, NEW u \in Tiles,
           u \in Sight[to],
           ~teleport => <<from, to>> \in Near,
           \A w \in Sight[from] : shown[w] \in {Lost, Cut(Visible(tiles[w], v, hidden))}
    PROVE  OwnMoveSo(ToldOfOwnMove(v, shown, from, to, teleport)[u], shown[u], Visible(tiles'[u], v, hidden), u, from, v)
<1> DEFINE old == ClientIndexOfCreature(tiles[from], v, v, hidden)
           taken == Taken(v, shown, from, old, v)
           moved == [taken EXCEPT ![to] = ClientPutLast(@, v)]
           map == MapDescription(tiles', v, to, hidden)
           told == ToldOfOwnMove(v, shown, from, to, teleport)
<1>1. map[u] = Cut(Visible(tiles'[u], v, hidden)) /\ map[u] # Lost
  <2>1. tiles'[u] \in Tile
    BY DEF Moves
  <2> QED
    BY <2>1, ShownIsKnown DEF MapDescription, Described
<1>2. CASE teleport
  <2>1. told = map
    BY <1>2 DEF ToldOfOwnMove
  <2> QED
    BY <1>1, <2>1 DEF OwnMoveSo
<1>3. CASE ~teleport /\ u \notin Sight[from]
  <2>1. told[u] = map[u]
    BY <1>3 DEF ToldOfOwnMove
  <2> QED
    BY <1>1, <2>1 DEF OwnMoveSo
<1>4. CASE ~teleport /\ u \in Sight[from]
  <2>1. told[u] = moved[u]
    BY <1>4 DEF ToldOfOwnMove
  <2>2. Sight[from] \subseteq Tiles /\ to \in Sight[from]
    <3>1. <<from, to>> \in Near
      BY <1>4
    <3>2. <<from, to>>[2] \in Sight[<<from, to>>[1]]
      BY <3>1, TileViewAssumption
    <3> QED
      BY <3>2, TileViewAssumption
  <2>3. CanSeeCreature(v, v, hidden) /\ SameOthers(v, v, hidden, hidden)
    BY DEF CanSeeCreature, SameOthers
  <2>4. tiles'[from] \in Tile /\ tiles'[to] \in Tile /\ tiles[to] \in Tile
        /\ LessOne(tiles'[from], tiles[from], v)
        /\ LessOne(tiles[to], tiles'[to], v) /\ tiles'[to].beings = Append(tiles[to].beings, v)
        /\ \A w \in Tiles : (w # from /\ w # to) => tiles'[w] = tiles[w]
    BY DEF Moves
  <2>5. ASSUME NEW w \in Sight[from]
        PROVE  TakenSo(taken[w], shown[w], Visible(IF w = from THEN tiles'[from] ELSE tiles[w], v, hidden), w, from, v)
    <3>1. shown[w] \in {Lost, Cut(Visible(tiles[w], v, hidden))} /\ w \in Tiles
      BY <2>2, <2>5
    <3>2. old \in {-1, ClientIndexOfCreature(tiles[from], v, v, hidden)}
      OBVIOUS
    <3> HIDE DEF old
    <3> QED
      BY <2>3, <2>4, <3>1, <3>2, TakenTrue, ZenonT(30)
  <2>6. taken = [w \in Tiles |-> taken[w]]
    BY TakenTyped
  <2> HIDE DEF taken
  <2>7. TakenSo(taken[to], shown[to], Visible(tiles[to], v, hidden), to, from, v)
    BY <2>2, <2>5
  <2>a. taken[to] \in {Lost, Cut(Visible(tiles[to], v, hidden))}
    BY <2>7 DEF TakenSo
  <2>8. v \in Creatures
    BY DEF Creatures
  <2>9. Kept(ClientPutLast(taken[to], v), taken[to], Visible(tiles'[to], v, hidden))
    BY <2>3, <2>4, <2>8, <2>a, LastShown, ZenonT(30)
  <2>10. moved[to] = ClientPutLast(taken[to], v) /\ \A w \in Tiles : w # to => moved[w] = taken[w]
    BY <2>6
  <2> HIDE DEF moved, told
  <2>11. TakenSo(moved[u], shown[u], Visible(tiles'[u], v, hidden), u, from, v)
    <3>1. CASE u = to
      BY <2>7, <2>9, <2>10, <3>1 DEF TakenSo, Kept
    <3>2. CASE u # to
      BY <1>4, <2>4, <2>5, <2>10, <3>2
    <3> QED
      BY <3>1, <3>2
  <2>12. OwnMoveSo(told[u], shown[u], Visible(tiles'[u], v, hidden), u, from, v)
    BY <1>4, <2>1, <2>11 DEF TakenSo, OwnMoveSo
  <2> QED
    BY <2>12 DEF told
<1> QED
  BY <1>2, <1>3, <1>4

(* Map::moveCreature keeps the screens true.                               *)
LEMMA MoveTrue ==
    ASSUME ViewInv, NEW c \in Creatures, NEW to \in Tiles, NEW force \in BOOLEAN, MoveCreature(c, to, force)
    PROVE  ViewInv'
<1> DEFINE from == TileOf(tiles, c)
           teleport == force \/ tiles[to].ground = NoGround \/ <<from, to>> \notin Near
           Shown(v) == IF v = c THEN ToldOfOwnMove(v, screen[v], from, to, teleport)
                       ELSE ToldOfMove(v, screen[v], c, from, to, teleport)
           Told(v) == IF v \in Somewhere(tiles) THEN LeftBehind(v, from, Shown(v)) ELSE AllDark
           told == [v \in Viewers |-> Told(v)]
<1>1. /\ tiles \in [Tiles -> Tile] /\ Alone(tiles)
      /\ hidden \subseteq (Access \cup Monsters) \cap Somewhere(tiles)
      /\ hidden' = hidden /\ \A v \in Viewers : screen[v] = [u \in Tiles |-> screen[v][u]]
  BY DEF ViewInv, Typed, MoveCreature, ScreenTyped
<1>2. /\ tiles' = [tiles EXCEPT ![from].beings = Without(@, c), ![to].beings = Append(@, c)]
      /\ c \in Somewhere(tiles) /\ from # to /\ screen' = told
  BY DEF MoveCreature, Tell
<1>3. from \in Tiles /\ c \in ToSet(tiles[from].beings)
  BY <1>1, <1>2, Stands
<1>4. teleport \in BOOLEAN /\ (~teleport => <<from, to>> \in Near)
  OBVIOUS
<1>5. \A v \in Viewers : screen'[v] = Told(v)
  BY <1>2
<1>6. screen' = [v \in Viewers |-> told[v]]
  BY <1>2
<1> HIDE DEF from, teleport, told
<1>7. Moves(tiles', tiles, from, to, c)
  BY <1>1, <1>2, <1>3, MovesWith
<1>8. /\ tiles' \in [Tiles -> Tile] /\ Alone(tiles') /\ Somewhere(tiles') = Somewhere(tiles)
      /\ TileOf(tiles', c) = to
      /\ \A v, u : v # c => (CanSee(tiles', v, u) <=> CanSee(tiles, v, u))
  <2>1. from # to
    BY <1>2
  <2> QED
    BY <1>1, <1>3, <1>7, <2>1, OverTheMap, ZenonT(30)
<1>a. ASSUME NEW v \in Viewers PROVE Shown(v) = [u \in Tiles |-> Shown(v)[u]]
  <2> DEFINE shown == screen[v]
  <2>1. shown = [w \in Tiles |-> shown[w]]
    BY <1>1
  <2>2. CASE v # c
    <3>1. Shown(v) = ToldOfMove(v, shown, c, from, to, teleport)
      BY <2>2
    <3> HIDE DEF shown, Shown
    <3>2. LET t == ToldOfMove(v, shown, c, from, to, teleport) IN t = [w \in Tiles |-> t[w]]
      BY <1>4, <2>1, ToldMoveTyped
    <3> QED
      BY <3>1, <3>2, Zenon
  <2>3. CASE v = c
    <3>1. Shown(v) = ToldOfOwnMove(v, shown, from, to, teleport)
      BY <2>3
    <3> HIDE DEF shown, Shown
    <3>2. LET t == ToldOfOwnMove(v, shown, from, to, teleport) IN t = [w \in Tiles |-> t[w]]
      BY <1>4 DEF ToldOfOwnMove, MapDescription
    <3> QED
      BY <3>1, <3>2, Zenon
  <2> QED
    BY <2>2, <2>3
<1>9. \A v \in Viewers : screen'[v] = [u \in Tiles |-> screen'[v][u]]
  <2>1. ASSUME NEW v \in Viewers PROVE Told(v) = [u \in Tiles |-> Told(v)[u]]
    <3> DEFINE shown == Shown(v)
    <3>1. CASE v \notin Somewhere(tiles)
      BY <3>1 DEF AllDark
    <3>2. CASE v \in Somewhere(tiles)
      <4>1. Told(v) = LeftBehind(v, from, shown) /\ shown = [u \in Tiles |-> shown[u]]
        BY <1>a, <3>2
      <4> HIDE DEF shown, Told
      <4>2. LeftBehind(v, from, shown) = [u \in Tiles |-> LeftBehind(v, from, shown)[u]]
        BY <4>1, LeftBehindTyped
      <4> QED
        BY <4>1, <4>2, Zenon
    <3> QED
      BY <3>1, <3>2
  <2> QED
    BY <1>5, <2>1
<1>b. /\ ThingCount(tiles[from]) = ThingCount(tiles'[from]) + 1 /\ ThingCount(tiles'[from]) \in Nat
      /\ ThingCount(tiles'[to]) = ThingCount(tiles[to]) + 1 /\ ThingCount(tiles[to]) \in Nat
      /\ \A u \in Tiles \ {from, to} : tiles'[u] = tiles[u]
  <2>1. /\ tiles[from] \in Tile /\ tiles'[from] \in Tile /\ tiles[to] \in Tile /\ tiles'[to] \in Tile
        /\ IsInjective(tiles[from].beings) /\ IsInjective(tiles'[to].beings)
    BY <1>1, <1>3, <1>8 DEF Alone
  <2>2. /\ LessOne(tiles'[from], tiles[from], c) /\ LessOne(tiles[to], tiles'[to], c)
        /\ c \in ToSet(tiles'[to].beings) /\ \A u \in Tiles \ {from, to} : tiles'[u] = tiles[u]
    BY <1>7 DEF Moves
  <2>3. ThingCount(tiles[from]) = ThingCount(tiles'[from]) + 1 /\ ThingCount(tiles'[from]) \in Nat
    BY <1>3, <2>1, <2>2, CountLess
  <2>4. ThingCount(tiles'[to]) = ThingCount(tiles[to]) + 1 /\ ThingCount(tiles[to]) \in Nat
    BY <2>1, <2>2, CountLess
  <2> QED
    BY <2>2, <2>3, <2>4
<1>c. \A v : Over(tiles[from], v) => ThingCount(tiles[from]) > Limit
  BY <1>1, <1>3, FullCounts
<1>10. ASSUME NEW v \in Viewers, NEW u \in Tiles, CanSee(tiles', v, u)
       PROVE  /\ screen'[v][u] \in {Lost, Cut(Visible(tiles'[u], v, hidden'))}
              /\ screen'[v][u] = Lost => ThingCount(tiles'[u]) > Limit
  <2> DEFINE shown == screen[v]
             now == Shown(v)
  <2>1. shown = [w \in Tiles |-> shown[w]]
    BY <1>1
  <2>2. \A w \in Tiles : CanSee(tiles, v, w) => shown[w] \in {Lost, Cut(Visible(tiles[w], v, hidden))}
    BY ViewFacts
  <2>3. v \in Somewhere(tiles)
    BY <1>8, <1>10 DEF CanSee
  <2>4. /\ now[u] \in {Lost, Cut(Visible(tiles'[u], v, hidden))}
        /\ now[u] = Lost => CanSee(tiles, v, u) /\ (shown[u] = Lost \/ (u = from /\ Over(tiles[from], v)))
    <3>1. CASE v # c
      <4>1. CanSee(tiles, v, u)
        BY <1>8, <1>10, <3>1
      <4>2. now = ToldOfMove(v, shown, c, from, to, teleport)
        BY <3>1
      <4> HIDE DEF shown, now
      <4>3. TakenSo(ToldOfMove(v, shown, c, from, to, teleport)[u], shown[u], Visible(tiles'[u], v, hidden), u, from, v)
        BY <1>1, <1>2, <1>3, <1>4, <1>7, <2>1, <2>2, <3>1, <4>1, ToldMove, ZenonT(30)
      <4> QED
        BY <4>1, <4>2, <4>3 DEF TakenSo
    <3>2. CASE v = c
      <4>1. u \in Sight[to]
        BY <1>8, <1>10, <3>2 DEF CanSee
      <4>2. now = ToldOfOwnMove(v, shown, from, to, teleport)
        BY <3>2
      <4>3. \A w \in Sight[from] : CanSee(tiles, v, w) /\ w \in Tiles
        <5>1. ASSUME NEW w \in Sight[from] PROVE CanSee(tiles, v, w) /\ w \in Tiles
          <6>1. w \in Tiles
            BY <1>3, TileViewAssumption
          <6> QED
            BY <2>3, <3>2, <6>1 DEF CanSee, from
        <5> QED
          BY <5>1
      <4> HIDE DEF shown, now
      <4>4. \A w \in Sight[from] : shown[w] \in {Lost, Cut(Visible(tiles[w], v, hidden))}
        BY <2>2, <4>3
      <4>5. OwnMoveSo(ToldOfOwnMove(v, shown, from, to, teleport)[u], shown[u], Visible(tiles'[u], v, hidden), u, from, v)
        <5>1. v \in ToSet(tiles[from].beings) /\ Moves(tiles', tiles, from, to, v) /\ from # to
          BY <1>2, <1>3, <1>7, <3>2
        <5> QED
          BY <1>1, <1>3, <1>4, <2>1, <4>1, <4>4, <5>1, ToldOwnMove, ZenonT(30)
      <4> QED
        BY <4>2, <4>3, <4>5 DEF OwnMoveSo
    <3> QED
      BY <3>1, <3>2
  <2>5. CanSee(tiles, v, u) /\ shown[u] = Lost => ThingCount(tiles[u]) > Limit
    BY ViewFacts
  <2>6. screen'[v] = LeftBehind(v, from, now) /\ now = [w \in Tiles |-> now[w]]
    BY <1>5, <1>a, <2>3
  <2> HIDE DEF now, shown
  <2>7. now[u] = Lost => ThingCount(tiles[u]) > Limit
    BY <1>c, <2>4, <2>5
  <2>8. u = from /\ ThingCount(tiles'[from]) <= Resend => now[u] # Lost
    BY <1>b, <2>7, TileViewAssumption
  <2>9. /\ LeftBehind(v, from, now)[u] \in {Lost, Cut(Visible(tiles'[u], v, hidden'))}
        /\ LeftBehind(v, from, now)[u] = Lost => u # from /\ now[u] = Lost
    BY <1>1, <1>3, <1>8, <1>10, <2>4, <2>6, <2>8, LeftBehindTrue
  <2>10. u # from /\ ThingCount(tiles[u]) > Limit => ThingCount(tiles'[u]) > Limit
    <3>1. CASE u = to
      BY <1>b, <3>1, TileViewAssumption
    <3>2. CASE u # to
      BY <1>b, <3>2
    <3> QED
      BY <3>1, <3>2
  <2> QED
    BY <2>6, <2>7, <2>9, <2>10
<1>12. hidden' \subseteq (Access \cup Monsters) \cap Somewhere(tiles')
  BY <1>1, <1>8
<1> HIDE DEF Told, Shown
<1> QED
  BY <1>6, <1>8, <1>9, <1>10, <1>12, ViewAgain

(* So does a creature that becomes hidden, or is hidden no more.           *)
LEMMA HideTrue ==
    ASSUME ViewInv, NEW c, Hide(c)
    PROVE  ViewInv'
<1> DEFINE t == TileOf(tiles, c)
           blind == {v \in Viewers : ~CanSeeCreature(v, c, {c})}
           n(v) == ClientIndexOfCreature(tiles[t], v, c, hidden)
           hide == c \notin hidden
           Told(v) == IF v \in Somewhere(tiles)
                      THEN IF v \notin blind THEN screen[v]
                           ELSE IF hide /\ (n(v) >= Limit \/ CanSee(tiles, v, t))
                           THEN Taken(v, screen[v], t, n(v), c)
                           ELSE IF ~hide /\ CanSee(tiles, v, t)
                           THEN Appeared(screen[v], t, n(v), c, Described(tiles[t], v, hidden'))
                           ELSE screen[v]
                      ELSE AllDark
           told == [v \in Viewers |-> Told(v)]
<1>1. /\ tiles \in [Tiles -> Tile] /\ Alone(tiles)
      /\ hidden \subseteq (Access \cup Monsters) \cap Somewhere(tiles)
      /\ \A v \in Viewers : screen[v] = [u \in Tiles |-> screen[v][u]]
  BY DEF ViewInv, Typed, ScreenTyped
<1>2. /\ tiles' = tiles /\ c \in Somewhere(tiles) \cap (Access \cup Monsters) /\ screen' = told
      /\ hidden' = IF hide THEN hidden \cup {c} ELSE hidden \ {c}
  BY DEF Hide, Tell
<1>3. t \in Tiles /\ c \in ToSet(tiles[t].beings) /\ \A u \in Tiles : u # t => c \notin ToSet(tiles[u].beings)
  BY <1>1, <1>2, Stands
<1>4. hidden' \subseteq (Access \cup Monsters) \cap Somewhere(tiles')
  BY <1>1, <1>2
<1>5. tiles[t] \in Tile /\ IsInjective(tiles[t].beings) /\ \A u \in Tiles : tiles[u] \in Tile
  BY <1>1, <1>3 DEF Alone
<1>6. PICK y \in Tile : LessOne(y, tiles[t], c)
  BY <1>5, LessOneTile
<1>7. \A v \in Viewers : screen'[v] = Told(v)
  BY <1>2
<1>8. screen' = [v \in Viewers |-> told[v]]
  BY <1>2
<1> HIDE DEF t, told
<1>9. \A v \in Viewers : screen'[v] = [u \in Tiles |-> screen'[v][u]]
  <2>1. ASSUME NEW v \in Viewers PROVE Told(v) = [u \in Tiles |-> Told(v)[u]]
    <3> DEFINE shown == screen[v]
               m == n(v)
               whole == Described(tiles[t], v, hidden')
    <3>1. shown = [w \in Tiles |-> shown[w]]
      BY <1>1
    <3>2. Told(v) \in {AllDark, shown, Taken(v, shown, t, m, c), Appeared(shown, t, m, c, whole)}
      OBVIOUS
    <3> HIDE DEF shown, Told, m, whole
    <3>3. Taken(v, shown, t, m, c) = [w \in Tiles |-> Taken(v, shown, t, m, c)[w]]
      BY <3>1, TakenTyped
    <3>4. Appeared(shown, t, m, c, whole) = [w \in Tiles |-> Appeared(shown, t, m, c, whole)[w]]
      BY <3>1 DEF Appeared
    <3>5. AllDark = [w \in Tiles |-> AllDark[w]]
      BY DEF AllDark
    <3> QED
      BY <3>1, <3>2, <3>3, <3>4, <3>5
  <2> QED
    BY <1>7, <2>1
<1>10. ASSUME NEW v \in Viewers, NEW u \in Tiles, CanSee(tiles, v, u)
       PROVE  /\ screen'[v][u] \in {Lost, Cut(Visible(tiles[u], v, hidden'))}
              /\ screen'[v][u] = Lost => ThingCount(tiles[u]) > Limit
  <2> DEFINE shown == screen[v]
             m == n(v)
  <2>1. shown = [w \in Tiles |-> shown[w]] /\ v \in Somewhere(tiles)
    BY <1>1, <1>10 DEF CanSee
  <2>2. shown[u] \in {Lost, Cut(Visible(tiles[u], v, hidden))}
    BY <1>10, ViewFacts
  <2>a. shown[u] = Lost => ThingCount(tiles[u]) > Limit
    BY <1>10, ViewFacts
  <2>b. Over(tiles[t], v) => ThingCount(tiles[t]) > Limit
    BY <1>5, FullCounts
  <2>3. SameOthers(v, c, hidden, hidden') /\ SameOthers(v, c, hidden', hidden)
    BY <1>2 DEF SameOthers, CanSeeCreature
  <2>4. u # t => Visible(tiles[u], v, hidden) = Visible(tiles[u], v, hidden')
    BY <1>3, <1>5, <2>3, ShowsOthers
  <2>5. /\ CanSeeCreature(v, c, hidden) =>
                Grows(Visible(y, v, hidden'), Visible(tiles[t], v, hidden), ClientIndexOfCreature(tiles[t], v, c, hidden), c)
        /\ ~CanSeeCreature(v, c, hidden) => Visible(y, v, hidden') = Visible(tiles[t], v, hidden)
    BY <1>3, <1>5, <1>6, <2>3, CreatureShows
  <2>6. /\ CanSeeCreature(v, c, hidden') =>
                Grows(Visible(y, v, hidden), Visible(tiles[t], v, hidden'), ClientIndexOfCreature(tiles[t], v, c, hidden'), c)
        /\ ~CanSeeCreature(v, c, hidden') => Visible(y, v, hidden) = Visible(tiles[t], v, hidden')
    BY <1>3, <1>5, <1>6, <2>3, CreatureShows
  <2>7. SameOthers(v, c, hidden, hidden) /\ SameOthers(v, c, hidden', hidden')
    BY DEF SameOthers
  <2>8. /\ ~CanSeeCreature(v, c, hidden) => Visible(y, v, hidden) = Visible(tiles[t], v, hidden)
        /\ ~CanSeeCreature(v, c, hidden') => Visible(y, v, hidden') = Visible(tiles[t], v, hidden')
    BY <1>3, <1>5, <1>6, <2>7, CreatureShows
  <2>9. CASE v \notin blind
    <3>1. screen'[v] = shown
      BY <1>7, <2>1, <2>9
    <3>2. CanSeeCreature(v, c, {c}) /\ CanSeeCreature(v, c, hidden) /\ CanSeeCreature(v, c, hidden')
      BY <2>9 DEF CanSeeCreature
    <3>3. tiles[t].beings \in Seq(Creatures)
      BY <1>5 DEF Tile
    <3>4. ASSUME NEW b \in ToSet(tiles[t].beings) PROVE b \in SeenBy(v, hidden) <=> b \in SeenBy(v, hidden')
      <4>1. b \in Creatures
        BY <3>3 DEF ToSet
      <4> QED
        BY <2>3, <3>2, <4>1 DEF SameOthers, SeenBy, Creatures
    <3>5. Among(tiles[t].beings, SeenBy(v, hidden)) = Among(tiles[t].beings, SeenBy(v, hidden'))
      BY <3>3, <3>4, AmongAgree
    <3>6. Visible(tiles[t], v, hidden) = Visible(tiles[t], v, hidden')
      BY <3>5, Zenon DEF Visible
    <3> QED
      BY <2>2, <2>4, <2>a, <3>1, <3>6
  <2>10. CASE v \in blind /\ hide
    <3>1. CanSeeCreature(v, c, hidden) /\ ~CanSeeCreature(v, c, hidden')
      BY <1>2, <2>10 DEF CanSeeCreature
    <3>2. Visible(y, v, hidden') = Visible(tiles[t], v, hidden')
      BY <2>8, <3>1
    <3>3. CASE m >= Limit \/ CanSee(tiles, v, t)
      <4>1. screen'[v] = Taken(v, shown, t, m, c)
        BY <1>7, <2>1, <2>10, <3>3
      <4>2. m \in {-1, ClientIndexOfCreature(tiles[t], v, c, hidden)}
        OBVIOUS
      <4> HIDE DEF m, shown
      <4>3. TakenSo(Taken(v, shown, t, m, c)[u], shown[u], Visible(IF u = t THEN y ELSE tiles[u], v, hidden'), u, t, v)
        BY <1>1, <1>3, <1>6, <2>1, <2>2, <2>3, <3>1, <4>2, TakenTrue, ZenonT(30)
      <4> QED
        BY <2>a, <2>b, <3>2, <4>1, <4>3 DEF TakenSo
    <3>4. CASE ~(m >= Limit \/ CanSee(tiles, v, t))
      <4>1. screen'[v] = shown /\ u # t
        BY <1>7, <1>10, <2>1, <2>10, <3>4
      <4> QED
        BY <2>2, <2>4, <2>a, <4>1
    <3> QED
      BY <3>3, <3>4
  <2>11. CASE v \in blind /\ ~hide
    <3>1. ~CanSeeCreature(v, c, hidden) /\ CanSeeCreature(v, c, hidden')
      BY <1>2, <2>11 DEF CanSeeCreature
    <3>2. CASE CanSee(tiles, v, t)
      <4> DEFINE new == Appeared(shown, t, m, c, Described(tiles[t], v, hidden'))
      <4>1. screen'[v] = new
        BY <1>7, <2>1, <2>11, <3>2
      <4>2. ClientIndexOfCreature(tiles[t], v, c, hidden') = m
        <5>1. \A b \in Creatures \ {c} : CanSeeCreature(v, b, hidden') <=> CanSeeCreature(v, b, hidden)
          BY <2>3 DEF SameOthers
        <5> QED
          BY <1>3, <1>5, <5>1, IndexAgrees
      <4> HIDE DEF m
      <4>3. Grows(Visible(tiles[t], v, hidden), Visible(tiles[t], v, hidden'), m, c)
        BY <2>6, <2>8, <3>1, <4>2
      <4>4. shown[t] \in {Lost, Cut(Visible(tiles[t], v, hidden))}
        BY <1>3, <3>2, ViewFacts
      <4> HIDE DEF shown
      <4>5. KeptAt(new, shown, t, Visible(tiles[t], v, hidden'))
        BY <1>3, <1>5, <2>1, <4>3, <4>4, AppearedTrue
      <4> HIDE DEF new
      <4> QED
        BY <2>2, <2>4, <2>a, <4>1, <4>5 DEF KeptAt, Kept
    <3>3. CASE ~CanSee(tiles, v, t)
      <4>1. screen'[v] = shown /\ u # t
        BY <1>7, <1>10, <2>1, <2>11, <3>3
      <4> QED
        BY <2>2, <2>4, <2>a, <4>1
    <3> QED
      BY <3>2, <3>3
  <2> QED
    BY <2>9, <2>10, <2>11
<1>11. tiles' \in [Tiles -> Tile] /\ Alone(tiles')
       /\ \A v \in Viewers, u \in Tiles : CanSee(tiles', v, u)
             => /\ screen'[v][u] \in {Lost, Cut(Visible(tiles'[u], v, hidden'))}
                /\ screen'[v][u] = Lost => ThingCount(tiles'[u]) > Limit
  BY <1>1, <1>2, <1>10
<1> HIDE DEF Told
<1> QED
  BY <1>4, <1>8, <1>9, <1>11, ViewAgain

(* Nobody is in the game yet.                                              *)
LEMMA ViewStarts == ViewInit => ViewInv
<1> SUFFICES ASSUME ViewInit PROVE ViewInv
  OBVIOUS
<1> DEFINE x == [ground |-> CHOOSE g \in Grounds : TRUE, top |-> <<>>, beings |-> <<>>, down |-> <<>>]
<1>1. tiles = [t \in Tiles |-> x] /\ hidden = {} /\ screen = [v \in Viewers |-> AllDark]
  BY DEF ViewInit
<1>2. x \in Tile /\ x.beings = <<>>
  <2>1. (CHOOSE g \in Grounds : TRUE) \in Grounds
    BY TileViewAssumption
  <2> QED
    BY <2>1 DEF Tile
<1> HIDE DEF x
<1>3. ToSet(<<>>) = {} /\ IsInjective(<<>>)
  BY DEF ToSet, IsInjective
<1>4. \A t \in Tiles : tiles[t] = x /\ ToSet(tiles[t].beings) = {} /\ IsInjective(tiles[t].beings)
  BY <1>1, <1>2, <1>3
<1>5. tiles \in [Tiles -> Tile]
  BY <1>1, <1>2
<1>6. Alone(tiles) /\ Somewhere(tiles) = {}
  BY <1>4 DEF Alone, Somewhere
<1>7. ScreenTyped(screen)
  BY <1>1 DEF ScreenTyped, AllDark
<1>8. ScreensTrue
  BY <1>6 DEF ScreensTrue, CanSee
<1> QED
  BY <1>1, <1>5, <1>6, <1>7, <1>8 DEF ViewInv, Typed

(* Each step keeps the invariant.                                          *)
LEMMA ViewGoesOn == ViewInv /\ [ViewNext]_viewVars => ViewInv'
<1> SUFFICES ASSUME ViewInv, [ViewNext]_viewVars PROVE ViewInv'
  OBVIOUS
<1>1. ASSUME NEW t \in Tiles, NEW x \in Grounds \cup Tops \cup Downs, AddItem(t, x) PROVE ViewInv'
  BY <1>1, AddItemTrue
<1>2. ASSUME NEW t \in Tiles, NEW k \in 1..MaxItems, NEW list \in {"ground", "top", "down"},
             TakeItem(t, list, k)
      PROVE  ViewInv'
  <2>1. k \in Nat
    BY TileViewAssumption
  <2> QED
    BY <1>2, <2>1, TakeItemTrue
<1>3. ASSUME NEW t \in Tiles, NEW k \in 1..MaxItems, NEW list \in {"top", "down"}, NEW x,
             NEW removal \in {"first", "last", "none"}, UpdateItem(t, list, k, x, removal)
      PROVE  ViewInv'
  <2>1. k \in Nat
    BY TileViewAssumption
  <2> QED
    BY <1>3, <2>1, UpdateItemTrue
<1>4. ASSUME NEW c \in Viewers \cup Monsters, NEW t \in Tiles, PlaceCreature(c, t) PROVE ViewInv'
  BY <1>4, PlaceTrue DEF Creatures
<1>5. ASSUME NEW c \in Viewers \cup Monsters, NEW t \in Tiles, NEW force \in BOOLEAN,
             MoveCreature(c, t, force)
      PROVE  ViewInv'
  BY <1>5, MoveTrue DEF Creatures
<1>6. ASSUME NEW c \in Somewhere(tiles), Hide(c) PROVE ViewInv'
  BY <1>6, HideTrue
<1>7. ASSUME NEW c \in Somewhere(tiles), NEW order \in SetToSeqs(Viewers \cap Somewhere(tiles)),
             RemoveCreature(c, order)
      PROVE  ViewInv'
  BY <1>7, RemoveTrue
<1>8. CASE UNCHANGED viewVars
  <2>1. tiles' = tiles /\ hidden' = hidden /\ screen' = screen
    BY <1>8 DEF viewVars
  <2>2. Typed' /\ Alone(tiles)'
    BY <2>1 DEF ViewInv, Typed, ScreenTyped, Alone, Somewhere
  <2>3. ScreensTrue'
    <3>1. \A v, t : CanSee(tiles', v, t) <=> CanSee(tiles, v, t)
      BY <2>1
    <3> QED
      BY <2>1, <3>1, Zenon DEF ViewInv, ScreensTrue
  <2> QED
    BY <2>2, <2>3 DEF ViewInv
<1> QED
  BY <1>1, <1>2, <1>3, <1>4, <1>5, <1>6, <1>7, <1>8 DEF ViewNext

(* Each client shows of every tile in its sight what it would be sent now,  *)
(* whatever was added, changed, moved, hidden and removed: the numbers of   *)
(* Tile::getStackposOfItem and getClientIndexOfCreature, counted before or  *)
(* after each change and for each player, are the right ones.  Only a tile  *)
(* that holds more than a client shows can be lost to it: what leaves the   *)
(* tile has it sent again (Tile::postRemoveNotification).                   *)
THEOREM ScreensTrueAlways == ViewSpec => []ScreensTrue
<1>1. ViewInv => ScreensTrue
  BY DEF ViewInv
<1> QED
  BY ViewStarts, ViewGoesOn, <1>1, PTL DEF ViewSpec
=============================================================================
