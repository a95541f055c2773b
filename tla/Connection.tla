----------------------------- MODULE Connection -----------------------------
(***************************************************************************)
(* The life of one connection (connection.cpp).  The network thread runs   *)
(* the handlers of its reads, writes and timers; the dispatcher sends to   *)
(* it and closes it.  Every one of them holds connectionLock, so each is   *)
(* one action here, and a handler is a composition of the operations it    *)
(* calls on the object.                                                    *)
(*                                                                         *)
(* A timer that expires queues its handler, and cancel() does not take     *)
(* back a handler that is queued: "fired" outlives a cancel.  A read or a  *)
(* write is first pending, then completed, and then handled: whatever else *)
(* runs in between runs before the handler.  The object lives while the    *)
(* ConnectionManager lists it or a read or write holds it.                 *)
(***************************************************************************)
EXTENDS Integers, SequencesExt

CONSTANTS
    MaxMessages     \* the messages the server has to send (bounds the model)

ASSUME ConnectionAssumption == MaxMessages \in Nat

VARIABLES
    conn,           \* the Connection object
    peerGone,       \* the peer reset the connection
    accepted,       \* history: the number of messages send() took
    delivered       \* history: the messages written to the socket

connVars == <<conn, peerGone, accepted, delivered>>

Nothing == 0

(* The object as ServicePort::accept creates it, before its accept.         *)
Created ==
    [managed |-> TRUE, closed |-> FALSE, socketOpen |-> FALSE,
     protocol |-> FALSE, receivedFirstHeader |-> FALSE, released |-> 0,
     messageQueue |-> <<>>, writing |-> Nothing, reading |-> "none",
     writeResult |-> "none", readResult |-> "none",
     readTimer |-> {}, writeTimer |-> {}]

ConnInit ==
    /\ conn = Created
    /\ peerGone = FALSE
    /\ accepted = 0
    /\ delivered = <<>>

Alive(c) == c.managed \/ c.reading # "none" \/ c.writing # Nothing

-----------------------------------------------------------------------------
(* closeSocket: the timers no longer expire.                                *)
CloseSocket(c) ==
    IF c.socketOpen
    THEN [c EXCEPT !.socketOpen = FALSE,
                   !.readTimer = @ \ {"armed"}, !.writeTimer = @ \ {"armed"}]
    ELSE c

(* The destructor, once nothing holds the object any more.                  *)
Settled(c) == IF Alive(c) THEN c ELSE CloseSocket(c)

(* close: the first call decides, the others only unlist.                   *)
CloseConnection(c, force) ==
    LET unlisted == [c EXCEPT !.managed = FALSE]
        d == [unlisted EXCEPT !.closed = TRUE,
                              !.released = IF c.protocol THEN @ + 1 ELSE @]
    IN  IF c.closed THEN unlisted
        ELSE IF c.messageQueue = <<>> \/ force THEN CloseSocket(d) ELSE d

(* readTimer.async_wait and async_read of a header, a body or a proxy's     *)
(* address.                                                                 *)
StartRead(c, what) ==
    [c EXCEPT !.reading = what, !.readResult = "pending",
              !.readTimer = @ \union {"armed"}]

(* internalSend.                                                            *)
InternalSend(c, m) ==
    [c EXCEPT !.writing = m, !.writeResult = "pending",
              !.writeTimer = @ \union {"armed"}]

(* A bug: every message is written at once, beside the one being written.   *)
BadSendAtOnce(c, m) ==
    IF c.closed THEN c
    ELSE InternalSend([c EXCEPT !.messageQueue = Append(@, m)], m)

(* send: a closed connection drops the message.                             *)
SendMessage(c, m) ==
    LET d == [c EXCEPT !.messageQueue = Append(@, m)]
    IN  IF c.closed THEN c
        ELSE IF c.messageQueue = <<>> THEN InternalSend(d, m) ELSE d

(* What the handlers do first: the operation has ended, its timer is        *)
(* cancelled.                                                               *)
ReadEnded(c) ==
    [c EXCEPT !.reading = "none", !.readResult = "none", !.readTimer = @ \ {"armed"}]
WriteEnded(c) ==
    [c EXCEPT !.writing = Nothing, !.writeResult = "none",
              !.writeTimer = @ \ {"armed"}, !.messageQueue = Tail(@)]

-----------------------------------------------------------------------------
(* onAccept: the connection has an address, or is closed; the game protocol *)
(* is made before the first message, the others from it.                    *)
AcceptConnection ==
    /\ conn = Created
    /\ \/ \E gameProtocol \in BOOLEAN :
             conn' = StartRead([conn EXCEPT !.socketOpen = TRUE,
                                            !.protocol = gameProtocol], "header")
       \/ conn' = Settled(CloseConnection([conn EXCEPT !.socketOpen = TRUE], TRUE))
    /\ UNCHANGED <<peerGone, accepted, delivered>>

(* send() by the dispatcher.                                                *)
Send ==
    /\ conn.protocol
    /\ Alive(conn)
    /\ accepted < MaxMessages
    /\ conn' = SendMessage(conn, accepted + 1)
    /\ accepted' = IF conn.closed THEN accepted ELSE accepted + 1
    /\ UNCHANGED <<peerGone, delivered>>

(* Protocol::disconnect, or the disconnection of a player.                  *)
Disconnect ==
    /\ conn.protocol
    /\ Alive(conn)
    /\ conn' = Settled(CloseConnection(conn, FALSE))
    /\ UNCHANGED <<peerGone, accepted, delivered>>

(* ConnectionManager::closeAll, when the server stops: the sockets of the   *)
(* connections it lists are closed, and it lists none.                      *)
CloseAll ==
    /\ conn.managed
    /\ conn.socketOpen
    /\ conn' = Settled([conn EXCEPT !.managed = FALSE, !.socketOpen = FALSE])
    /\ UNCHANGED <<peerGone, accepted, delivered>>

-----------------------------------------------------------------------------
(* The peer and the operating system: bytes arrive, bytes are taken, the    *)
(* peer ends its side or resets the connection.                             *)
PeerSends ==
    /\ conn.readResult = "pending"
    /\ conn.socketOpen
    /\ ~peerGone
    /\ \E result \in {"done", "failed"} : conn' = [conn EXCEPT !.readResult = result]
    /\ UNCHANGED <<peerGone, accepted, delivered>>

PeerReads ==
    /\ conn.writeResult = "pending"
    /\ conn.socketOpen
    /\ ~peerGone
    /\ conn' = [conn EXCEPT !.writeResult = "done"]
    /\ delivered' = Append(delivered, conn.writing)
    /\ UNCHANGED <<peerGone, accepted>>

PeerResets ==
    /\ conn.socketOpen
    /\ ~peerGone
    /\ peerGone' = TRUE
    /\ UNCHANGED <<conn, accepted, delivered>>

(* What is pending on a socket that is closed or reset fails.               *)
ReadFails ==
    /\ conn.readResult = "pending"
    /\ ~conn.socketOpen \/ peerGone
    /\ conn' = [conn EXCEPT !.readResult = "failed"]
    /\ UNCHANGED <<peerGone, accepted, delivered>>

WriteFails ==
    /\ conn.writeResult = "pending"
    /\ ~conn.socketOpen \/ peerGone
    /\ conn' = [conn EXCEPT !.writeResult = "failed"]
    /\ UNCHANGED <<peerGone, accepted, delivered>>

-----------------------------------------------------------------------------
(* parseHeader: too many packets close gracefully; a first header may name  *)
(* a proxy, whose address is read before the header proper; a banned        *)
(* address or a bad size closes by force.                                   *)
ParseHeader ==
    /\ conn.reading = "header"
    /\ conn.readResult \in {"done", "failed"}
    /\ LET c == ReadEnded(conn)
           first == [c EXCEPT !.receivedFirstHeader = TRUE]
       IN  IF conn.readResult = "failed"
           THEN conn' = Settled(CloseConnection(c, TRUE))
           ELSE IF conn.closed THEN conn' = Settled(c)
           ELSE \/ conn' = Settled(CloseConnection(c, FALSE))
                \/ /\ ~conn.receivedFirstHeader
                   /\ conn' = StartRead(first, "proxy")
                \/ conn' = Settled(CloseConnection(first, TRUE))
                \/ conn' = StartRead(first, "body")
    /\ UNCHANGED <<peerGone, accepted, delivered>>

(* The two lambdas of parseHeader: the proxy gave the address of the peer.  *)
ParseProxy ==
    /\ conn.reading = "proxy"
    /\ conn.readResult \in {"done", "failed"}
    /\ LET c == ReadEnded(conn)
       IN  \/ conn' = Settled(CloseConnection(c, TRUE))
           \/ /\ conn.readResult = "done"
              /\ conn' = StartRead(c, "header")
    /\ UNCHANGED <<peerGone, accepted, delivered>>

(* parsePacket: the first message makes the protocol, or closes by force.   *)
(* What the protocol does with the message happens under the same lock: it  *)
(* may answer, and it may say why the client cannot stay and disconnect it; *)
(* the next header is awaited either way.                                   *)
ParsePacket ==
    /\ conn.reading = "body"
    /\ conn.readResult \in {"done", "failed"}
    /\ LET c == ReadEnded(conn)
           made == [c EXCEPT !.protocol = TRUE]
           m == accepted + 1
           canSend == ~conn.closed /\ accepted < MaxMessages
       IN  IF conn.readResult = "failed"
           THEN conn' = Settled(CloseConnection(c, TRUE)) /\ UNCHANGED accepted
           ELSE IF conn.closed THEN conn' = Settled(c) /\ UNCHANGED accepted
           ELSE \/ /\ ~conn.protocol
                   /\ conn' = Settled(CloseConnection(c, TRUE))
                   /\ UNCHANGED accepted
                \/ /\ conn' = StartRead(made, "header")
                   /\ UNCHANGED accepted
                \/ /\ canSend
                   /\ conn' = StartRead(SendMessage(made, m), "header")
                   /\ accepted' = m
                \/ /\ canSend
                   /\ conn' = StartRead(CloseConnection(SendMessage(made, m), FALSE), "header")
                   /\ accepted' = m
                \/ /\ conn' = StartRead(CloseConnection(made, FALSE), "header")
                   /\ UNCHANGED accepted
    /\ UNCHANGED <<peerGone, delivered>>

(* A bug: the last message of a connection that is closed does not close    *)
(* its socket.                                                              *)
BadOnWriteOperationLast ==
    /\ conn.writeResult \in {"done", "failed"}
    /\ LET c == WriteEnded(conn)
       IN  conn' = Settled(IF conn.writeResult = "failed"
                   THEN CloseConnection([c EXCEPT !.messageQueue = <<>>], TRUE)
                   ELSE IF c.messageQueue # <<>>
                   THEN InternalSend(c, Head(c.messageQueue))
                   ELSE c)
    /\ UNCHANGED <<peerGone, accepted, delivered>>

(* onWriteOperation.                                                        *)
OnWriteOperation ==
    /\ conn.writeResult \in {"done", "failed"}
    /\ LET c == WriteEnded(conn)
       IN  conn' = Settled(IF conn.writeResult = "failed"
                   THEN CloseConnection([c EXCEPT !.messageQueue = <<>>], TRUE)
                   ELSE IF c.messageQueue # <<>>
                   THEN InternalSend(c, Head(c.messageQueue))
                   ELSE IF c.closed THEN CloseSocket(c) ELSE c)
    /\ UNCHANGED <<peerGone, accepted, delivered>>

(* A timer expires: its handler is queued.                                  *)
Timers == {"readTimer", "writeTimer"}
TimerExpires(timer) ==
    /\ Alive(conn)
    /\ "armed" \in conn[timer]
    /\ conn' = [conn EXCEPT ![timer] = {"fired"}]
    /\ UNCHANGED <<peerGone, accepted, delivered>>

(* handleTimeout: the object it finds alive is closed by force.             *)
HandleTimeout(timer) ==
    /\ Alive(conn)
    /\ "fired" \in conn[timer]
    /\ conn' = Settled(CloseConnection([conn EXCEPT ![timer] = @ \ {"fired"}], TRUE))
    /\ UNCHANGED <<peerGone, accepted, delivered>>

-----------------------------------------------------------------------------
ConnNext ==
    \/ AcceptConnection
    \/ Send
    \/ Disconnect
    \/ CloseAll
    \/ PeerSends
    \/ PeerReads
    \/ PeerResets
    \/ ReadFails
    \/ WriteFails
    \/ ParseHeader
    \/ ParseProxy
    \/ ParsePacket
    \/ OnWriteOperation
    \/ \E timer \in Timers : TimerExpires(timer) \/ HandleTimeout(timer)

(* io_service runs the handlers in the order they become ready, the clock   *)
(* goes on, and what is pending on a dead socket fails.  Nothing is assumed *)
(* of the peer.                                                             *)
ConnFairness ==
    /\ WF_connVars(ParseHeader \/ ParseProxy \/ ParsePacket)
    /\ WF_connVars(OnWriteOperation)
    /\ WF_connVars(ReadFails)
    /\ WF_connVars(WriteFails)
    /\ \A timer \in Timers :
          WF_connVars(TimerExpires(timer)) /\ WF_connVars(HandleTimeout(timer))

ConnSpec == ConnInit /\ [][ConnNext]_connVars /\ ConnFairness

-----------------------------------------------------------------------------
(* The types.                                                               *)
Outcomes == {"none", "pending", "done", "failed"}
ConnObjects ==
    [managed : BOOLEAN, closed : BOOLEAN, socketOpen : BOOLEAN,
     protocol : BOOLEAN, receivedFirstHeader : BOOLEAN, released : Nat,
     messageQueue : Seq(1..MaxMessages), writing : {Nothing} \union 1..MaxMessages,
     reading : {"none", "header", "proxy", "body"},
     writeResult : Outcomes, readResult : Outcomes,
     readTimer : SUBSET {"armed", "fired"}, writeTimer : SUBSET {"armed", "fired"}]

ConnTypeOK ==
    /\ conn \in ConnObjects
    /\ peerGone \in BOOLEAN
    /\ accepted \in 0..MaxMessages
    /\ delivered \in Seq(1..MaxMessages)

(* What the peer reads is a prefix of what send() took, each message once   *)
(* and in order; until the connection fails or is closed by force the rest  *)
(* is still in messageQueue, of which exactly the first is being written.   *)
Undelivered ==
    IF conn.writeResult = "done" THEN Tail(conn.messageQueue) ELSE conn.messageQueue
DeliveredInOrder ==
    /\ IsPrefix(delivered, [i \in 1..accepted |-> i])
    /\ conn.socketOpen /\ conn.writeResult # "failed" /\ ~peerGone
        => delivered \o Undelivered = [i \in 1..accepted |-> i]
    /\ conn.writing = IF conn.messageQueue = <<>> THEN Nothing
                      ELSE Head(conn.messageQueue)

(* The protocol of a connection is released once, when it closes: a         *)
(* protocol made by a message that raced the close would stay for ever.     *)
ReleasedOnce == conn.released = IF conn.closed /\ conn.protocol THEN 1 ELSE 0

(* A write is one of a message, and fails only when the connection does;    *)
(* and a connection that is listed and was not closed has its socket, or    *)
(* still waits for its accept, and then it has not been used.               *)
WriteInv ==
    /\ conn.writing # Nothing <=> conn.writeResult # "none"
    /\ conn.writeResult = "failed" => ~conn.socketOpen \/ peerGone
UnusedInv ==
    conn.managed /\ ~conn.closed /\ ~conn.socketOpen
        => conn = Created /\ accepted = 0 /\ delivered = <<>>

ConnInv == ConnTypeOK /\ DeliveredInOrder /\ ReleasedOnce /\ WriteInv /\ UnusedInv

(* What was taken is delivered, and what was made is let go.                *)
ConnectionSound == DeliveredInOrder /\ ReleasedOnce

(* A client that is silent, or that does not read, is not waited for: no    *)
(* read and no write of an open connection stays pending.  And close()      *)
(* leaves the socket to the handler of the last write: as long as the peer  *)
(* takes what is written, the socket is closed.                             *)
SilenceEnds ==
    /\ conn.readResult = "pending" ~> (conn.readResult # "pending" \/ conn.closed)
    /\ conn.writeResult = "pending" ~> (conn.writeResult # "pending" \/ conn.closed)
ReadersAreLetGo == WF_connVars(PeerReads) => (conn.closed ~> ~conn.socketOpen)
ConnectionsEnd == SilenceEnds /\ ReadersAreLetGo

(* The comment in close(): the socket is left to onWriteOperation or to the *)
(* destructor, so it is closed in the end (it is not, when the peer never   *)
(* reads: the timeouts find `closed` set and return, and the pending read   *)
(* and write keep the object from its destructor).                          *)
ClosedIsFreed == conn.closed ~> ~conn.socketOpen
=============================================================================
