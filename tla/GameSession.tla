---------------------------- MODULE GameSession ----------------------------
(***************************************************************************)
(* One character of the game, the connections that log in as it, and the   *)
(* Player objects that stand for it (protocolgame.cpp, game.cpp,           *)
(* player.cpp).  A login that finds the character in the game closes the   *)
(* connection that plays it and comes back a second later; meanwhile that  *)
(* connection's release waits in the dispatcher's queue, others log in,    *)
(* the character dies, is kicked or logs out, and the new connection may   *)
(* be lost.  A Player is deleted with its last reference.                  *)
(*                                                                         *)
(* A Player object is named by the connection whose login made it.  The    *)
(* dispatcher runs one task at a time, so a task is one step; connections  *)
(* close, and Connection objects go, between any two.                      *)
(***************************************************************************)
EXTENDS Integers, SequencesExt

CONSTANTS
    Connections,    \* the connections of the game protocol
    None            \* a null pointer

ASSUME NoneAssumption == None \notin Connections

Players == Connections
Tasks == [op : {"login", "connect", "logout", "release"}, conn : Connections]
Task(op, c) == [op |-> op, conn |-> c]

VARIABLES
    queue,          \* the tasks posted to the dispatcher
    first,          \* Connection::receivedFirst
    closed,         \* Connection::closed
    alive,          \* the Connection object exists
    released,       \* history: ProtocolGame::release has run
    eventConnect,   \* the event of each protocol: None, or the player it will connect to
    own,            \* ProtocolGame::player
    client,         \* Player::client
    isConnecting,   \* Player::isConnecting
    named,          \* the player found by the character's name
    status,         \* of each player: "none", "game", "out" or "deleted"
    checked,        \* the players in checkCreatureLists
    toRelease,      \* the players in ToReleaseCreatures
    references      \* Creature::referenceCounter

connectionVars == <<first, alive>>
vars == <<queue, connectionVars, closed, released, eventConnect, own, client,
          isConnecting, named, status, checked, toRelease, references>>

Init ==
    /\ queue = <<>>
    /\ first = [c \in Connections |-> FALSE]
    /\ closed = [c \in Connections |-> FALSE]
    /\ alive = [c \in Connections |-> TRUE]
    /\ released = [c \in Connections |-> FALSE]
    /\ eventConnect = [c \in Connections |-> None]
    /\ own = [c \in Connections |-> None]
    /\ client = [p \in Players |-> None]
    /\ isConnecting = [p \in Players |-> FALSE]
    /\ named = None
    /\ status = [p \in Players |-> "none"]
    /\ checked = {}
    /\ toRelease = {}
    /\ references = [p \in Players |-> 0]

-----------------------------------------------------------------------------
(* Connection::close, as far as the game goes: the first time, the release  *)
(* of the protocol is queued, behind what the task itself leaves queued.    *)
Closing(c, rest) ==
    /\ closed' = [closed EXCEPT ![c] = TRUE]
    /\ queue' = IF closed[c] THEN rest ELSE Append(rest, Task("release", c))
StaysOpen(rest) == queue' = rest /\ UNCHANGED closed

(* Protocol::disconnect, if there is a protocol.  Its Connection object may *)
(* be gone: then it was closed.                                             *)
Disconnect(c, rest) == IF c = None THEN StaysOpen(rest) ELSE Closing(c, rest)

(* Creature::decrementReferenceCounter.                                     *)
Dropped(p, n) ==
    /\ references' = [references EXCEPT ![p] = @ - n]
    /\ status' = [status EXCEPT ![p] = IF references[p] = n THEN "deleted" ELSE @]

(* The network threads: the first message, which names the character; the   *)
(* logout of the player, one at a time (a bound: with a logout queued       *)
(* another one finds the same state, or nothing left to do); the loss of    *)
(* the connection, and the end of its last handler.                         *)
RecvFirstMessage(c) ==
    /\ ~closed[c]
    /\ ~first[c]
    /\ first' = [first EXCEPT ![c] = TRUE]
    /\ queue' = Append(queue, Task("login", c))
    /\ UNCHANGED <<alive, closed, released, eventConnect, own, client, isConnecting,
                   named, status, checked, toRelease, references>>

RecvLogout(c) ==
    /\ ~closed[c]
    /\ own[c] # None
    /\ Task("logout", c) \notin ToSet(queue)
    /\ queue' = Append(queue, Task("logout", c))
    /\ UNCHANGED <<connectionVars, closed, released, eventConnect, own, client,
                   isConnecting, named, status, checked, toRelease, references>>

Lose(c) ==
    /\ ~closed[c]
    /\ Closing(c, queue)
    /\ UNCHANGED <<connectionVars, released, eventConnect, own, client, isConnecting,
                   named, status, checked, toRelease, references>>

EndConnection(c) ==
    /\ closed[c]
    /\ alive[c]
    /\ alive' = [alive EXCEPT ![c] = FALSE]
    /\ UNCHANGED <<queue, first, closed, released, eventConnect, own, client,
                   isConnecting, named, status, checked, toRelease, references>>

-----------------------------------------------------------------------------
(* The dispatcher: one task, the first of the queue.                        *)
IsTask(op, c) == queue # <<>> /\ Head(queue) = Task(op, c)

(* ProtocolGame::login, the character not in the game: a Player is made,    *)
(* and refused (it cannot be loaded, is banned, must wait, ...)             *)
LoginRefused(c) ==
    /\ IsTask("login", c)
    /\ named = None
    /\ own' = [own EXCEPT ![c] = c]
    /\ client' = [client EXCEPT ![c] = c]
    /\ references' = [references EXCEPT ![c] = 1]
    /\ status' = [status EXCEPT ![c] = "out"]
    /\ Disconnect(c, Tail(queue))
    /\ UNCHANGED <<connectionVars, released, eventConnect, isConnecting, named, checked, toRelease>>

(* or placed in the game, which holds it (placeCreature, addCreatureCheck). *)
LoginPlaced(c) ==
    /\ IsTask("login", c)
    /\ named = None
    /\ own' = [own EXCEPT ![c] = c]
    /\ client' = [client EXCEPT ![c] = c]
    /\ references' = [references EXCEPT ![c] = 3]
    /\ status' = [status EXCEPT ![c] = "game"]
    /\ named' = c
    /\ checked' = checked \cup {c}
    /\ StaysOpen(Tail(queue))
    /\ UNCHANGED <<connectionVars, released, eventConnect, isConnecting, toRelease>>

(* A bug: the event is not scheduled.                                       *)
BadLoginReplaces(c) ==
    /\ IsTask("login", c)
    /\ named # None
    /\ client[named] # None
    /\ Disconnect(client[named], Tail(queue))
    /\ isConnecting' = [isConnecting EXCEPT ![named] = TRUE]
    /\ UNCHANGED <<connectionVars, released, eventConnect, own, client, named, status,
                   checked, toRelease, references>>

(* The character is played: its connection closes, and login comes back.    *)
(* REPLACE_KICK_ON_LOGIN is on, as it is by default.                        *)
LoginReplaces(c) ==
    /\ IsTask("login", c)
    /\ named # None
    /\ client[named] # None
    /\ Disconnect(client[named], Tail(queue))
    /\ isConnecting' = [isConnecting EXCEPT ![named] = TRUE]
    /\ eventConnect' = [eventConnect EXCEPT ![c] = named]
    /\ UNCHANGED <<connectionVars, released, own, client, named, status, checked,
                   toRelease, references>>

(* A bug: that another client plays the character is not looked at.         *)
BadAttaches(c, p) == named = p /\ alive[c]

(* ProtocolGame::connect of c to player p.  One whose connection has gone   *)
(* is left alone; one whose connection is only closed is not.               *)
Attaches(c, p) == named = p /\ client[p] = None /\ alive[c]

(* A bug: the player is not held.                                           *)
BadAttach(c, p) ==
    /\ own' = [own EXCEPT ![c] = p]
    /\ client' = [client EXCEPT ![p] = c]
    /\ isConnecting' = [isConnecting EXCEPT ![p] = FALSE]
    /\ UNCHANGED references

Attach(c, p) ==
    /\ own' = [own EXCEPT ![c] = p]
    /\ client' = [client EXCEPT ![p] = c]
    /\ isConnecting' = [isConnecting EXCEPT ![p] = FALSE]
    /\ references' = [references EXCEPT ![p] = @ + 1]

Connect(c, p) ==
    /\ eventConnect' = [eventConnect EXCEPT ![c] = None]
    /\ \/ /\ Attaches(c, p)
          /\ Attach(c, p)
          /\ StaysOpen(Tail(queue))
       \/ /\ ~Attaches(c, p)
          /\ IF named = p /\ client[p] = None
             THEN StaysOpen(Tail(queue))
             ELSE Disconnect(c, Tail(queue))
          /\ UNCHANGED <<own, client, isConnecting, references>>
    /\ UNCHANGED <<connectionVars, released, named, status, checked, toRelease>>

(* The character stands in the game with no client: login connects at once. *)
LoginTakesOver(c) ==
    /\ IsTask("login", c)
    /\ named # None
    /\ client[named] = None
    /\ Connect(c, named)

ConnectLater(c) ==
    /\ IsTask("connect", c)
    /\ Connect(c, eventConnect[c])

(* The event of a login has waited its second.                              *)
Fire(c) ==
    /\ eventConnect[c] # None
    /\ Task("connect", c) \notin ToSet(queue)
    /\ queue' = Append(queue, Task("connect", c))
    /\ UNCHANGED <<connectionVars, closed, released, eventConnect, own, client,
                   isConnecting, named, status, checked, toRelease, references>>

(* A bug: the player keeps its client.                                      *)
BadRelease(c) ==
    /\ IsTask("release", c)
    /\ released' = [released EXCEPT ![c] = TRUE]
    /\ IF own[c] # None /\ client[own[c]] = c
       THEN own' = [own EXCEPT ![c] = None] /\ Dropped(own[c], 1)
       ELSE UNCHANGED <<own, references, status>>
    /\ StaysOpen(Tail(queue))
    /\ UNCHANGED <<connectionVars, eventConnect, isConnecting, named, client, checked, toRelease>>

(* ProtocolGame::release.                                                   *)
Release(c) ==
    /\ IsTask("release", c)
    /\ released' = [released EXCEPT ![c] = TRUE]
    /\ IF own[c] # None /\ client[own[c]] = c
       THEN /\ client' = [client EXCEPT ![own[c]] = None]
            /\ own' = [own EXCEPT ![c] = None]
            /\ Dropped(own[c], 1)
       ELSE UNCHANGED <<client, own, references, status>>
    /\ StaysOpen(Tail(queue))
    /\ UNCHANGED <<connectionVars, eventConnect, isConnecting, named, checked, toRelease>>

-----------------------------------------------------------------------------
(* Game::removeCreature: the player leaves the game, which gives back what  *)
(* it holds later, in CheckCreatures.                                       *)
RemoveCreature(p) ==
    /\ status' = [status EXCEPT ![p] = "out"]
    /\ named' = None
    /\ toRelease' = toRelease \cup {p}
    /\ UNCHANGED <<checked, references>>

(* ProtocolGame::logout, the player's own: not done in a fight or when a    *)
(* script says no; nothing to remove when the player has gone.              *)
Logout(c) ==
    /\ IsTask("logout", c)
    /\ \/ /\ own[c] = None \/ own[c] = named
          /\ StaysOpen(Tail(queue))
          /\ UNCHANGED <<status, named, toRelease, checked, references>>
       \/ /\ own[c] # None
          /\ Disconnect(c, Tail(queue))
          /\ IF own[c] = named
             THEN RemoveCreature(named)
             ELSE UNCHANGED <<status, named, toRelease, checked, references>>
    /\ UNCHANGED <<connectionVars, released, eventConnect, own, client, isConnecting>>

(* Player::kickPlayer.                                                      *)
Kick ==
    /\ named # None
    /\ Disconnect(client[named], queue)
    /\ RemoveCreature(named)
    /\ UNCHANGED <<connectionVars, released, eventConnect, own, client, isConnecting>>

(* Player::sendPing for a client that has been silent too long.             *)
PingTimeout == named # None /\ ~isConnecting[named] /\ Kick

(* A death: the client stays, with a player that is no longer in the game.  *)
Die ==
    /\ named # None
    /\ RemoveCreature(named)
    /\ StaysOpen(queue)
    /\ UNCHANGED <<connectionVars, released, eventConnect, own, client, isConnecting>>

(* Game::checkCreatures of the players in one of its lists: those no longer *)
(* in the game leave it, and cleanup gives back what was held.              *)
CheckCreatures(visited) ==
    LET leaving == {p \in visited : status[p] # "game"}
        left(p) == references[p] - (IF p \in leaving THEN 1 ELSE 0)
                                 - (IF p \in toRelease THEN 1 ELSE 0)
        freed == {p \in leaving \cup toRelease : left(p) = 0}
    IN  /\ leaving \cup toRelease # {}
        /\ checked' = checked \ leaving
        /\ toRelease' = {}
        /\ references' = [p \in Players |-> left(p)]
        /\ status' = [p \in Players |-> IF p \in freed THEN "deleted" ELSE status[p]]
        /\ UNCHANGED <<queue, connectionVars, closed, released, eventConnect, own, client,
                       isConnecting, named>>

-----------------------------------------------------------------------------
RunTask ==
    \E c \in Connections :
        \/ LoginRefused(c) \/ LoginPlaced(c) \/ LoginReplaces(c) \/ LoginTakesOver(c)
        \/ ConnectLater(c)
        \/ Logout(c)
        \/ Release(c)

Next ==
    \/ RunTask
    \/ \E c \in Connections :
          RecvFirstMessage(c) \/ RecvLogout(c) \/ Lose(c) \/ EndConnection(c) \/ Fire(c)
    \/ Kick
    \/ PingTimeout
    \/ Die
    \/ \E visited \in SUBSET checked : CheckCreatures(visited)

Spec == Init /\ [][Next]_vars

(* The dispatcher serves its queue, the scheduler fires, and checkCreatures *)
(* visits every list in turn, for it schedules itself.                      *)
Fairness ==
    /\ WF_vars(RunTask)
    /\ \A c \in Connections : WF_vars(Fire(c))
    /\ WF_vars(CheckCreatures(checked))

FairSpec == Spec /\ Fairness

-----------------------------------------------------------------------------
TypeOK ==
    /\ queue \in Seq(Tasks)
    /\ first \in [Connections -> BOOLEAN]
    /\ closed \in [Connections -> BOOLEAN]
    /\ alive \in [Connections -> BOOLEAN]
    /\ released \in [Connections -> BOOLEAN]
    /\ eventConnect \in [Connections -> Players \cup {None}]
    /\ own \in [Connections -> Players \cup {None}]
    /\ client \in [Players -> Connections \cup {None}]
    /\ isConnecting \in [Players -> BOOLEAN]
    /\ named \in Players \cup {None}
    /\ status \in [Players -> {"none", "game", "out", "deleted"}]
    /\ checked \subseteq Players
    /\ toRelease \subseteq Players
    /\ references \in [Players -> Nat]

(* The character's name leads to the one player that is in the game.        *)
NamedInGame == \A p \in Players : status[p] = "game" <=> named = p

(* A protocol plays a player exactly when the player has it as its client.  *)
ClientIsMutual ==
    \A c \in Connections, p \in Players : own[c] = p <=> client[p] = c

(* No protocol and no list of the game holds a player that was deleted, and *)
(* one that nothing holds is deleted: the references are counted right      *)
(* through deaths, kicks, logouts and lost connections in any order.        *)
HeldBy(p) ==
    (IF named = p \/ p \in toRelease THEN 1 ELSE 0)
        + (IF p \in checked THEN 1 ELSE 0)
        + (IF client[p] # None THEN 1 ELSE 0)
ReferencesRight ==
    \A p \in Players :
        /\ references[p] = HeldBy(p)
        /\ status[p] \in {"none", "deleted"} <=> references[p] = 0

(* A client that plays the character is never replaced while it is there:   *)
(* another one attaches only after its release.                             *)
NoTakeover ==
    [][\A p \in Players : client[p] # None => client'[p] \in {client[p], None}]_vars

(* Whoever logs in gets the character or is closed, after the second it may *)
(* have to wait.                                                            *)
LoginAnswered ==
    \A c \in Connections : Task("login", c) \in ToSet(queue) ~> (own[c] # None \/ closed[c])

(* A player that left the game and has no client is freed.                  *)
PlayerFreed ==
    \A p \in Players : (status[p] = "out" /\ client[p] = None) ~> status[p] = "deleted"

(* So much for every login and logout: it comes to its end.                 *)
SessionsEnd == LoginAnswered /\ PlayerFreed

(* Each task is queued at most once, a release only for a connection that   *)
(* is closed, and the connect of an event that still stands.                *)
QueueInv ==
    /\ IsInjective(queue)
    /\ \A c \in Connections :
          /\ Task("login", c) \in ToSet(queue) => first[c]
          /\ Task("release", c) \in ToSet(queue) => closed[c]
          /\ Task("connect", c) \in ToSet(queue) => eventConnect[c] # None

(* A protocol plays nobody, and its player is not made, before its login    *)
(* has run, and plays nobody before its event has.                          *)
BeforeLogin(c) == ~first[c] \/ Task("login", c) \in ToSet(queue)
LoginInv ==
    \A c \in Connections :
        /\ BeforeLogin(c) => own[c] = None /\ status[c] = "none" /\ eventConnect[c] = None
        /\ eventConnect[c] # None => own[c] = None

(* What the game gives back has left it.                                    *)
ReleaseInv == \A p \in toRelease : status[p] = "out"

IInv ==
    /\ TypeOK
    /\ NamedInGame
    /\ ClientIsMutual
    /\ ReferencesRight
    /\ QueueInv
    /\ LoginInv
    /\ ReleaseInv

(* "ProtocolGame::release() has been called at this point and the           *)
(* Connection object no longer exists, so we return to prevent leakage of   *)
(* the Player": a protocol that was released plays nobody.                  *)
ReleasedPlaysNobody == \A c \in Connections : released[c] => own[c] = None
=============================================================================
