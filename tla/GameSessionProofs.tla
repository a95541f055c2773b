------------------------- MODULE GameSessionProofs -------------------------
(* Proofs about logins.  WaitingList: nobody enters before his turn.        *)
(* GameSession, for any number of connections: the references               *)
(* of a Player are counted right, a protocol and its player agree on each   *)
(* other, and nobody takes a character over from a client that is there.    *)
(* The inductive invariant IInv adds what the queue holds at most once, and *)
(* that a protocol plays nobody before its login or its event has run.      *)
EXTENDS GameSession, WaitingList, QueueLemmas

-----------------------------------------------------------------------------
(* What the queue is once its first task is taken.                          *)
LEMMA TakeTask ==
    ASSUME IInv, NEW op \in {"login", "connect", "logout", "release"}, NEW c \in Connections,
           IsTask(op, c)
    PROVE  /\ Tail(queue) \in Seq(Tasks)
           /\ IsInjective(Tail(queue))
           /\ ToSet(queue) = ToSet(Tail(queue)) \cup {Task(op, c)}
           /\ Task(op, c) \notin ToSet(Tail(queue))
<1>1. queue \in Seq(Tasks) /\ queue # <<>> /\ IsInjective(queue) /\ Head(queue) = Task(op, c)
  BY DEF IInv, TypeOK, QueueInv, IsTask
<1> QED  BY <1>1, PopElems, PopInjective

(* What Closing leaves: a queue of tasks, each once, with a release for a   *)
(* connection that is closed.                                               *)
LEMMA CloseQueues ==
    ASSUME IInv, NEW c \in Connections, NEW rest \in Seq(Tasks), IsInjective(rest),
           ToSet(rest) \subseteq ToSet(queue), Closing(c, rest)
    PROVE  /\ queue' \in Seq(Tasks)
           /\ IsInjective(queue')
           /\ ToSet(queue') \subseteq ToSet(rest) \cup {Task("release", c)}
           /\ closed' \in [Connections -> BOOLEAN]
           /\ closed'[c]
           /\ \A d \in Connections : closed[d] => closed'[d]
<1>1. closed' \in [Connections -> BOOLEAN] /\ closed'[c] /\ \A d \in Connections : closed[d] => closed'[d]
  BY DEF IInv, TypeOK, Closing
<1>2. CASE closed[c]
  BY <1>1, <1>2 DEF Closing
<1>3. CASE ~closed[c]
  <2>1. Task("release", c) \notin ToSet(rest)
    BY <1>3 DEF IInv, QueueInv
  <2>2. Task("release", c) \in Tasks
    BY DEF Task, Tasks
  <2>3. queue' = Append(rest, Task("release", c))
    BY <1>3 DEF Closing
  <2> QED  BY <1>1, <2>1, <2>2, <2>3, PushElems, PushInjective
<1> QED  BY <1>2, <1>3

(* The same of Disconnect, which may have nobody to close.                  *)
LEMMA DisconnectQueues ==
    ASSUME IInv, NEW c \in Connections \cup {None}, NEW rest \in Seq(Tasks), IsInjective(rest),
           ToSet(rest) \subseteq ToSet(queue), Disconnect(c, rest)
    PROVE  /\ queue' \in Seq(Tasks)
           /\ IsInjective(queue')
           /\ ToSet(queue') \subseteq ToSet(rest) \cup {Task("release", d) : d \in Connections}
           /\ \A d \in Connections : Task("release", d) \in ToSet(queue') => closed'[d]
           /\ closed' \in [Connections -> BOOLEAN]
<1>1. CASE c = None
  <2>1. queue' = rest /\ closed' = closed
    BY <1>1 DEF Disconnect, StaysOpen
  <2> QED  BY <2>1 DEF IInv, TypeOK, QueueInv
<1>2. CASE c # None
  <2>1. c \in Connections /\ Closing(c, rest)
    BY <1>2 DEF Disconnect
  <2>2. /\ queue' \in Seq(Tasks)
        /\ IsInjective(queue')
        /\ ToSet(queue') \subseteq ToSet(rest) \cup {Task("release", c)}
        /\ closed' \in [Connections -> BOOLEAN]
        /\ closed'[c]
        /\ \A d \in Connections : closed[d] => closed'[d]
    BY <2>1, CloseQueues
  <2>3. ASSUME NEW d \in Connections, Task("release", d) \in ToSet(queue')  PROVE closed'[d]
    <3>1. CASE d = c
      BY <2>2, <3>1
    <3>2. CASE d # c
      <4>1. Task("release", d) # Task("release", c)
        BY <3>2 DEF Task
      <4>2. Task("release", d) \in ToSet(queue)
        BY <2>2, <2>3, <4>1
      <4> QED  BY <2>2, <4>2 DEF IInv, QueueInv
    <3> QED  BY <3>1, <3>2
  <2> QED  BY <2>1, <2>2, <2>3
<1> QED  BY <1>1, <1>2

-----------------------------------------------------------------------------
(* A step that leaves the players alone keeps what is said of them.         *)
LEMMA PlayersAlone ==
    ASSUME IInv, UNCHANGED <<own, client, named, status, checked, toRelease, references>>
    PROVE  NamedInGame' /\ ClientIsMutual' /\ ReferencesRight' /\ ReleaseInv'
<1>1. NamedInGame' /\ ReleaseInv'
  BY DEF IInv, NamedInGame, ReleaseInv
<1>2. ClientIsMutual'
  BY DEF IInv, ClientIsMutual
<1>3. ReferencesRight'
  BY DEF IInv, ReferencesRight, HeldBy
<1> QED  BY <1>1, <1>2, <1>3

(* A task put behind the queue that was not there.                          *)
LEMMA PostTask ==
    ASSUME IInv, NEW t \in Tasks, t \notin ToSet(queue), queue' = Append(queue, t)
    PROVE  /\ queue' \in Seq(Tasks)
           /\ IsInjective(queue')
           /\ ToSet(queue') = ToSet(queue) \cup {t}
<1>1. queue \in Seq(Tasks) /\ IsInjective(queue)
  BY DEF IInv, TypeOK, QueueInv
<1> QED  BY <1>1, PushElems, PushInjective

LEMMA RecvFirstMessageKeeps ==
    ASSUME IInv, NEW c \in Connections, RecvFirstMessage(c)  PROVE IInv'
<1>1. Task("login", c) \in Tasks /\ Task("login", c) \notin ToSet(queue)
  BY DEF IInv, QueueInv, RecvFirstMessage, Task, Tasks
<1>2. /\ queue' \in Seq(Tasks)
      /\ IsInjective(queue')
      /\ ToSet(queue') = ToSet(queue) \cup {Task("login", c)}
  BY <1>1, PostTask DEF RecvFirstMessage
<1>3. TypeOK'
  BY <1>2 DEF IInv, TypeOK, RecvFirstMessage
<1>4. NamedInGame' /\ ClientIsMutual' /\ ReferencesRight' /\ ReleaseInv'
  BY PlayersAlone DEF RecvFirstMessage
<1>5. QueueInv'
  BY <1>2 DEF IInv, TypeOK, QueueInv, RecvFirstMessage, Task
<1>6. LoginInv'
  BY <1>2 DEF IInv, TypeOK, LoginInv, BeforeLogin, RecvFirstMessage, Task
<1> QED  BY <1>3, <1>4, <1>5, <1>6 DEF IInv

LEMMA RecvLogoutKeeps ==
    ASSUME IInv, NEW c \in Connections, RecvLogout(c)  PROVE IInv'
<1>1. Task("logout", c) \in Tasks /\ Task("logout", c) \notin ToSet(queue)
  BY DEF RecvLogout, Task, Tasks
<1>2. /\ queue' \in Seq(Tasks)
      /\ IsInjective(queue')
      /\ ToSet(queue') = ToSet(queue) \cup {Task("logout", c)}
  BY <1>1, PostTask DEF RecvLogout
<1>3. TypeOK'
  BY <1>2 DEF IInv, TypeOK, RecvLogout, connectionVars
<1>4. NamedInGame' /\ ClientIsMutual' /\ ReferencesRight' /\ ReleaseInv'
  BY PlayersAlone DEF RecvLogout
<1>5. QueueInv'
  BY <1>2 DEF IInv, QueueInv, RecvLogout, connectionVars, Task
<1>6. LoginInv'
  BY <1>2 DEF IInv, LoginInv, BeforeLogin, RecvLogout, connectionVars, Task
<1> QED  BY <1>3, <1>4, <1>5, <1>6 DEF IInv

LEMMA LoseKeeps ==
    ASSUME IInv, NEW c \in Connections, Lose(c)  PROVE IInv'
<1>0. queue \in Seq(Tasks) /\ IsInjective(queue)
  BY DEF IInv, TypeOK, QueueInv
<1>1. /\ queue' \in Seq(Tasks)
      /\ IsInjective(queue')
      /\ ToSet(queue') \subseteq ToSet(queue) \cup {Task("release", d) : d \in Connections}
      /\ \A d \in Connections : Task("release", d) \in ToSet(queue') => closed'[d]
      /\ closed' \in [Connections -> BOOLEAN]
  <2>1. Disconnect(c, queue)
    BY NoneAssumption DEF Lose, Disconnect
  <2> QED  BY <1>0, <2>1, DisconnectQueues
<1>2. TypeOK'
  BY <1>1 DEF IInv, TypeOK, Lose, connectionVars
<1>3. NamedInGame' /\ ClientIsMutual' /\ ReferencesRight' /\ ReleaseInv'
  BY PlayersAlone DEF Lose
<1>4. QueueInv'
  BY <1>1 DEF IInv, QueueInv, Lose, connectionVars, Task
<1>5. LoginInv'
  BY <1>1 DEF IInv, LoginInv, BeforeLogin, Lose, connectionVars, Task
<1> QED  BY <1>2, <1>3, <1>4, <1>5 DEF IInv

LEMMA EndConnectionKeeps ==
    ASSUME IInv, NEW c \in Connections, EndConnection(c)  PROVE IInv'
<1>1. TypeOK'
  BY DEF IInv, TypeOK, EndConnection
<1>2. NamedInGame' /\ ClientIsMutual' /\ ReferencesRight' /\ ReleaseInv'
  BY PlayersAlone DEF EndConnection
<1>3. QueueInv' /\ LoginInv'
  BY DEF IInv, QueueInv, LoginInv, BeforeLogin, EndConnection
<1> QED  BY <1>1, <1>2, <1>3 DEF IInv

LEMMA FireKeeps ==
    ASSUME IInv, NEW c \in Connections, Fire(c)  PROVE IInv'
<1>1. Task("connect", c) \in Tasks /\ Task("connect", c) \notin ToSet(queue)
  BY DEF Fire, Task, Tasks
<1>2. /\ queue' \in Seq(Tasks)
      /\ IsInjective(queue')
      /\ ToSet(queue') = ToSet(queue) \cup {Task("connect", c)}
  BY <1>1, PostTask DEF Fire
<1>3. TypeOK'
  BY <1>2 DEF IInv, TypeOK, Fire, connectionVars
<1>4. NamedInGame' /\ ClientIsMutual' /\ ReferencesRight' /\ ReleaseInv'
  BY PlayersAlone DEF Fire
<1>5. QueueInv'
  BY <1>2 DEF IInv, QueueInv, Fire, connectionVars, Task
<1>6. LoginInv'
  BY <1>2 DEF IInv, LoginInv, BeforeLogin, Fire, connectionVars, Task
<1> QED  BY <1>3, <1>4, <1>5, <1>6 DEF IInv

-----------------------------------------------------------------------------
(* A login makes a Player that nothing held before.                         *)
LEMMA LoginIsFirst ==
    ASSUME IInv, NEW c \in Connections, IsTask("login", c)
    PROVE  /\ own[c] = None /\ eventConnect[c] = None
           /\ status[c] = "none" /\ references[c] = 0
           /\ named # c /\ c \notin toRelease /\ c \notin checked /\ client[c] = None
           /\ first[c]
           /\ \A d \in Connections : own[d] # c
<1>1. Task("login", c) \in ToSet(queue)
  BY TakeTask
<1>2. own[c] = None /\ eventConnect[c] = None /\ status[c] = "none" /\ first[c]
  BY <1>1 DEF IInv, LoginInv, BeforeLogin, QueueInv
<1>3. references[c] = 0 /\ references[c] = HeldBy(c)
  BY <1>2 DEF IInv, ReferencesRight, Players
<1>4. named # c /\ c \notin toRelease /\ c \notin checked /\ client[c] = None
  BY <1>3 DEF HeldBy
<1>5. ASSUME NEW d \in Connections  PROVE own[d] # c
  BY <1>4, NoneAssumption DEF IInv, ClientIsMutual, Players
<1> QED  BY <1>2, <1>3, <1>4, <1>5

(* What a task leaves queued, when it may close connection d.               *)
LEMMA TaskQueues ==
    ASSUME IInv, NEW op \in {"login", "connect", "logout", "release"}, NEW c \in Connections,
           IsTask(op, c), NEW d \in Connections \cup {None},
           Disconnect(d, Tail(queue)) \/ StaysOpen(Tail(queue))
    PROVE  /\ queue' \in Seq(Tasks)
           /\ IsInjective(queue')
           /\ Task(op, c) \notin ToSet(queue') \/ op = "release"
           /\ ToSet(queue') \subseteq ToSet(queue) \cup {Task("release", e) : e \in Connections}
           /\ \A e \in Connections : Task("release", e) \in ToSet(queue') => closed'[e]
           /\ closed' \in [Connections -> BOOLEAN]
<1>1. /\ Tail(queue) \in Seq(Tasks)
      /\ IsInjective(Tail(queue))
      /\ ToSet(queue) = ToSet(Tail(queue)) \cup {Task(op, c)}
      /\ Task(op, c) \notin ToSet(Tail(queue))
  BY TakeTask
<1>2. CASE Disconnect(d, Tail(queue))
  <2>1. /\ queue' \in Seq(Tasks)
        /\ IsInjective(queue')
        /\ ToSet(queue') \subseteq ToSet(Tail(queue)) \cup {Task("release", e) : e \in Connections}
        /\ \A e \in Connections : Task("release", e) \in ToSet(queue') => closed'[e]
        /\ closed' \in [Connections -> BOOLEAN]
    BY <1>1, <1>2, DisconnectQueues
  <2>2. Task(op, c) \in ToSet(queue') => op = "release"
    BY <1>1, <2>1 DEF Task
  <2> QED  BY <1>1, <2>1, <2>2
<1>3. CASE StaysOpen(Tail(queue))
  <2>1. queue' = Tail(queue) /\ closed' = closed
    BY <1>3 DEF StaysOpen
  <2>2. \A e \in Connections : Task("release", e) \in ToSet(queue') => closed'[e]
    BY <1>1, <2>1 DEF IInv, QueueInv
  <2>3. closed' \in [Connections -> BOOLEAN]
    BY <2>1 DEF IInv, TypeOK
  <2> QED  BY <1>1, <2>1, <2>2, <2>3
<1> QED  BY <1>2, <1>3

(* A task that makes no connection's login or event due keeps what is said  *)
(* of the queue.                                                            *)
LEMMA QueueKept ==
    ASSUME IInv, UNCHANGED <<first, eventConnect>>,
           IsInjective(queue'),
           ToSet(queue') \subseteq ToSet(queue) \cup {Task("release", e) : e \in Connections},
           \A e \in Connections : Task("release", e) \in ToSet(queue') => closed'[e]
    PROVE  QueueInv' /\ \A e \in Connections : BeforeLogin(e)' => BeforeLogin(e)
BY DEF IInv, QueueInv, BeforeLogin, Task

LEMMA LoginRefusedKeeps ==
    ASSUME IInv, NEW c \in Connections, LoginRefused(c)  PROVE IInv'
<1>1. IsTask("login", c)
  BY DEF LoginRefused
<1>2. /\ own[c] = None /\ eventConnect[c] = None
      /\ status[c] = "none" /\ references[c] = 0
      /\ named # c /\ c \notin toRelease /\ c \notin checked /\ client[c] = None
      /\ first[c]
      /\ \A d \in Connections : own[d] # c
  BY <1>1, LoginIsFirst
<1>3. /\ queue' \in Seq(Tasks)
      /\ IsInjective(queue')
      /\ Task("login", c) \notin ToSet(queue')
      /\ ToSet(queue') \subseteq ToSet(queue) \cup {Task("release", e) : e \in Connections}
      /\ \A e \in Connections : Task("release", e) \in ToSet(queue') => closed'[e]
      /\ closed' \in [Connections -> BOOLEAN]
  BY <1>1, TaskQueues DEF LoginRefused
<1>4. TypeOK'
  BY <1>3 DEF IInv, TypeOK, LoginRefused, connectionVars, Players
<1>5. NamedInGame'
  BY <1>2 DEF IInv, TypeOK, NamedInGame, LoginRefused, Players
<1>6. ClientIsMutual'
  BY <1>2, NoneAssumption DEF IInv, TypeOK, ClientIsMutual, LoginRefused, Players
<1>7. ReferencesRight'
  BY <1>2, NoneAssumption DEF IInv, TypeOK, ReferencesRight, HeldBy, LoginRefused, Players
<1>8. QueueInv' /\ \A e \in Connections : BeforeLogin(e)' => BeforeLogin(e)
  BY <1>3, QueueKept DEF LoginRefused, connectionVars
<1>9. LoginInv'
  <2>1. ~BeforeLogin(c)'
    BY <1>2, <1>3 DEF BeforeLogin, LoginRefused, connectionVars
  <2> QED  BY <1>2, <1>8, <2>1 DEF IInv, TypeOK, LoginInv, LoginRefused, Players
<1>10. ReleaseInv'
  BY <1>2 DEF IInv, TypeOK, ReleaseInv, LoginRefused, Players
<1> QED  BY <1>4, <1>5, <1>6, <1>7, <1>8, <1>9, <1>10 DEF IInv

LEMMA LoginPlacedKeeps ==
    ASSUME IInv, NEW c \in Connections, LoginPlaced(c)  PROVE IInv'
<1>1. IsTask("login", c)
  BY DEF LoginPlaced
<1>2. /\ own[c] = None /\ eventConnect[c] = None
      /\ status[c] = "none" /\ references[c] = 0
      /\ named # c /\ c \notin toRelease /\ c \notin checked /\ client[c] = None
      /\ first[c]
      /\ \A d \in Connections : own[d] # c
  BY <1>1, LoginIsFirst
<1>3. /\ queue' \in Seq(Tasks)
      /\ IsInjective(queue')
      /\ Task("login", c) \notin ToSet(queue')
      /\ ToSet(queue') \subseteq ToSet(queue) \cup {Task("release", e) : e \in Connections}
      /\ \A e \in Connections : Task("release", e) \in ToSet(queue') => closed'[e]
      /\ closed' \in [Connections -> BOOLEAN]
  BY <1>1, TaskQueues DEF LoginPlaced
<1>4. TypeOK'
  BY <1>3 DEF IInv, TypeOK, LoginPlaced, connectionVars, Players
<1>5. NamedInGame'
  BY <1>2, NoneAssumption DEF IInv, TypeOK, NamedInGame, LoginPlaced, Players
<1>6. ClientIsMutual'
  BY <1>2, NoneAssumption DEF IInv, TypeOK, ClientIsMutual, LoginPlaced, Players
<1>7. ReferencesRight'
  BY <1>2, NoneAssumption DEF IInv, TypeOK, ReferencesRight, HeldBy, LoginPlaced, Players
<1>8. QueueInv' /\ \A e \in Connections : BeforeLogin(e)' => BeforeLogin(e)
  BY <1>3, QueueKept DEF LoginPlaced, connectionVars
<1>9. LoginInv'
  <2>1. ~BeforeLogin(c)'
    BY <1>2, <1>3 DEF BeforeLogin, LoginPlaced, connectionVars
  <2> QED  BY <1>2, <1>8, <2>1 DEF IInv, TypeOK, LoginInv, LoginPlaced, Players
<1>10. ReleaseInv'
  BY <1>2 DEF IInv, TypeOK, ReleaseInv, LoginPlaced, Players
<1> QED  BY <1>4, <1>5, <1>6, <1>7, <1>8, <1>9, <1>10 DEF IInv

LEMMA LoginReplacesKeeps ==
    ASSUME IInv, NEW c \in Connections, LoginReplaces(c)  PROVE IInv'
<1>1. IsTask("login", c) /\ client[named] \in Connections \cup {None}
  BY DEF LoginReplaces, IInv, TypeOK
<1>2. own[c] = None /\ first[c]
  BY <1>1, LoginIsFirst
<1>3. /\ queue' \in Seq(Tasks)
      /\ IsInjective(queue')
      /\ Task("login", c) \notin ToSet(queue')
      /\ ToSet(queue') \subseteq ToSet(queue) \cup {Task("release", e) : e \in Connections}
      /\ \A e \in Connections : Task("release", e) \in ToSet(queue') => closed'[e]
      /\ closed' \in [Connections -> BOOLEAN]
  BY <1>1, TaskQueues DEF LoginReplaces
<1>4. TypeOK'
  BY <1>3 DEF IInv, TypeOK, LoginReplaces, connectionVars, Players
<1>5. NamedInGame' /\ ClientIsMutual' /\ ReferencesRight' /\ ReleaseInv'
  BY PlayersAlone DEF LoginReplaces
<1>6. named \in Players /\ named # None
  BY DEF IInv, TypeOK, LoginReplaces
<1>7. eventConnect' = [eventConnect EXCEPT ![c] = named] /\ first' = first
  BY DEF LoginReplaces, connectionVars
<1>8. QueueInv'
  BY <1>3, <1>6, <1>7 DEF IInv, TypeOK, QueueInv, Task
<1>9. LoginInv'
  <2>1. ~BeforeLogin(c)'
    BY <1>2, <1>3, <1>7 DEF BeforeLogin
  <2>2. \A e \in Connections : BeforeLogin(e)' => BeforeLogin(e)
    BY <1>3, <1>7 DEF BeforeLogin, Task
  <2> QED  BY <1>2, <1>7, <2>1, <2>2 DEF IInv, TypeOK, LoginInv, LoginReplaces
<1> QED  BY <1>4, <1>5, <1>8, <1>9 DEF IInv

(* connect, from login or from its event: the protocol plays nobody yet.    *)
LEMMA ConnectKeeps ==
    ASSUME IInv, NEW op \in {"login", "connect"}, NEW c \in Connections, IsTask(op, c),
           NEW p \in Players, own[c] = None, first[c],
           Task("login", c) \notin ToSet(queue) \/ op = "login",
           Task("connect", c) \notin ToSet(queue) \/ op = "connect",
           Connect(c, p)
    PROVE  IInv'
<1>1. Disconnect(c, Tail(queue)) \/ StaysOpen(Tail(queue))
  BY DEF Connect
<1>2. /\ queue' \in Seq(Tasks)
      /\ IsInjective(queue')
      /\ Task(op, c) \notin ToSet(queue')
      /\ ToSet(queue') \subseteq ToSet(queue) \cup {Task("release", e) : e \in Connections}
      /\ \A e \in Connections : Task("release", e) \in ToSet(queue') => closed'[e]
      /\ closed' \in [Connections -> BOOLEAN]
  BY <1>1, TaskQueues
<1>3. /\ eventConnect' = [eventConnect EXCEPT ![c] = None]
      /\ UNCHANGED <<first, alive, released, named, status, checked, toRelease>>
  BY DEF Connect, connectionVars
<1>4. Task("login", c) \notin ToSet(queue') /\ Task("connect", c) \notin ToSet(queue')
  BY <1>2 DEF Task
<1>5. QueueInv'
  BY <1>2, <1>3, <1>4 DEF IInv, TypeOK, QueueInv, Task
<1>6. \A e \in Connections : BeforeLogin(e)' => BeforeLogin(e)
  BY <1>2, <1>3 DEF BeforeLogin, Task
<1>7. ~BeforeLogin(c)'
  BY <1>3, <1>4 DEF BeforeLogin
<1>8. NamedInGame' /\ ReleaseInv'
  BY <1>3 DEF IInv, NamedInGame, ReleaseInv
<1>9. CASE Attaches(c, p) /\ Attach(c, p)
  <2>1. named = p /\ client[p] = None /\ status[p] = "game"
    BY <1>9 DEF Attaches, IInv, NamedInGame
  <2>2. TypeOK'
    BY <1>2, <1>3, <1>9 DEF IInv, TypeOK, Attach, Players
  <2>3. ClientIsMutual'
    BY <1>9, <2>1, NoneAssumption DEF IInv, TypeOK, ClientIsMutual, Attach, Players
  <2>4. ReferencesRight'
    BY <1>3, <1>9, <2>1, NoneAssumption DEF IInv, TypeOK, ReferencesRight, HeldBy, Attach, Players
  <2>5. LoginInv'
    BY <1>3, <1>6, <1>7, <1>9 DEF IInv, TypeOK, LoginInv, Attach
  <2> QED  BY <1>5, <1>8, <2>2, <2>3, <2>4, <2>5 DEF IInv
<1>10. CASE UNCHANGED <<own, client, isConnecting, references>>
  <2>1. TypeOK'
    BY <1>2, <1>3, <1>10 DEF IInv, TypeOK
  <2>2. ClientIsMutual' /\ ReferencesRight'
    BY <1>3, <1>10, PlayersAlone
  <2>3. LoginInv'
    BY <1>3, <1>6, <1>7, <1>10 DEF IInv, TypeOK, LoginInv
  <2> QED  BY <1>5, <1>8, <2>1, <2>2, <2>3 DEF IInv
<1> QED  BY <1>9, <1>10 DEF Connect

LEMMA LoginTakesOverKeeps ==
    ASSUME IInv, NEW c \in Connections, LoginTakesOver(c)  PROVE IInv'
<1>1. IsTask("login", c) /\ named \in Players /\ Connect(c, named)
  BY DEF LoginTakesOver, IInv, TypeOK
<1>2. own[c] = None /\ first[c] /\ eventConnect[c] = None
  BY <1>1, LoginIsFirst
<1>3. Task("connect", c) \notin ToSet(queue)
  BY <1>2 DEF IInv, QueueInv
<1> QED  BY <1>1, <1>2, <1>3, ConnectKeeps

LEMMA ConnectLaterKeeps ==
    ASSUME IInv, NEW c \in Connections, ConnectLater(c)  PROVE IInv'
<1>1. IsTask("connect", c) /\ Connect(c, eventConnect[c])
  BY DEF ConnectLater
<1>2. Task("connect", c) \in ToSet(queue)
  BY <1>1, TakeTask
<1>3. eventConnect[c] # None /\ eventConnect[c] \in Players
  BY <1>2 DEF IInv, TypeOK, QueueInv
<1>4. own[c] = None /\ first[c] /\ Task("login", c) \notin ToSet(queue)
  BY <1>3 DEF IInv, LoginInv, BeforeLogin
<1> QED  BY <1>1, <1>3, <1>4, ConnectKeeps

LEMMA ReleaseKeeps ==
    ASSUME IInv, NEW c \in Connections, Release(c)  PROVE IInv'
<1>1. IsTask("release", c) /\ StaysOpen(Tail(queue))
  BY DEF Release
<1>2. /\ queue' \in Seq(Tasks)
      /\ IsInjective(queue')
      /\ ToSet(queue') \subseteq ToSet(queue) \cup {Task("release", e) : e \in Connections}
      /\ \A e \in Connections : Task("release", e) \in ToSet(queue') => closed'[e]
      /\ closed' \in [Connections -> BOOLEAN]
  BY <1>1, TaskQueues
<1>3. UNCHANGED <<first, alive, eventConnect, isConnecting, named, checked, toRelease>>
  BY DEF Release, connectionVars
<1>4. QueueInv' /\ \A e \in Connections : BeforeLogin(e)' => BeforeLogin(e)
  BY <1>2, <1>3, QueueKept
<1>5. released' \in [Connections -> BOOLEAN]
  BY DEF IInv, TypeOK, Release
<1>6. CASE own[c] # None /\ client[own[c]] = c
  <2> DEFINE p == own[c]
  <2>1. p \in Players /\ client[p] = c
    BY <1>6 DEF IInv, TypeOK
  <2>2. references[p] = HeldBy(p) /\ references[p] \in Nat \ {0}
    BY <2>1, NoneAssumption DEF IInv, TypeOK, ReferencesRight, HeldBy, Players
  <2>3. /\ client' = [client EXCEPT ![p] = None]
        /\ own' = [own EXCEPT ![c] = None]
        /\ references' = [references EXCEPT ![p] = @ - 1]
        /\ status' = [status EXCEPT ![p] = IF references[p] = 1 THEN "deleted" ELSE @]
    BY <1>6 DEF Release, Dropped
  <2>4. references[p] = 1 => named # p /\ p \notin toRelease
    BY <2>1, <2>2, NoneAssumption DEF HeldBy, Players
  <2>5. status[p] \notin {"none", "deleted"}
    BY <2>1, <2>2 DEF IInv, ReferencesRight
  <2> HIDE DEF p
  <2>6. TypeOK'
    BY <1>2, <1>3, <1>5, <2>1, <2>2, <2>3 DEF IInv, TypeOK, Players
  <2>7. NamedInGame' /\ ReleaseInv'
    BY <1>3, <2>1, <2>3, <2>4 DEF IInv, TypeOK, NamedInGame, ReleaseInv
  <2>8. own[c] = p
    BY DEF p
  <2>9. ClientIsMutual'
    BY <2>1, <2>3, <2>8, NoneAssumption DEF IInv, TypeOK, ClientIsMutual, Players
  <2>10. ReferencesRight'
    BY <1>3, <2>1, <2>2, <2>3, <2>5, NoneAssumption
    DEF IInv, TypeOK, ReferencesRight, HeldBy, Players
  <2>11. LoginInv'
    BY <1>3, <1>4, <2>3, <2>5, <2>1 DEF IInv, TypeOK, LoginInv, Players
  <2> QED  BY <1>4, <2>6, <2>7, <2>9, <2>10, <2>11 DEF IInv
<1>7. CASE UNCHANGED <<client, own, references, status>>
  <2>1. TypeOK'
    BY <1>2, <1>3, <1>5, <1>7 DEF IInv, TypeOK
  <2>2. NamedInGame' /\ ClientIsMutual' /\ ReferencesRight' /\ ReleaseInv'
    BY <1>3, <1>7, PlayersAlone
  <2>3. LoginInv'
    BY <1>3, <1>4, <1>7 DEF IInv, LoginInv
  <2> QED  BY <1>4, <2>1, <2>2, <2>3 DEF IInv
<1> QED  BY <1>6, <1>7 DEF Release

-----------------------------------------------------------------------------
(* A player that leaves the game is held as often as before.                *)
LEMMA RemoveKeeps ==
    ASSUME IInv, named # None, RemoveCreature(named), UNCHANGED <<own, client>>
    PROVE  /\ NamedInGame' /\ ClientIsMutual' /\ ReferencesRight' /\ ReleaseInv'
           /\ status' \in [Players -> {"none", "game", "out", "deleted"}]
           /\ named' = None /\ toRelease' \subseteq Players
           /\ UNCHANGED <<checked, references>>
           /\ \A c \in Connections : status[c] = "none" => status'[c] = "none"
<1>1. named \in Players /\ status[named] = "game" /\ named \notin toRelease
  BY DEF IInv, TypeOK, NamedInGame, ReleaseInv
<1>2. status' \in [Players -> {"none", "game", "out", "deleted"}] /\ toRelease' \subseteq Players
  BY <1>1 DEF IInv, TypeOK, RemoveCreature
<1>3. NamedInGame'
  BY <1>1, NoneAssumption DEF IInv, TypeOK, NamedInGame, RemoveCreature, Players
<1>4. ClientIsMutual'
  BY DEF IInv, ClientIsMutual
<1>5. ReferencesRight'
  BY <1>1, NoneAssumption DEF IInv, TypeOK, ReferencesRight, HeldBy, RemoveCreature, Players
<1>6. ReleaseInv'
  BY <1>1 DEF IInv, TypeOK, ReleaseInv, RemoveCreature
<1>7. \A c \in Connections : status[c] = "none" => status'[c] = "none"
  BY <1>1 DEF IInv, TypeOK, RemoveCreature, Players
<1> QED  BY <1>2, <1>3, <1>4, <1>5, <1>6, <1>7 DEF RemoveCreature

LEMMA LogoutKeeps ==
    ASSUME IInv, NEW c \in Connections, Logout(c)  PROVE IInv'
<1>1. IsTask("logout", c)
  BY DEF Logout
<1>2. Disconnect(c, Tail(queue)) \/ StaysOpen(Tail(queue))
  BY DEF Logout
<1>3. /\ queue' \in Seq(Tasks)
      /\ IsInjective(queue')
      /\ ToSet(queue') \subseteq ToSet(queue) \cup {Task("release", e) : e \in Connections}
      /\ \A e \in Connections : Task("release", e) \in ToSet(queue') => closed'[e]
      /\ closed' \in [Connections -> BOOLEAN]
  BY <1>1, <1>2, TaskQueues
<1>4. UNCHANGED <<first, alive, released, eventConnect, own, client, isConnecting>>
  BY DEF Logout, connectionVars
<1>5. QueueInv' /\ \A e \in Connections : BeforeLogin(e)' => BeforeLogin(e)
  BY <1>3, <1>4, QueueKept
<1>6. CASE UNCHANGED <<status, named, toRelease, checked, references>>
  <2>1. TypeOK'
    BY <1>3, <1>4, <1>6 DEF IInv, TypeOK
  <2>2. NamedInGame' /\ ClientIsMutual' /\ ReferencesRight' /\ ReleaseInv'
    BY <1>4, <1>6, PlayersAlone
  <2>3. LoginInv'
    BY <1>4, <1>5, <1>6 DEF IInv, LoginInv
  <2> QED  BY <1>5, <2>1, <2>2, <2>3 DEF IInv
<1>7. CASE named # None /\ RemoveCreature(named)
  <2>1. /\ NamedInGame' /\ ClientIsMutual' /\ ReferencesRight' /\ ReleaseInv'
        /\ status' \in [Players -> {"none", "game", "out", "deleted"}]
        /\ named' = None /\ toRelease' \subseteq Players
        /\ UNCHANGED <<checked, references>>
        /\ \A d \in Connections : status[d] = "none" => status'[d] = "none"
    BY <1>4, <1>7, RemoveKeeps
  <2>2. TypeOK'
    BY <1>3, <1>4, <2>1 DEF IInv, TypeOK
  <2>3. LoginInv'
    BY <1>4, <1>5, <2>1 DEF IInv, LoginInv
  <2> QED  BY <1>5, <2>1, <2>2, <2>3 DEF IInv
<1>8. own[c] # None /\ own[c] = named => named # None
  OBVIOUS
<1> QED  BY <1>6, <1>7, <1>8 DEF Logout

LEMMA KickKeeps ==
    ASSUME IInv, Kick  PROVE IInv'
<1>1. queue \in Seq(Tasks) /\ IsInjective(queue) /\ client[named] \in Connections \cup {None}
  BY DEF IInv, TypeOK, QueueInv, Kick
<1>2. /\ queue' \in Seq(Tasks)
      /\ IsInjective(queue')
      /\ ToSet(queue') \subseteq ToSet(queue) \cup {Task("release", e) : e \in Connections}
      /\ \A e \in Connections : Task("release", e) \in ToSet(queue') => closed'[e]
      /\ closed' \in [Connections -> BOOLEAN]
  BY <1>1, DisconnectQueues DEF Kick
<1>3. UNCHANGED <<first, alive, released, eventConnect, own, client, isConnecting>>
  BY DEF Kick, connectionVars
<1>4. /\ NamedInGame' /\ ClientIsMutual' /\ ReferencesRight' /\ ReleaseInv'
      /\ status' \in [Players -> {"none", "game", "out", "deleted"}]
      /\ named' = None /\ toRelease' \subseteq Players
      /\ UNCHANGED <<checked, references>>
      /\ \A d \in Connections : status[d] = "none" => status'[d] = "none"
  BY <1>3, RemoveKeeps DEF Kick
<1>5. TypeOK'
  BY <1>2, <1>3, <1>4 DEF IInv, TypeOK
<1>6. QueueInv' /\ \A e \in Connections : BeforeLogin(e)' => BeforeLogin(e)
  BY <1>2, <1>3, QueueKept
<1>7. LoginInv'
  BY <1>3, <1>4, <1>6 DEF IInv, LoginInv
<1> QED  BY <1>4, <1>5, <1>6, <1>7 DEF IInv

LEMMA DieKeeps ==
    ASSUME IInv, Die  PROVE IInv'
<1>1. UNCHANGED <<queue, first, alive, closed, released, eventConnect, own, client, isConnecting>>
  BY DEF Die, StaysOpen, connectionVars
<1>2. /\ NamedInGame' /\ ClientIsMutual' /\ ReferencesRight' /\ ReleaseInv'
      /\ status' \in [Players -> {"none", "game", "out", "deleted"}]
      /\ named' = None /\ toRelease' \subseteq Players
      /\ UNCHANGED <<checked, references>>
      /\ \A d \in Connections : status[d] = "none" => status'[d] = "none"
  BY <1>1, RemoveKeeps DEF Die
<1>3. TypeOK'
  BY <1>1, <1>2 DEF IInv, TypeOK
<1>4. QueueInv'
  BY <1>1 DEF IInv, QueueInv
<1>5. LoginInv'
  BY <1>1, <1>2 DEF IInv, LoginInv, BeforeLogin
<1> QED  BY <1>2, <1>3, <1>4, <1>5 DEF IInv

(* A check of the creatures gives back no more than was held, and deletes   *)
(* only players that have left the game.                                    *)
LEMMA CheckCreaturesKeeps ==
    ASSUME IInv, NEW visited \in SUBSET checked, CheckCreatures(visited)  PROVE IInv'
<1> DEFINE leaving == {p \in visited : status[p] # "game"}
           left(p) == references[p] - (IF p \in leaving THEN 1 ELSE 0)
                                    - (IF p \in toRelease THEN 1 ELSE 0)
           freed == {p \in leaving \cup toRelease : left(p) = 0}
<1>1. /\ checked' = checked \ leaving
      /\ toRelease' = {}
      /\ references' = [p \in Players |-> left(p)]
      /\ status' = [p \in Players |-> IF p \in freed THEN "deleted" ELSE status[p]]
      /\ UNCHANGED <<queue, first, alive, closed, released, eventConnect, own, client,
                     isConnecting, named>>
  BY DEF CheckCreatures, connectionVars
<1>2. ASSUME NEW p \in Players
      PROVE  /\ left(p) = (IF named = p THEN 1 ELSE 0)
                             + (IF p \in checked \ leaving THEN 1 ELSE 0)
                             + (IF client[p] # None THEN 1 ELSE 0)
             /\ p \in leaving \cup toRelease => status[p] # "game" /\ references[p] # 0
  <2>1. references[p] = HeldBy(p)
    BY DEF IInv, ReferencesRight
  <2>2. p \in toRelease => status[p] = "out" /\ named # p
    BY DEF IInv, ReleaseInv, NamedInGame
  <2>3. p \in leaving => p \in checked /\ status[p] # "game"
    OBVIOUS
  <2> QED  BY <2>1, <2>2, <2>3 DEF HeldBy
<1>3. ASSUME NEW p \in Players
      PROVE  /\ references'[p] = left(p)
             /\ status'[p] = IF p \in freed THEN "deleted" ELSE status[p]
  BY <1>1
<1> HIDE DEF left
<1>4. leaving \subseteq Players /\ toRelease \subseteq Players /\ checked \subseteq Players
  BY DEF IInv, TypeOK
<1>5. ASSUME NEW p \in Players  PROVE left(p) \in Nat
  BY <1>2
<1>6. TypeOK'
  <2>1. references' \in [Players -> Nat]
    BY <1>1, <1>5
  <2>2. status' \in [Players -> {"none", "game", "out", "deleted"}]
    BY <1>1 DEF IInv, TypeOK
  <2>3. checked' \subseteq Players /\ toRelease' \subseteq Players
    BY <1>1, <1>4
  <2> QED  BY <1>1, <2>1, <2>2, <2>3 DEF IInv, TypeOK
<1>7. NamedInGame'
  BY <1>1, <1>2, <1>3 DEF IInv, NamedInGame
<1>8. ClientIsMutual' /\ QueueInv' /\ ReleaseInv'
  BY <1>1 DEF IInv, ClientIsMutual, QueueInv, ReleaseInv
<1>9. ASSUME NEW p \in Players
      PROVE  /\ references'[p] = HeldBy(p)'
             /\ status'[p] \in {"none", "deleted"} <=> references'[p] = 0
  <2>1. references'[p] = HeldBy(p)'
    BY <1>1, <1>2, <1>3 DEF HeldBy
  <2>2. references'[p] = left(p) /\ status'[p] = IF p \in freed THEN "deleted" ELSE status[p]
    BY <1>3
  <2>3. p \in freed <=> p \in leaving \cup toRelease /\ left(p) = 0
    OBVIOUS
  <2>4. status[p] \in {"none", "deleted"} <=> references[p] = 0
    BY DEF IInv, ReferencesRight
  <2>5. p \in leaving \cup toRelease => references[p] # 0
    BY <1>2
  <2>6. p \notin leaving \cup toRelease => left(p) = references[p]
    BY DEF left, IInv, TypeOK
  <2> HIDE DEF leaving, freed
  <2>7. status'[p] \in {"none", "deleted"} <=> references'[p] = 0
    BY <2>2, <2>3, <2>4, <2>5, <2>6
  <2> QED  BY <2>1, <2>7
<1>10. ReferencesRight'
  BY <1>9 DEF ReferencesRight
<1>11. LoginInv'
  <2>1. ASSUME NEW c \in Connections, status[c] = "none"  PROVE status'[c] = "none"
    <3>1. references[c] = 0
      BY <2>1 DEF IInv, ReferencesRight, Players
    <3> QED  BY <1>2, <1>3, <2>1, <3>1 DEF Players
  <2> QED  BY <1>1, <2>1 DEF IInv, LoginInv, BeforeLogin
<1> QED  BY <1>6, <1>7, <1>8, <1>10, <1>11 DEF IInv

-----------------------------------------------------------------------------
(* The invariant that everything below follows from.                        *)
THEOREM GameSessionInvariant == Spec => []IInv
<1>1. ASSUME Init  PROVE IInv
  <2>1. TypeOK
    BY <1>1 DEF Init, TypeOK, Players
  <2>2. NamedInGame /\ ClientIsMutual /\ ReferencesRight /\ ReleaseInv
    BY <1>1, NoneAssumption DEF Init, NamedInGame, ClientIsMutual, ReferencesRight, HeldBy,
       ReleaseInv, Players
  <2>3. ToSet(queue) = {} /\ IsInjective(queue)
    <3>1. queue = <<>> /\ DOMAIN <<>> = {}
      BY <1>1 DEF Init
    <3> QED  BY <3>1 DEF ToSet, IsInjective
  <2>4. QueueInv
    BY <2>3 DEF QueueInv
  <2>5. LoginInv
    BY <1>1 DEF Init, LoginInv, Players
  <2> QED  BY <2>1, <2>2, <2>4, <2>5 DEF IInv
<1>2. ASSUME IInv, [Next]_vars  PROVE IInv'
  <2>1. ASSUME NEW c \in Connections, LoginRefused(c) \/ LoginPlaced(c)  PROVE IInv'
    BY <1>2, <2>1, LoginRefusedKeeps, LoginPlacedKeeps
  <2>2. ASSUME NEW c \in Connections, LoginReplaces(c) \/ LoginTakesOver(c)  PROVE IInv'
    BY <1>2, <2>2, LoginReplacesKeeps, LoginTakesOverKeeps
  <2>3. ASSUME NEW c \in Connections, ConnectLater(c) \/ Logout(c) \/ Release(c)  PROVE IInv'
    BY <1>2, <2>3, ConnectLaterKeeps, LogoutKeeps, ReleaseKeeps
  <2>4. ASSUME NEW c \in Connections, RecvFirstMessage(c) \/ RecvLogout(c)  PROVE IInv'
    BY <1>2, <2>4, RecvFirstMessageKeeps, RecvLogoutKeeps
  <2>5. ASSUME NEW c \in Connections, Lose(c) \/ EndConnection(c) \/ Fire(c)  PROVE IInv'
    BY <1>2, <2>5, LoseKeeps, EndConnectionKeeps, FireKeeps
  <2>6. CASE Kick \/ PingTimeout \/ Die
    BY <1>2, <2>6, KickKeeps, DieKeeps DEF PingTimeout
  <2>7. ASSUME NEW visited \in SUBSET checked, CheckCreatures(visited)  PROVE IInv'
    BY <1>2, <2>7, CheckCreaturesKeeps
  <2>8. CASE UNCHANGED vars
    <3>1. TypeOK' /\ QueueInv' /\ LoginInv'
      BY <1>2, <2>8 DEF vars, connectionVars, IInv, TypeOK, QueueInv, LoginInv, BeforeLogin
    <3>2. NamedInGame' /\ ClientIsMutual' /\ ReferencesRight' /\ ReleaseInv'
      BY <1>2, <2>8, PlayersAlone DEF vars
    <3> QED  BY <3>1, <3>2 DEF IInv
  <2> QED  BY <1>2, <2>1, <2>2, <2>3, <2>4, <2>5, <2>6, <2>7, <2>8 DEF Next, RunTask
<1> QED  BY <1>1, <1>2, PTL DEF Spec

(* The state keeps its types; above all, no reference counter goes below    *)
(* zero, so no Player is deleted twice.                                     *)
THEOREM SessionTypes == Spec => []TypeOK
BY GameSessionInvariant, PTL DEF IInv

(* The references of every Player are those that are held: none is deleted  *)
(* while a protocol or a list of the game holds it, and none is left over.  *)
THEOREM SessionReferences == Spec => []ReferencesRight
BY GameSessionInvariant, PTL DEF IInv

(* A protocol plays a player exactly when the player has it as its client.  *)
THEOREM SessionMutual == Spec => []ClientIsMutual
BY GameSessionInvariant, PTL DEF IInv

(* A client that plays the character is never replaced while it is there.   *)
THEOREM SessionNoTakeover == Spec => NoTakeover
<1> DEFINE Kept(p) == client[p] # None => client'[p] \in {client[p], None}
<1>1. ASSUME IInv, [Next]_vars, NEW p \in Players  PROVE Kept(p)
  <2>1. ASSUME NEW c \in Connections, LoginRefused(c) \/ LoginPlaced(c)  PROVE Kept(p)
    <3>1. client[c] = None
      BY <1>1, <2>1, LoginIsFirst DEF LoginRefused, LoginPlaced
    <3> QED  BY <1>1, <2>1, <3>1 DEF IInv, TypeOK, LoginRefused, LoginPlaced
  <2>2. ASSUME NEW c \in Connections, LoginTakesOver(c) \/ ConnectLater(c)  PROVE Kept(p)
    BY <1>1, <2>2 DEF IInv, TypeOK, LoginTakesOver, ConnectLater, Connect, Attaches, Attach
  <2>3. ASSUME NEW c \in Connections, LoginReplaces(c) \/ Logout(c)  PROVE Kept(p)
    BY <2>3 DEF LoginReplaces, Logout
  <2>4. ASSUME NEW c \in Connections, Release(c)  PROVE Kept(p)
    BY <1>1, <2>4 DEF IInv, TypeOK, Release
  <2>5. ASSUME NEW c \in Connections, RecvFirstMessage(c) \/ RecvLogout(c) \/ Lose(c)
                  \/ EndConnection(c) \/ Fire(c)  PROVE Kept(p)
    BY <2>5 DEF RecvFirstMessage, RecvLogout, Lose, EndConnection, Fire
  <2>6. CASE Kick \/ PingTimeout \/ Die
    BY <2>6 DEF PingTimeout, Kick, Die
  <2>7. ASSUME NEW visited \in SUBSET checked, CheckCreatures(visited)  PROVE Kept(p)
    BY <2>7 DEF CheckCreatures
  <2>8. CASE UNCHANGED vars
    BY <2>8 DEF vars
  <2> QED  BY <1>1, <2>1, <2>2, <2>3, <2>4, <2>5, <2>6, <2>7, <2>8 DEF Next, RunTask
<1>2. IInv /\ [Next]_vars => [\A p \in Players : Kept(p)]_vars
  BY <1>1
<1> QED  BY <1>2, GameSessionInvariant, PTL DEF Spec, NoTakeover

-----------------------------------------------------------------------------
(***************************************************************************)
(* WaitingList.  What a login asks of both lists it asks after it has      *)
(* dropped the entries whose time is over: CleanupFacts says that exactly  *)
(* those go.  The rest is counting.                                        *)
(***************************************************************************)
Entries(guids) == [left : 0..27, guid : guids]
WaitInv == WaitTypeOK /\ IsFiniteSet(online)

(* What cleanupList leaves: entries of the list, none of them over, and     *)
(* nothing only if all are over.                                            *)
LEMMA CleanupFacts ==
    ASSUME NEW G, NEW list \in Seq(Entries(G))
    PROVE  LET rest == CleanupList(list)
           IN  /\ rest \in Seq(Entries(G))
               /\ \A n \in DOMAIN rest : \E i \in DOMAIN list : rest[n] = list[i]
               /\ rest = <<>> => \A i \in DOMAIN list : list[i].left = 0
<1> DEFINE kept == {i \in DOMAIN list : list[i].left > 0}
           place(n) == CHOOSE i \in kept : Cardinality({j \in kept : j < i}) = n - 1
           rest == CleanupList(list)
<1>1. rest = [n \in 1..Cardinality(kept) |-> list[place(n)]]
    BY DEF CleanupList
<1>2. kept \subseteq Nat /\ kept \subseteq DOMAIN list /\ IsFiniteSet(kept)
    <2>1. DOMAIN list = 1..Len(list) /\ Len(list) \in Nat
        OBVIOUS
    <2>2. kept \in SUBSET (1..Len(list))
        BY <2>1
    <2>3. IsFiniteSet(1..Len(list))
        BY <2>1, FS_Interval
    <2>4. IsFiniteSet(kept)
        <3> HIDE DEF kept
        <3>1. QED
            BY <2>2, <2>3, FS_Subset
    <2>5. kept \subseteq DOMAIN list /\ DOMAIN list \subseteq Nat
        BY <2>1
    <2> HIDE DEF kept
    <2>6. QED
        BY <2>4, <2>5
<1>3. Cardinality(kept) \in Nat
    BY <1>2, FS_CardinalityType
<1>4. ASSUME NEW n \in 1..Cardinality(kept) PROVE place(n) \in kept
    <2> HIDE DEF kept
    <2>1. \E i \in kept : Cardinality({j \in kept : j < i}) = n - 1
        BY <1>2, RankOnto DEF Before
    <2>2. QED
        BY <2>1
<1>5. \A i \in DOMAIN list : list[i] \in Entries(G)
    OBVIOUS
<1>6. rest \in Seq(Entries(G))
    <2> HIDE DEF kept, place
    <2>1. \A n \in 1..Cardinality(kept) : list[place(n)] \in Entries(G)
        BY <1>2, <1>4, <1>5
    <2>2. QED
        BY <1>1, <1>3, <2>1
<1>7. \A n \in DOMAIN rest : \E i \in DOMAIN list : rest[n] = list[i]
    <2> HIDE DEF kept, place
    <2>1. DOMAIN rest = 1..Cardinality(kept)
        BY <1>1
    <2>2. QED
        BY <1>1, <1>2, <1>4, <2>1
<1>8. ASSUME rest = <<>>, NEW i \in DOMAIN list PROVE list[i].left = 0
    <2>1. DOMAIN rest = {}
        BY <1>8
    <2>2. DOMAIN rest = 1..Cardinality(kept)
        BY <1>1
    <2>3. Cardinality(kept) = 0
        <3> HIDE DEF kept, rest
        <3>1. QED
            BY <1>3, <2>1, <2>2
    <2>4. kept = {}
        BY <1>2, <2>3, FS_EmptySet
    <2>5. PICK n \in 0..27 : list[i].left = n
        BY <1>5 DEF Entries
    <2>6. ~(n > 0)
        BY <2>4, <2>5
    <2>7. QED
        BY SMTT(30), <2>5, <2>6
<1>9. QED
    BY <1>6, <1>7, <1>8

(* What one login leaves of a list in which it has found the client: fewer  *)
(* entries, or one that is nobody's.                                        *)
LEMMA RetriedTypes ==
    ASSUME NEW G, NoPlayer \in G, NEW list \in Seq(Entries(G)), NEW i \in DOMAIN list, NEW slot
    PROVE  Retried(list, i, slot) \in Seq(Entries(G))
<1>1. i \in 1..Len(list) /\ Len(list) \in Nat
    OBVIOUS
<1>2. RemoveAt(list, i) \in Seq(Entries(G))
    <2>1. SubSeq(list, 1, i - 1) \in Seq(Entries(G)) /\ SubSeq(list, i + 1, Len(list)) \in Seq(Entries(G))
        BY <1>1
    <2>2. QED
        BY <2>1 DEF RemoveAt
<1>3. [list EXCEPT ![i].guid = NoPlayer] \in Seq(Entries(G))
    <2>1. list[i] \in Entries(G)
        OBVIOUS
    <2>2. [list[i] EXCEPT !.guid = NoPlayer] \in Entries(G)
        BY <2>1 DEF Entries
    <2>3. [list EXCEPT ![i].guid = NoPlayer] = [list EXCEPT ![i] = [list[i] EXCEPT !.guid = NoPlayer]]
        OBVIOUS
    <2>4. QED
        BY <2>2, <2>3
<1>4. QED
    BY <1>2, <1>3 DEF Retried

(* The times that getWaitTime and getTimeout give.                          *)
LEMMA Times ==
    ASSUME NEW slot \in Nat
    PROVE  WaitTime(slot) \in 1..24 /\ Timeout(slot) \in 1..27
BY DEF WaitTime, Timeout

(* The lists begin empty.                                                   *)
LEMMA WaitInitInv == WaitInit => WaitInv
BY FS_EmptySet DEF WaitInit, WaitInv, WaitTypeOK

(* A login keeps the types, and lets in only the client that it is.         *)
LEMMA LoginKeeps ==
    ASSUME WaitInv, NEW p \in Clients, ClientLogin(p)
    PROVE  WaitInv'
<1> DEFINE pri == CleanupList(priorityWaitList)
           wl == CleanupList(waitList)
           High == Premium \cup {NoPlayer}
           Low == (Clients \ Premium) \cup {NoPlayer}
<1>1. priorityWaitList \in Seq(Entries(High)) /\ waitList \in Seq(Entries(Low))
    BY DEF WaitInv, WaitTypeOK, Entries
<1>2. pri \in Seq(Entries(High)) /\ wl \in Seq(Entries(Low))
    BY <1>1, CleanupFacts
<1> HIDE DEF High, Low, pri, wl
<1>3. NoPlayer \in High /\ NoPlayer \in Low
    BY DEF High, Low
<1>4. ASSUME Enter(p)
      PROVE  IsFiniteSet(online') /\ online' \subseteq Clients /\ retryIn' \in [Clients -> 0..24]
    BY <1>4, FS_AddElement DEF Enter, WaitInv, WaitTypeOK
<1>5. ASSUME NEW slot \in Nat, TellToWait(p, slot)
      PROVE  IsFiniteSet(online') /\ online' \subseteq Clients /\ retryIn' \in [Clients -> 0..24]
    <2>1. WaitTime(slot) \in 0..24
        BY Times
    <2>2. QED
        BY <1>5, <2>1 DEF TellToWait, WaitInv, WaitTypeOK
<1>6. CASE Enter(p) /\ UNCHANGED lists
    BY <1>1, <1>4, <1>6 DEF lists, WaitInv, WaitTypeOK, Entries, High, Low
<1>7. CASE Enter(p) /\ priorityWaitList' = pri /\ waitList' = wl
    BY <1>2, <1>4, <1>7 DEF WaitInv, WaitTypeOK, Entries, High, Low
<1>8. CASE Retry(pri, wl, p)
    <2>1. ASSUME NEW slot \in Nat, LetInOrNot(p, slot)
          PROVE  IsFiniteSet(online') /\ online' \subseteq Clients /\ retryIn' \in [Clients -> 0..24]
        BY <1>4, <1>5, <2>1 DEF LetInOrNot
    <2>2. ASSUME NEW i \in PositionIn(pri, p), LetInOrNot(p, Slot(0, pri, i)),
                 priorityWaitList' = Retried(pri, i, Slot(0, pri, i)), waitList' = wl
          PROVE  WaitInv'
        <3>1. Slot(0, pri, i) \in Nat /\ i \in DOMAIN pri
            BY <1>2 DEF Slot, PositionIn
        <3>2. priorityWaitList' \in Seq(Entries(High))
            BY <1>2, <1>3, <2>2, <3>1, RetriedTypes
        <3>3. QED
            BY <1>2, <2>1, <2>2, <3>1, <3>2 DEF WaitInv, WaitTypeOK, Entries, High, Low
    <2>3. ASSUME NEW i \in PositionIn(wl, p), LetInOrNot(p, Slot(Len(pri), wl, i)),
                 waitList' = Retried(wl, i, Slot(Len(pri), wl, i)), priorityWaitList' = pri
          PROVE  WaitInv'
        <3>1. Slot(Len(pri), wl, i) \in Nat /\ i \in DOMAIN wl
            BY <1>2 DEF Slot, PositionIn
        <3>2. waitList' \in Seq(Entries(Low))
            BY <1>2, <1>3, <2>3, <3>1, RetriedTypes
        <3>3. QED
            BY <1>2, <2>1, <2>3, <3>1, <3>2 DEF WaitInv, WaitTypeOK, Entries, High, Low
    <2>4. QED
        BY <1>8, <2>2, <2>3 DEF Retry
<1>9. CASE Queue(pri, wl, p)
    <2> DEFINE slot == IF p \in Premium THEN Len(pri) + 1 ELSE Len(pri) + Len(wl) + 1
    <2>1. slot \in Nat
        BY <1>2
    <2> HIDE DEF slot
    <2>2. /\ TellToWait(p, slot)
          /\ priorityWaitList' = IF p \in Premium THEN Append(pri, Entry(p, slot)) ELSE pri
          /\ waitList' = IF p \in Premium THEN wl ELSE Append(wl, Entry(p, slot))
        BY <1>9 DEF Queue, slot
    <2>3. /\ p \in Premium => Entry(p, slot) \in Entries(High)
          /\ p \notin Premium => Entry(p, slot) \in Entries(Low)
        BY <2>1, Times DEF Entry, Entries, High, Low
    <2>4. priorityWaitList' \in Seq(Entries(High)) /\ waitList' \in Seq(Entries(Low))
        BY <1>2, <2>2, <2>3
    <2>5. IsFiniteSet(online') /\ online' \subseteq Clients /\ retryIn' \in [Clients -> 0..24]
        BY <1>5, <2>1, <2>2
    <2>6. QED
        BY <2>4, <2>5 DEF WaitInv, WaitTypeOK, Entries, High, Low
<1>10. QED
    BY <1>6, <1>7, <1>8, <1>9 DEF ClientLogin, pri, wl

(* Every step keeps the types.                                              *)
LEMMA WaitStep == WaitInv /\ [WaitNext]_waitVars => WaitInv'
<1> SUFFICES ASSUME WaitInv, [WaitNext]_waitVars PROVE WaitInv'
    OBVIOUS
<1>1. ASSUME NEW p \in Clients, Leave(p) PROVE WaitInv'
    <2>1. IsFiniteSet(online')
        BY <1>1, FS_RemoveElement DEF Leave, WaitInv
    <2>2. QED
        BY <1>1, <2>1 DEF Leave, lists, WaitInv, WaitTypeOK
<1>2. CASE Tick
    <2>1. ASSUME NEW G, NEW list \in Seq(Entries(G)) PROVE Older(list) \in Seq(Entries(G))
        <3>1. ASSUME NEW i \in DOMAIN list PROVE [list[i] EXCEPT !.left = Less(@)] \in Entries(G)
            <4>1. list[i] \in Entries(G)
                OBVIOUS
            <4>2. Less(list[i].left) \in 0..27
                BY <4>1 DEF Less, Entries
            <4>3. QED
                BY <4>1, <4>2 DEF Entries
        <3>2. Older(list) = [i \in 1..Len(list) |-> [list[i] EXCEPT !.left = Less(@)]] /\ Len(list) \in Nat
            BY DEF Older
        <3>3. \A i \in 1..Len(list) : Older(list)[i] \in Entries(G)
            BY <3>1, <3>2
        <3>4. QED
            BY <3>2, <3>3
    <2>2. /\ priorityWaitList' \in Seq(Entries(Premium \cup {NoPlayer}))
          /\ waitList' \in Seq(Entries((Clients \ Premium) \cup {NoPlayer}))
        BY <1>2, <2>1 DEF Tick, WaitInv, WaitTypeOK, Entries
    <2>3. retryIn' \in [Clients -> 0..24]
        BY <1>2 DEF Tick, Less, WaitInv, WaitTypeOK
    <2>4. QED
        BY <1>2, <2>2, <2>3 DEF Tick, WaitInv, WaitTypeOK, Entries
<1>3. CASE UNCHANGED waitVars
    BY <1>3 DEF waitVars, lists, WaitInv, WaitTypeOK
<1>4. QED
    BY <1>1, <1>2, <1>3, LoginKeeps DEF WaitNext

(* Who comes in under DirectAccess finds both lists over; who comes in as   *)
(* one that waited has been on a list, and is counted in with those before. *)
LEMMA InTurn ==
    ASSUME WaitInv, NEW q \in Clients, ClientLogin(q),
           NEW p \in (online' \ online) \ Privileged, MaxPlayers # 0
    PROVE  /\ Cardinality(online') <= MaxPlayers
           /\ ~Waits(p) =>
                \A r \in Clients : \A list \in {priorityWaitList, waitList} :
                    \A i \in PositionIn(list, r) : list[i].left = 0
<1> DEFINE pri == CleanupList(priorityWaitList)
           wl == CleanupList(waitList)
           High == Premium \cup {NoPlayer}
           Low == (Clients \ Premium) \cup {NoPlayer}
<1>1. priorityWaitList \in Seq(Entries(High)) /\ waitList \in Seq(Entries(Low))
    BY DEF WaitInv, WaitTypeOK, Entries
<1>2. /\ pri \in Seq(Entries(High)) /\ wl \in Seq(Entries(Low))
      /\ \A n \in DOMAIN pri : \E i \in DOMAIN priorityWaitList : pri[n] = priorityWaitList[i]
      /\ \A n \in DOMAIN wl : \E i \in DOMAIN waitList : wl[n] = waitList[i]
      /\ pri = <<>> => \A i \in DOMAIN priorityWaitList : priorityWaitList[i].left = 0
      /\ wl = <<>> => \A i \in DOMAIN waitList : waitList[i].left = 0
    BY <1>1, CleanupFacts
<1> HIDE DEF High, Low, pri, wl
<1>3. IsFiniteSet(online) /\ Cardinality(online) \in Nat /\ MaxPlayers \in Nat
    BY FS_CardinalityType, MaxPlayersAssumption DEF WaitInv
<1>4. p = q /\ online' = online \cup {q}
    BY DEF ClientLogin, Enter, Retry, Queue, TellToWait, LetInOrNot
<1>5. Cardinality(online') = Cardinality(online) + 1
    BY <1>3, <1>4, FS_AddElement
<1>6. CASE DirectAccess(pri, wl)
    BY <1>2, <1>3, <1>5, <1>6 DEF DirectAccess, PositionIn
<1>7. CASE Retry(pri, wl, q)
    <2>1. ASSUME NEW slot \in Nat, slot > 0, LetInOrNot(q, slot) PROVE Cardinality(online') <= MaxPlayers
        <3>1. HasCapacity(slot)
            BY <1>4, <2>1 DEF LetInOrNot, TellToWait
        <3>2. QED
            BY <1>3, <1>5, <2>1, <3>1 DEF HasCapacity
    <2>2. CASE \E i \in PositionIn(pri, q) : LetInOrNot(q, Slot(0, pri, i))
        <3>1. PICK i \in DOMAIN pri : pri[i].guid = q /\ LetInOrNot(q, Slot(0, pri, i))
            BY <2>2 DEF PositionIn
        <3>2. Slot(0, pri, i) \in Nat /\ Slot(0, pri, i) > 0
            BY <1>2 DEF Slot
        <3>3. Waits(q)
            BY <1>2, <3>1 DEF Waits, PositionIn
        <3>4. QED
            BY <1>4, <2>1, <3>1, <3>2, <3>3
    <2>3. CASE \E i \in PositionIn(wl, q) : LetInOrNot(q, Slot(Len(pri), wl, i))
        <3>1. PICK i \in DOMAIN wl : wl[i].guid = q /\ LetInOrNot(q, Slot(Len(pri), wl, i))
            BY <2>3 DEF PositionIn
        <3>2. Slot(Len(pri), wl, i) \in Nat /\ Slot(Len(pri), wl, i) > 0
            BY <1>2 DEF Slot
        <3>3. Waits(q)
            BY <1>2, <3>1 DEF Waits, PositionIn
        <3>4. QED
            BY <1>4, <2>1, <3>1, <3>2, <3>3
    <2>4. QED
        BY <1>7, <2>2, <2>3 DEF Retry
<1>8. ~Queue(pri, wl, q)
    BY <1>4 DEF Queue, TellToWait
<1>9. QED
    BY <1>4, <1>6, <1>7, <1>8 DEF ClientLogin, pri, wl

(* Only gamemasters make the server fuller than MaxPlayers, and a client    *)
(* that never waited does not enter ahead of one whose time to come back is *)
(* not over, however many wait and come late (clientLogin).                 *)
THEOREM WaitingAdmittedInTurn == WaitSpec => AdmittedInTurn
<1>1. WaitSpec => []WaitInv
    BY WaitInitInv, WaitStep, PTL DEF WaitSpec
<1>2. WaitInv /\ [WaitNext]_waitVars =>
        [\A p \in (online' \ online) \ Privileged : MaxPlayers # 0 =>
          /\ Cardinality(online') <= MaxPlayers
          /\ ~Waits(p) =>
                \A q \in Clients : \A list \in {priorityWaitList, waitList} :
                    \A i \in PositionIn(list, q) : list[i].left = 0]_waitVars
    <2> SUFFICES ASSUME WaitInv, WaitNext, NEW p \in (online' \ online) \ Privileged, MaxPlayers # 0
                 PROVE  /\ Cardinality(online') <= MaxPlayers
                        /\ ~Waits(p) =>
                             \A q \in Clients : \A list \in {priorityWaitList, waitList} :
                                 \A i \in PositionIn(list, q) : list[i].left = 0
        OBVIOUS
    <2>1. PICK c \in Clients : ClientLogin(c)
        BY DEF WaitNext, Leave, Tick
    <2>2. QED
        BY <2>1, InTurn
<1>3. QED
    BY <1>1, <1>2, PTL DEF WaitSpec, AdmittedInTurn
=============================================================================
