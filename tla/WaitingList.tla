---------------------------- MODULE WaitingList ----------------------------
(***************************************************************************)
(* The waiting lists of a full server (protocolgame.cpp, clientLogin).  A  *)
(* client that finds no place is put on one of two lists, of premium and   *)
(* of other players, and told when to try again; one that does not come    *)
(* back in time is dropped by the next login.  Each login is one task of   *)
(* the dispatcher.                                                         *)
(*                                                                         *)
(* Times are in units of five seconds, in which all those of the code are  *)
(* whole, and an entry holds the time it has left and not the time of day. *)
(***************************************************************************)
EXTENDS Naturals, SequencesExt, FiniteSetsExt

CONSTANTS
    Clients,        \* the players, by their guid
    Premium,        \* those on the priority list
    Privileged,     \* those with PlayerFlag_CanAlwaysLogin or an account of a gamemaster
    MaxPlayers,     \* ConfigManager::MAX_PLAYERS, 0 for no limit
    NoPlayer        \* a guid that is no player's

ASSUME ClientsAssumption ==
    /\ Premium \subseteq Clients
    /\ Privileged \subseteq Clients
    /\ NoPlayer \notin Clients
ASSUME MaxPlayersAssumption == MaxPlayers \in Nat

VARIABLES
    priorityWaitList,   \* the two lists: sequences of (timeout, guid)
    waitList,
    online,             \* the players in the game
    retryIn             \* when each client told to wait tries again

lists == <<priorityWaitList, waitList>>
waitVars == <<lists, online, retryIn>>

WaitInit ==
    /\ priorityWaitList = <<>>
    /\ waitList = <<>>
    /\ online = {}
    /\ retryIn = [p \in Clients |-> 0]

-----------------------------------------------------------------------------
(* getWaitTime and getTimeout.                                              *)
WaitTime(slot) ==
    CASE slot < 5 -> 1
      [] slot >= 5 /\ slot < 10 -> 2
      [] slot >= 10 /\ slot < 20 -> 4
      [] slot >= 20 /\ slot < 50 -> 12
      [] OTHER -> 24
Timeout(slot) == WaitTime(slot) + 3

Entry(p, slot) == [left |-> Timeout(slot), guid |-> p]
PositionIn(list, p) == {i \in DOMAIN list : list[i].guid = p}
Waits(p) == PositionIn(priorityWaitList, p) \cup PositionIn(waitList, p) # {}

(* cleanupList: the entries whose time is not over, in the order they have. *)
CleanupList(list) ==
    LET kept == {i \in DOMAIN list : list[i].left > 0}
        place(n) == CHOOSE i \in kept : Cardinality({j \in kept : j < i}) = n - 1
    IN  [n \in 1..Cardinality(kept) |-> list[place(n)]]

(* The place of a client that findClient finds at position i of a list,     *)
(* behind the first ones of the priority list: counted from the END of the  *)
(* list, and one more.                                                      *)
Slot(first, list, i) == first + (Len(list) + 1 - i) + 1

-----------------------------------------------------------------------------
Enter(p) ==
    /\ online' = online \cup {p}
    /\ UNCHANGED retryIn

(* The refusal names the time after which the client tries again.           *)
TellToWait(p, slot) ==
    /\ retryIn' = [retryIn EXCEPT ![p] = WaitTime(slot)]
    /\ UNCHANGED online

(* A bug: whether others wait is not asked.                                 *)
BadDirectAccess(pri, wl) == MaxPlayers = 0 \/ Cardinality(online) < MaxPlayers

DirectAccess(pri, wl) ==
    \/ MaxPlayers = 0
    \/ pri = <<>> /\ wl = <<>> /\ Cardinality(online) < MaxPlayers

HasCapacity(slot) == Cardinality(online) + slot <= MaxPlayers

(* What a client that is found leaves of its list: its entry is erased if   *)
(* the client is let in; otherwise the assignment to "second" replaces its  *)
(* guid, and not its timeout, by a time.  That number is taken to be the    *)
(* guid of nobody.                                                          *)
Retried(list, i, slot) ==
    IF HasCapacity(slot) THEN RemoveAt(list, i) ELSE [list EXCEPT ![i].guid = NoPlayer]

LetInOrNot(p, slot) == IF HasCapacity(slot) THEN Enter(p) ELSE TellToWait(p, slot)

(* The priority list is searched first.                                     *)
Retry(pri, wl, p) ==
    \/ \E i \in PositionIn(pri, p) :
         /\ LetInOrNot(p, Slot(0, pri, i))
         /\ priorityWaitList' = Retried(pri, i, Slot(0, pri, i))
         /\ waitList' = wl
    \/ /\ PositionIn(pri, p) = {}
       /\ \E i \in PositionIn(wl, p) :
            /\ LetInOrNot(p, Slot(Len(pri), wl, i))
            /\ waitList' = Retried(wl, i, Slot(Len(pri), wl, i))
            /\ priorityWaitList' = pri

Queue(pri, wl, p) ==
    LET slot == IF p \in Premium THEN Len(pri) + 1 ELSE Len(pri) + Len(wl) + 1
    IN  /\ PositionIn(pri, p) \cup PositionIn(wl, p) = {}
        /\ TellToWait(p, slot)
        /\ priorityWaitList' = IF p \in Premium THEN Append(pri, Entry(p, slot)) ELSE pri
        /\ waitList' = IF p \in Premium THEN wl ELSE Append(wl, Entry(p, slot))

(* clientLogin, for a client that is not in the game and does not wait to   *)
(* try again.                                                               *)
ClientLogin(p) ==
    LET pri == CleanupList(priorityWaitList)
        wl == CleanupList(waitList)
    IN  /\ p \notin online
        /\ retryIn[p] = 0
        /\ \/ p \in Privileged /\ Enter(p) /\ UNCHANGED lists
           \/ /\ p \notin Privileged
              /\ DirectAccess(pri, wl)
              /\ Enter(p)
              /\ priorityWaitList' = pri
              /\ waitList' = wl
           \/ /\ p \notin Privileged
              /\ ~DirectAccess(pri, wl)
              /\ Retry(pri, wl, p) \/ Queue(pri, wl, p)

Leave(p) ==
    /\ p \in online
    /\ online' = online \ {p}
    /\ UNCHANGED <<lists, retryIn>>

(* Five seconds pass.  A time left of 0 is one that is over.                *)
Less(n) == IF n = 0 THEN 0 ELSE n - 1
Older(list) == [i \in DOMAIN list |-> [list[i] EXCEPT !.left = Less(@)]]
Tick ==
    /\ priorityWaitList' = Older(priorityWaitList)
    /\ waitList' = Older(waitList)
    /\ retryIn' = [p \in Clients |-> Less(retryIn[p])]
    /\ UNCHANGED online

WaitNext ==
    \/ \E p \in Clients : ClientLogin(p) \/ Leave(p)
    \/ Tick

WaitSpec == WaitInit /\ [][WaitNext]_waitVars

-----------------------------------------------------------------------------
WaitTypeOK ==
    /\ priorityWaitList \in Seq([left : 0..27, guid : Premium \cup {NoPlayer}])
    /\ waitList \in Seq([left : 0..27, guid : (Clients \ Premium) \cup {NoPlayer}])
    /\ online \subseteq Clients
    /\ retryIn \in [Clients -> 0..24]

(* However newcomers, late retries and entries that have run out meet, only *)
(* gamemasters make the server fuller than MaxPlayers, and a client that    *)
(* never waited does not enter ahead of one whose time to come back is not  *)
(* over (clientLogin, the count of places and the test of both lists).      *)
AdmittedInTurn ==
    [][\A p \in (online' \ online) \ Privileged : MaxPlayers # 0 =>
          /\ Cardinality(online') <= MaxPlayers
          /\ ~Waits(p) =>
                \A q \in Clients : \A list \in {priorityWaitList, waitList} :
                    \A i \in PositionIn(list, q) : list[i].left = 0]_waitVars

(* "let them wait a bit longer": a client that comes back in time and is    *)
(* refused waits on, with more time than it is told to come back in.        *)
WaitsLonger ==
    [][\A p \in Clients \ Premium :
          (retryIn'[p] > retryIn[p] /\ \E i \in PositionIn(waitList, p) : waitList[i].left > 0)
              => \E i \in 1..Len(waitList') : waitList'[i].guid = p /\ waitList'[i].left > retryIn'[p]]_waitVars
=============================================================================
