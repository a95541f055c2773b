------------------------------- MODULE Party -------------------------------
(***************************************************************************)
(* Parties of players (party.cpp, game.cpp, player.cpp).  A party lives as *)
(* long as it has a member besides its leader, or somebody invited; it is  *)
(* deleted by whichever of its operations leaves it empty.  Players point  *)
(* to their party and to those that invite them, and parties to players:   *)
(* one pointer left behind is one to freed memory.  A party may share      *)
(* experience while all of it is in range of the leader, of a level near   *)
(* the highest, and has fought lately.                                     *)
(*                                                                         *)
(* The events onJoin, onLeave and onDisband of parties are off in          *)
(* data/events/events.xml, so that they never refuse.                      *)
(***************************************************************************)
EXTENDS Integers, SequencesExt

CONSTANTS
    Players,
    Parties,        \* the parties that can be at one time
    None,           \* a null pointer
    Levels,         \* the levels of the players
    Rooms           \* the places: those in one are in range of each other

ASSUME PartyAssumption == None \notin Players \cup Parties /\ Levels \subseteq Nat

VARIABLES
    parties,        \* the Party objects
    party,          \* Player::party
    invitePartyList,\* Player::invitePartyList
    online,         \* the players in the game
    level,
    room

worldVars == <<level, room>>
vars == <<parties, party, invitePartyList, online, worldVars>>

Nobody == [live |-> FALSE, leader |-> None, memberList |-> <<>>, inviteList |-> {},
           active |-> FALSE, enabled |-> FALSE, ticks |-> {}]
NewParty(p) == [Nobody EXCEPT !.live = TRUE, !.leader = p]

Init ==
    /\ parties = [g \in Parties |-> Nobody]
    /\ party = [p \in Players |-> None]
    /\ invitePartyList = [p \in Players |-> {}]
    /\ online = Players
    /\ level \in [Players -> Levels]
    /\ room \in [Players -> Rooms]

-----------------------------------------------------------------------------
(* What the operations make of a party.  canUseSharedExperience: range,     *)
(* two thirds of the highest level, and a fight not long ago.               *)
All(g) == {g.leader} \cup ToSet(g.memberList)
Empty(g) == g.memberList = <<>> /\ g.inviteList = {}

CanUse(g, p, lv, rm) ==
    /\ g.memberList # <<>>
    /\ \A q \in All(g) : 3 * lv[p] >= 2 * lv[q]
    /\ rm[p] = rm[g.leader]
    /\ p \in g.ticks
CanEnable(g, lv, rm) == \A p \in All(g) : CanUse(g, p, lv, rm)

UpdatedIn(g, lv, rm) == IF g.active THEN [g EXCEPT !.enabled = CanEnable(g, lv, rm)] ELSE g
Updated(g) == UpdatedIn(g, level, room)

(* clearPlayerPoints.                                                       *)
Cleared(g, p) == IF p \in g.ticks THEN Updated([g EXCEPT !.ticks = @ \ {p}]) ELSE g

(* memberList.erase of what std::find finds first.                          *)
WithoutFirst(s, p) ==
    LET at == CHOOSE i \in DOMAIN s : s[i] = p /\ \A j \in 1..i - 1 : s[j] # p
    IN  IF p \in ToSet(s) THEN RemoveAt(s, at) ELSE s

(* passPartyLeadership: the old leader becomes the first member.            *)
Passed(g, p) ==
    Updated([g EXCEPT !.leader = p, !.memberList = <<g.leader>> \o WithoutFirst(@, p)])

(* A bug: sharing is not looked at again.                                   *)
BadLeftAsleep(g, p) ==
    LET lonely == /\ g.leader = p
                  /\ \/ g.memberList = <<>>
                     \/ Len(g.memberList) = 1 /\ g.inviteList = {}
        passed == IF g.leader = p /\ ~lonely THEN Passed(g, Head(g.memberList)) ELSE g
        without == [passed EXCEPT !.memberList = WithoutFirst(@, p), !.ticks = @ \ {p}]
    IN  [without EXCEPT !.live = ~(lonely \/ Empty(without))]

(* leaveParty: the leader first hands over, unless nobody is there to lead  *)
(* or to be led; the party ends when it is empty.                           *)
Left(g, p) ==
    LET lonely == /\ g.leader = p
                  /\ \/ g.memberList = <<>>
                     \/ Len(g.memberList) = 1 /\ g.inviteList = {}
        passed == IF g.leader = p /\ ~lonely THEN Passed(g, Head(g.memberList)) ELSE g
        without == Cleared(Updated([passed EXCEPT !.memberList = WithoutFirst(@, p)]), p)
    IN  [without EXCEPT !.live = ~(lonely \/ Empty(without))]

(* removeInvite.                                                            *)
Uninvited(g, p) ==
    LET without == [g EXCEPT !.inviteList = @ \ {p}]
    IN  IF p \in g.inviteList THEN [without EXCEPT !.live = ~Empty(without)] ELSE g

(* What parties become, where some players leave theirs and the lists of    *)
(* invitations are as given.  disband: a party that ends is forgotten by    *)
(* those in its lists.                                                      *)
Follow(after, leavers, lists) ==
    LET ended == {k \in Parties : parties[k].live /\ ~after[k].live}
    IN  /\ parties' = [k \in Parties |-> IF after[k].live THEN after[k] ELSE Nobody]
        /\ party' = [p \in Players |->
               IF p \in leavers \/ \E k \in ended : p \in All(after[k]) THEN None ELSE party[p]]
        /\ invitePartyList' = [p \in Players |->
               {k \in lists[p] : ~(k \in ended /\ p \in after[k].inviteList)}]

-----------------------------------------------------------------------------
Leads(p) == party[p] # None /\ parties[party[p]].leader = p
IsInviting(p, q) == Leads(p) /\ q \in parties[party[p]].inviteList

(* Game::playerInviteToParty, into the party p leads or a new one.          *)
InviteToParty(p, q) ==
    /\ {p, q} \subseteq online
    /\ p # q
    /\ ~IsInviting(q, p)
    /\ party[q] = None
    /\ \E k \in Parties :
          /\ IF party[p] = None
             THEN /\ ~parties[k].live
                  /\ parties' = [parties EXCEPT ![k] = [NewParty(p) EXCEPT !.inviteList = {q}]]
             ELSE /\ k = party[p]
                  /\ Leads(p)
                  /\ q \notin parties[k].inviteList
                  /\ parties' = [parties EXCEPT ![k].inviteList = @ \cup {q}]
          /\ party' = [party EXCEPT ![p] = k]
          /\ invitePartyList' = [invitePartyList EXCEPT ![q] = @ \cup {k}]
    /\ UNCHANGED <<online, worldVars>>

(* A bug: the invitation stays with the player.                             *)
BadJoinParty(p, q) ==
    /\ {p, q} \subseteq online
    /\ IsInviting(q, p)
    /\ party[p] = None
    /\ LET k == party[q]
           joined == [parties[k] EXCEPT !.inviteList = @ \ {p}, !.memberList = Append(@, p)]
       IN  /\ parties' = [parties EXCEPT ![k] = Updated(joined)]
           /\ party' = [party EXCEPT ![p] = k]
    /\ UNCHANGED <<invitePartyList, online, worldVars>>

(* Game::playerJoinParty.                                                   *)
JoinParty(p, q) ==
    /\ {p, q} \subseteq online
    /\ IsInviting(q, p)
    /\ party[p] = None
    /\ LET k == party[q]
           joined == [parties[k] EXCEPT !.inviteList = @ \ {p}, !.memberList = Append(@, p)]
       IN  /\ parties' = [parties EXCEPT ![k] = Updated(joined)]
           /\ party' = [party EXCEPT ![p] = k]
           /\ invitePartyList' = [invitePartyList EXCEPT ![p] = @ \ {k}]
    /\ UNCHANGED <<online, worldVars>>

(* Game::playerRevokePartyInvitation.                                       *)
RevokePartyInvitation(p, q) ==
    /\ {p, q} \subseteq online
    /\ IsInviting(p, q)
    /\ LET k == party[p]
       IN  Follow([parties EXCEPT ![k] = Uninvited(@, q)], {},
                  [invitePartyList EXCEPT ![q] = @ \ {k}])
    /\ UNCHANGED <<online, worldVars>>

(* Game::playerPassPartyLeadership.                                         *)
PassPartyLeadership(p, q) ==
    /\ {p, q} \subseteq online
    /\ Leads(p)
    /\ q # p
    /\ party[q] = party[p]
    /\ parties' = [parties EXCEPT ![party[p]] = Passed(@, q)]
    /\ UNCHANGED <<party, invitePartyList, online, worldVars>>

(* Game::playerLeaveParty: one in a fight stays, or does not.               *)
LeaveParty(p) ==
    /\ p \in online
    /\ party[p] # None
    /\ Follow([parties EXCEPT ![party[p]] = Left(@, p)], {p}, invitePartyList)
    /\ UNCHANGED <<online, worldVars>>

(* Party::setSharedExperience.                                              *)
SetSharedExperience(p, sharedExpActive) ==
    /\ p \in online
    /\ Leads(p)
    /\ LET g == parties[party[p]]
       IN  /\ g.active # sharedExpActive
           /\ parties' = [parties EXCEPT ![party[p]] =
                  [g EXCEPT !.active = sharedExpActive,
                            !.enabled = IF sharedExpActive THEN CanEnable(g, level, room) ELSE @]]
    /\ UNCHANGED <<party, invitePartyList, online, worldVars>>

(* Player::onRemoveCreature: the invitations go, then the player.           *)
Logout(p) ==
    /\ p \in online
    /\ LET k == party[p]
           cleared == [j \in Parties |->
                          IF j \in invitePartyList[p] THEN Uninvited(parties[j], p) ELSE parties[j]]
           left == IF k = None THEN cleared ELSE [cleared EXCEPT ![k] = Left(@, p)]
       IN  Follow(left, {p}, [invitePartyList EXCEPT ![p] = {}])
    /\ online' = online \ {p}
    /\ UNCHANGED worldVars

Login(p) ==
    /\ p \notin online
    /\ online' = online \cup {p}
    /\ UNCHANGED <<parties, party, invitePartyList, worldVars>>

(* A fight, the end of one (Player::onIdleStatus), a move and a new level.  *)
Fight(p) ==
    /\ p \in online
    /\ party[p] # None
    /\ LET g == parties[party[p]]
       IN  parties' = [parties EXCEPT ![party[p]] = Updated([g EXCEPT !.ticks = @ \cup {p}])]
    /\ UNCHANGED <<party, invitePartyList, online, worldVars>>

IdleStatus(p) ==
    /\ p \in online
    /\ party[p] # None
    /\ parties' = [parties EXCEPT ![party[p]] = Cleared(@, p)]
    /\ UNCHANGED <<party, invitePartyList, online, worldVars>>

(* Time passes: a fight is too long ago.  Nothing looks at that.            *)
FightIsLongAgo(p) ==
    /\ party[p] # None
    /\ parties' = [parties EXCEPT ![party[p]].ticks = @ \ {p}]
    /\ UNCHANGED <<party, invitePartyList, online, worldVars>>

UpdateOwn(p) ==
    parties' = IF party[p] = None THEN parties
               ELSE [parties EXCEPT ![party[p]] = UpdatedIn(@, level', room')]

CreatureMove(p, to) ==
    /\ p \in online
    /\ to # room[p]
    /\ room' = [room EXCEPT ![p] = to]
    /\ UNCHANGED level
    /\ UpdateOwn(p)
    /\ UNCHANGED <<party, invitePartyList, online>>

ChangeLevel(p, to) ==
    /\ p \in online
    /\ to # level[p]
    /\ level' = [level EXCEPT ![p] = to]
    /\ UNCHANGED room
    /\ UpdateOwn(p)
    /\ UNCHANGED <<party, invitePartyList, online>>

-----------------------------------------------------------------------------
Next ==
    \/ \E p, q \in Players :
          InviteToParty(p, q) \/ JoinParty(p, q) \/ RevokePartyInvitation(p, q)
             \/ PassPartyLeadership(p, q)
    \/ \E p \in Players :
          LeaveParty(p) \/ Logout(p) \/ Login(p) \/ Fight(p) \/ IdleStatus(p) \/ FightIsLongAgo(p)
    \/ \E p \in Players, b \in BOOLEAN : SetSharedExperience(p, b)
    \/ \E p \in Players, to \in Rooms : CreatureMove(p, to)
    \/ \E p \in Players, to \in Levels : ChangeLevel(p, to)

Spec == Init /\ [][Next]_vars

-----------------------------------------------------------------------------
Groups ==
    [live : BOOLEAN, leader : Players \cup {None},
     memberList : Seq(Players), inviteList : SUBSET Players,
     active : BOOLEAN, enabled : BOOLEAN, ticks : SUBSET Players]

TypeOK ==
    /\ parties \in [Parties -> Groups]
    /\ party \in [Players -> Parties \cup {None}]
    /\ invitePartyList \in [Players -> SUBSET Parties]
    /\ online \subseteq Players
    /\ level \in [Players -> Levels]
    /\ room \in [Players -> Rooms]

(* A party that shares experience and may do so does: whatever one of its   *)
(* members does that makes it possible is noticed.                          *)
SharingNotWithheld ==
    \A k \in Parties :
        LET g == parties[k]
        IN  g.live /\ g.active /\ CanEnable(g, level, room) => g.enabled

(* A player points to a party exactly when it counts him as its leader or   *)
(* as one of its members, once; he knows exactly the parties that invite    *)
(* him, and is in none of them already; a party nobody could join or leave  *)
(* any more is gone; and who left the game is in no party and in no list.   *)
PartyIsMutual ==
    \A k \in Parties :
        LET g == parties[k]
        IN  /\ \A p \in Players : party[p] = k <=> g.live /\ p \in All(g)
            /\ IsInjective(g.memberList) /\ g.leader \notin ToSet(g.memberList)
InvitationsMutual ==
    \A k \in Parties, p \in Players :
        /\ k \in invitePartyList[p] <=> parties[k].live /\ p \in parties[k].inviteList
        /\ k \in invitePartyList[p] => party[p] # k
NobodyAlone == \A k \in Parties : parties[k].live => ~Empty(parties[k])
OfflineInNone == \A p \in Players \ online : party[p] = None /\ invitePartyList[p] = {}
PartiesSound ==
    /\ PartyIsMutual
    /\ InvitationsMutual
    /\ NobodyAlone
    /\ SharingNotWithheld
    /\ OfflineInNone

Led == \A k \in Parties : parties[k].live => parties[k].leader \in Players
PartyInv == TypeOK /\ PartiesSound /\ Led
=============================================================================
