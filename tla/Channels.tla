------------------------------ MODULE Channels -------------------------------
(***************************************************************************)
(* Chat channels and guilds (chat.cpp, guild.cpp, game.cpp, player.cpp): a *)
(* channel for everybody, one for each party and guild, and private ones   *)
(* with an owner and invitations.  All of them and the guilds hold bare    *)
(* pointers to players.  Parties come and go as Party has it; a new one    *)
(* may get the address of one that was deleted.                            *)
(***************************************************************************)
EXTENDS Integers, FiniteSets

CONSTANTS
    Talkers, PartyObjects, Guilds,
    Rankless,       \* the guilds that have no rank of level 1
    Noone,          \* a null pointer, and no owner
    PrivateIds,     \* numbers of private channels
    MaxRequests     \* bound: requests in one history

ASSUME ChannelsAssumption ==
    /\ Noone \notin Talkers \cup PartyObjects \cup Guilds
    /\ Rankless \subseteq Guilds /\ PrivateIds \subseteq Nat /\ MaxRequests \in Nat

VARIABLES
    inGame,         \* the players in the game
    myParty,          \* Player::party
    myGuild,          \* Player::guild
    loaded,         \* Game::guilds
    membersOnline,  \* Guild::membersOnline
    lost,           \* the guilds whose membersOnline has a player who is deleted
    refusals,       \* history: who was refused by a guild while in which other
    users,          \* ChatChannel::users of normalChannels, partyChannels and guildChannels
    private,        \* privateChannels
    requests        \* the requests so far

chatVars == <<inGame, myParty, myGuild, loaded, membersOnline, lost, refusals, users, private, requests>>

Everybody == "everybody"
Common == {Everybody} \cup PartyObjects \cup Guilds
NoChannel == [owner |-> Noone, invites |-> {}, users |-> {}]
NoUsers == [made |-> FALSE, in |-> {}]

ChatInit ==
    /\ inGame = {}
    /\ myParty = [p \in Talkers |-> Noone]
    /\ myGuild = [p \in Talkers |-> Noone]
    /\ loaded = {}
    /\ membersOnline = [g \in Guilds |-> {}]
    /\ lost = {} /\ refusals = {}
    /\ users = [c \in Common |-> [NoUsers EXCEPT !.made = (c = Everybody)]]
    /\ private = [i \in PrivateIds |-> NoChannel]
    /\ requests = 0

-----------------------------------------------------------------------------
IsInvited(i, p) == p = private[i].owner \/ p \in private[i].invites

(* Chat::getChannel of a party, a guild or everybody, and of a private one. *)
OfMine(p, c) == users[c].made /\ c \in {Everybody, myParty[p], myGuild[p]}
OpenTo(p, i) == private[i].owner # Noone /\ IsInvited(i, p)

(* Chat::getChannelList makes the channels of the player's party and guild. *)
RequestChannels(p) ==
    /\ p \in inGame
    /\ users' = [c \in Common |-> IF c \in {myParty[p], myGuild[p]} THEN [users[c] EXCEPT !.made = TRUE] ELSE users[c]]
    /\ UNCHANGED <<inGame, myParty, myGuild, loaded, membersOnline, lost, refusals, private>>

(* Chat::addUserToChannel; the script of a channel may refuse.              *)
OpenChannel(p, c) ==
    /\ p \in inGame /\ OfMine(p, c)
    /\ users' = [users EXCEPT ![c].in = @ \cup {p}]
    /\ UNCHANGED <<inGame, myParty, myGuild, loaded, membersOnline, lost, refusals, private>>

OpenPrivate(p, i) ==
    /\ p \in inGame /\ OpenTo(p, i)
    /\ private' = [private EXCEPT ![i].users = @ \cup {p}]
    /\ UNCHANGED <<inGame, myParty, myGuild, loaded, membersOnline, lost, refusals, users>>

(* Chat::removeUserFromChannel; the owner of a private one closes it.       *)
CloseChannel(p, c) ==
    /\ p \in inGame /\ OfMine(p, c)
    /\ users' = [users EXCEPT ![c].in = @ \ {p}]
    /\ UNCHANGED <<inGame, myParty, myGuild, loaded, membersOnline, lost, refusals, private>>

ClosePrivate(p, i) ==
    /\ p \in inGame /\ OpenTo(p, i) /\ p \in private[i].users
    /\ private' = [private EXCEPT ![i] =
                     IF private[i].owner = p THEN NoChannel
                     ELSE [private[i] EXCEPT !.users = private[i].users \ {p}]]
    /\ UNCHANGED <<inGame, myParty, myGuild, loaded, membersOnline, lost, refusals, users>>

(* playerCreatePrivateChannel: one for each player, in the first slot.      *)
CreatePrivate(p) ==
    LET free == {i \in PrivateIds : private[i].owner = Noone}
    IN  /\ p \in inGame /\ \A i \in PrivateIds : private[i].owner # p
        /\ \E i \in free :
             /\ \A j \in free : i <= j
             /\ private' = [private EXCEPT ![i] = [owner |-> p, invites |-> {}, users |-> {p}]]
        /\ UNCHANGED <<inGame, myParty, myGuild, loaded, membersOnline, lost, refusals, users>>

(* playerChannelInvite and playerChannelExclude.                            *)
ChannelInvite(p, q, i) ==
    /\ {p, q} \subseteq inGame /\ p # q /\ private[i].owner = p
    /\ private' = [private EXCEPT ![i].invites = @ \cup {q}]
    /\ UNCHANGED <<inGame, myParty, myGuild, loaded, membersOnline, lost, refusals, users>>

BadChannelExclude(p, q, i) ==
    /\ {p, q} \subseteq inGame /\ p # q /\ private[i].owner = p /\ q \in private[i].invites
    /\ private' = [private EXCEPT ![i].invites = @ \ {q}]
    /\ UNCHANGED <<inGame, myParty, myGuild, loaded, membersOnline, lost, refusals, users>>

ChannelExclude(p, q, i) ==
    /\ {p, q} \subseteq inGame /\ p # q /\ private[i].owner = p /\ q \in private[i].invites
    /\ private' = [private EXCEPT ![i].invites = @ \ {q}, ![i].users = @ \ {q}]
    /\ UNCHANGED <<inGame, myParty, myGuild, loaded, membersOnline, lost, refusals, users>>

-----------------------------------------------------------------------------
(* Party::leaveParty and disband clear Player::party before they call       *)
(* Player::sendClosePrivate, which then finds no channel to leave.          *)
ChangeParty(p, g) ==
    /\ p \in inGame /\ g # myParty[p]
    /\ myParty' = [myParty EXCEPT ![p] = g]
    /\ UNCHANGED <<inGame, myGuild, loaded, membersOnline, lost, refusals, users, private>>

(* Chat::removeUserFromAllChannels.                                         *)
OutOfAllChannels(p) ==
    /\ users' = [c \in Common |-> [users[c] EXCEPT !.in = @ \ {p}]]
    /\ private' = [i \in PrivateIds |->
                     IF private[i].owner = p THEN NoChannel
                     ELSE [private[i] EXCEPT !.invites = @ \ {p}, !.users = @ \ {p}]]

(* IOLoginData::loadPlayer loads the guild, Player::onCreatureAppear joins. *)
ChatLogin(p, g) ==
    /\ p \notin inGame
    /\ inGame' = inGame \cup {p}
    /\ myGuild' = [myGuild EXCEPT ![p] = g]
    /\ loaded' = loaded \cup ({g} \ {Noone})
    /\ membersOnline' = [h \in Guilds |-> IF h = g THEN membersOnline[h] \cup {p} ELSE membersOnline[h]]
    /\ UNCHANGED <<myParty, lost, refusals, users, private>>

(* A letter or the rent loads a player who is not in the game.              *)
LoadOffline(p, g) ==
    /\ p \notin inGame /\ g # Noone
    /\ loaded' = loaded \cup {g}
    /\ UNCHANGED <<inGame, myParty, myGuild, membersOnline, lost, refusals, users, private>>

(* Guild::removeMember deletes the guild with its last member online; one   *)
(* who is deleted still counts there.                                       *)
WithoutMember(m, g, p) == [h \in Guilds |-> IF h = g THEN m[h] \ {p} ELSE m[h]]
Deleted(m, g) == IF g # Noone /\ g \notin lost /\ m[g] = {} THEN loaded \ {g} ELSE loaded

(* Player::setGuild.  Without a rank to give, it returns before the guild   *)
(* the player was in takes him off its list.                                *)
JoinGuild(p, g) ==
    LET joined == [h \in Guilds |-> IF h = g THEN membersOnline[h] \cup {p} ELSE membersOnline[h]]
    IN  /\ g \notin Rankless
        /\ myGuild' = [myGuild EXCEPT ![p] = g]
        /\ membersOnline' = WithoutMember(joined, myGuild[p], p)
        /\ loaded' = Deleted(membersOnline', myGuild[p])
        /\ UNCHANGED <<lost, refusals>>

FindNoRank(p, g) ==
    /\ g \in Rankless
    /\ myGuild' = [myGuild EXCEPT ![p] = Noone]
    /\ refusals' = refusals \cup ({p} \X ({myGuild[p]} \ {Noone}))
    /\ UNCHANGED <<loaded, membersOnline, lost>>

SetGuild(p, g) ==
    /\ p \in inGame /\ g # myGuild[p] /\ g \in loaded \cup {Noone}
    /\ JoinGuild(p, g) \/ FindNoRank(p, g)
    /\ UNCHANGED <<inGame, myParty, users, private>>

(* A new connection takes the player over; and Player::onRemoveCreature,    *)
(* with the end of the player: the guild he is in takes him off, any other  *)
(* that still lists him keeps a pointer to nothing.                         *)
ChatRelogin(p) ==
    /\ p \in inGame
    /\ OutOfAllChannels(p)
    /\ UNCHANGED <<inGame, myParty, myGuild, loaded, membersOnline, lost, refusals>>

ChatLogout(p) ==
    /\ p \in inGame
    /\ inGame' = inGame \ {p}
    /\ myParty' = [myParty EXCEPT ![p] = Noone]
    /\ OutOfAllChannels(p)
    /\ myGuild' = [myGuild EXCEPT ![p] = Noone]
    /\ membersOnline' = [g \in Guilds |-> membersOnline[g] \ {p}]
    /\ lost' = lost \cup {g \in Guilds \ {myGuild[p]} : p \in membersOnline[g]}
    /\ loaded' = Deleted(membersOnline', myGuild[p])
    /\ UNCHANGED refusals

RequestOf(p) ==
    \/ RequestChannels(p) \/ CreatePrivate(p) \/ ChatRelogin(p) \/ ChatLogout(p)
    \/ \E c \in Common : OpenChannel(p, c) \/ CloseChannel(p, c)
    \/ \E i \in PrivateIds : OpenPrivate(p, i) \/ ClosePrivate(p, i)
    \/ \E q \in Talkers, i \in PrivateIds : ChannelInvite(p, q, i) \/ ChannelExclude(p, q, i)
    \/ \E g \in PartyObjects \cup {Noone} : ChangeParty(p, g)
    \/ \E g \in Guilds \cup {Noone} : ChatLogin(p, g) \/ LoadOffline(p, g) \/ SetGuild(p, g)
Request == \E p \in Talkers : RequestOf(p)

ChatNext == requests < MaxRequests /\ requests' = requests + 1 /\ Request

ChatSpec == ChatInit /\ [][ChatNext]_chatVars

-----------------------------------------------------------------------------
ChatTypeOK ==
    /\ inGame \subseteq Talkers
    /\ myParty \in [Talkers -> PartyObjects \cup {Noone}]
    /\ myGuild \in [Talkers -> Guilds \cup {Noone}]
    /\ loaded \subseteq Guilds
    /\ membersOnline \in [Guilds -> SUBSET Talkers]
    /\ lost \subseteq Guilds /\ refusals \subseteq Talkers \X Guilds
    /\ users \in [Common -> [made : BOOLEAN, in : SUBSET Talkers]]
    /\ private \in [PrivateIds -> [owner : Talkers \cup {Noone},
                                   invites : SUBSET Talkers, users : SUBSET Talkers]]
    /\ requests \in Nat

(* Every pointer to a player that a channel keeps is to one in the game,    *)
(* also after a relogin or a logout (Chat::removeUserFromAllChannels); only *)
(* the owner and those invited now hear what is said in a private channel,  *)
(* which lives no longer than its owner stays in it (PrivateChatChannel::   *)
(* excludePlayer); the guild a player points to is loaded and counts him    *)
(* in; and a guild counts nobody else, except whom another guild without a  *)
(* rank to give refused while he was in it (the early return of             *)
(* Player::setGuild): only such a guild can be left with a player who is    *)
(* deleted.                                                                 *)
CommonSound == \A c \in Common : users[c].in \subseteq inGame
PrivateSound ==
    \A i \in PrivateIds :
       /\ private[i].owner # Noone =>
            /\ private[i].owner \in private[i].users
            /\ private[i].users \subseteq private[i].invites \cup {private[i].owner}
            /\ \A j \in PrivateIds \ {i} : private[j].owner # private[i].owner
       /\ private[i].users \cup private[i].invites \subseteq inGame
GuildsSound ==
    /\ \A p \in Talkers : myGuild[p] # Noone => myGuild[p] \in loaded /\ p \in membersOnline[myGuild[p]]
    /\ \A g \in Guilds : membersOnline[g] \subseteq {p \in inGame : myGuild[p] = g \/ <<p, g>> \in refusals}
    /\ lost \subseteq {g \in Guilds : \E p \in Talkers : <<p, g>> \in refusals}
    /\ Rankless = {} => refusals = {}
MembersSound == CommonSound /\ PrivateSound /\ GuildsSound

ChatInv == ChatTypeOK /\ MembersSound
=============================================================================
