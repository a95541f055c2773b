------------------------------ MODULE Creatures ------------------------------
(***************************************************************************)
(* Creatures that see, follow and attack each other (creature.cpp,         *)
(* monster.cpp, game.cpp, map.cpp): the friends and targets of a monster,  *)
(* whether it is idle, whom a creature attacks and follows, masters and    *)
(* their summons, deaths, and the references that keep all of them alive.  *)
(* Places lie on a line.  Whoever a script or a formula chooses is any     *)
(* creature; parties, invisibility, zones and conditions are left out.     *)
(***************************************************************************)
EXTENDS Integers, Sequences, FiniteSets, SequencesExt, FiniteSetsExt, Functions, Once

CONSTANTS
    Players, Monsters,
    NoOne,
    Ignored,          \* players with PlayerFlag_IgnoredByMonsters
    Chasing,          \* players in chase mode
    Spots,            \* places
    Sight,            \* how far a creature sees
    Watch,            \* how far the spectators of a move stand
    Leash,            \* how far a summon gets from its master
    Roam,             \* Monster::despawnRadius
    RemoveOnDespawn,  \* configuration
    Openings,         \* <<player, monster, its place, the player's>> to start with
    Orders,           \* orders in which spectators are told
    MaxTurns         \* bound: what happens in one history

ASSUME CreaturesAssumption ==
    /\ Players \cap Monsters = {} /\ NoOne \notin Players \cup Monsters
    /\ Sight <= Watch /\ RemoveOnDespawn \in BOOLEAN /\ MaxTurns \in Nat

VARIABLES
    zoo,      \* the creatures, a record of functions of the creature
    turns    \* how much has happened so far

zooVars == <<zoo, turns>>

Creatures == Players \cup Monsters
Dist(a, b) == IF a < b THEN b - a ELSE a - b

InWorldNow(d, x) == d.state[x] = "in"
SeesSpot(d, x, pos) == Dist(d.at[x], pos) <= Sight
Sees(d, x, y) == SeesSpot(d, x, d.at[y])
Spectators(d, pos) == {x \in Creatures : InWorldNow(d, x) /\ Dist(d.at[x], pos) <= Watch}
Summons(d, x) == {y \in Creatures : d.master[y] = x}
IsSummon(d, x) == d.master[x] # NoOne

(* Op(v, x) for one x of S after the other.                                 *)
OneByOne(d, o, S, Op(_, _)) ==
    FoldLeft(LAMBDA v, x : With(v, LAMBDA u : Op(u, x)), d, SelectSeq(o, LAMBDA x : x \in S))

Each(d, S, Op(_, _)) == FoldSet(LAMBDA x, v : With(v, LAMBDA u : Op(u, x)), d, S)

MasterIsPlayer(d, x) == d.master[x] \in Players

IsFriend(d, x, y) ==
    IF MasterIsPlayer(d, x) THEN d.master[x] = IF y \in Players THEN y ELSE d.master[y]
    ELSE y \in Monsters /\ ~IsSummon(d, y)

IsOpponent(d, x, y) ==
    IF MasterIsPlayer(d, x) THEN y # d.master[x]
    ELSE y \in Players \ Ignored \/ MasterIsPlayer(d, y)

-----------------------------------------------------------------------------
(* setFollowCreature and setAttackedCreature of creatures and players.      *)
RECURSIVE SetAttacked(_, _, _)
SetAttacked(d, x, t) ==
    LET passed == Each([d EXCEPT !.attacks[x] = t], Summons(d, x), LAMBDA v, y : SetAttacked(v, y, t))
    IN  IF t # NoOne /\ ~Sees(d, x, t) THEN [d EXCEPT !.attacks[x] = NoOne]
        ELSE IF x \in Monsters THEN passed
        ELSE [passed EXCEPT !.follows[x] = IF x \in Chasing THEN t ELSE NoOne]

SetFollow(d, x, t) ==
    IF t = NoOne \/ t = d.follows[x] \/ Sees(d, x, t) THEN [d EXCEPT !.follows[x] = t]
    ELSE IF x \in Monsters THEN [d EXCEPT !.follows[x] = NoOne]
    ELSE SetAttacked([d EXCEPT !.follows[x] = NoOne], x, NoOne)

SelectTarget(d, x, t) ==
    IF InWorldNow(d, t) /\ t \in d.targets[x] THEN SetFollow(SetAttacked(d, x, t), x, t) ELSE d

(* Creature::onCreatureDisappear.                                           *)
Lost(d, x, y) ==
    With(IF d.attacks[x] = y THEN SetAttacked(d, x, NoOne) ELSE d,
         LAMBDA v : IF v.follows[x] = y THEN SetFollow(v, x, NoOne) ELSE v)

-----------------------------------------------------------------------------
(* References: the last one deletes a creature, its lists with it.          *)
RECURSIVE Unref(_, _)
Unref(d, x) ==
    LET less == [d EXCEPT !.refs[x] = @ - 1]
        bare == [less EXCEPT !.state[x] = "freed", !.targets[x] = {}, !.friends[x] = {}]
        cleared == Each(Each(bare, d.targets[x], Unref), d.friends[x], Unref)
        Free(v, y) == Unref([SetAttacked(v, y, NoOne) EXCEPT !.master[y] = NoOne], y)
    IN  IF less.refs[x] > 0 THEN less
        ELSE Each(cleared, Summons(d, x), Free)

SetMaster(d, x, m) ==
    IF m # NoOne THEN [d EXCEPT !.master[x] = m, !.refs[x] = IF IsSummon(d, x) THEN @ ELSE @ + 1]
    ELSE IF IsSummon(d, x) THEN Unref([d EXCEPT !.master[x] = NoOne], x) ELSE d

AddFriend(d, x, y) ==
    IF y \in d.friends[x] THEN d ELSE [d EXCEPT !.friends[x] = @ \cup {y}, !.refs[y] = @ + 1]
AddTarget(d, x, y) ==
    IF y \in d.targets[x] THEN d ELSE [d EXCEPT !.targets[x] = @ \cup {y}, !.refs[y] = @ + 1]
RemoveFriend(d, x, y) ==
    IF y \in d.friends[x] THEN Unref([d EXCEPT !.friends[x] = @ \ {y}], y) ELSE d
RemoveTarget(d, x, y) ==
    IF y \in d.targets[x] THEN Unref([d EXCEPT !.targets[x] = @ \ {y}], y) ELSE d

ClearLists(d, x) ==
    Each(Each(d, d.targets[x], LAMBDA v, y : RemoveTarget(v, x, y)),
         d.friends[x], LAMBDA v, y : RemoveFriend(v, x, y))

-----------------------------------------------------------------------------
(* Being awake: Game::addCreatureCheck, removeCreatureCheck, setIdle.       *)
AddCheck(d, x) ==
    [d EXCEPT !.check[x] = TRUE, !.listed[x] = TRUE, !.refs[x] = IF d.listed[x] THEN @ ELSE @ + 1]
RemoveCheck(d, x) == [d EXCEPT !.check[x] = @ /\ ~d.listed[x]]

SetIdle(d, x, idle) ==
    IF ~InWorldNow(d, x) \/ ~d.alive[x] THEN d
    ELSE IF idle THEN RemoveCheck(ClearLists([d EXCEPT !.idle[x] = TRUE], x), x)
    ELSE AddCheck([d EXCEPT !.idle[x] = FALSE], x)

UpdateIdle(d, x) == SetIdle(d, x, ~IsSummon(d, x) /\ d.targets[x] = {})

-----------------------------------------------------------------------------
(* What a monster takes notice of.                                          *)
MeetFriend(d, x, y) == IF IsFriend(d, x, y) THEN AddFriend(d, x, y) ELSE d
MeetOpponent(d, x, y) == IF IsOpponent(d, x, y) THEN AddTarget(d, x, y) ELSE d
Meet(d, x, y) == With(MeetFriend(d, x, y), LAMBDA v : MeetOpponent(v, x, y))

Found(d, x, y) ==
    IF Sees(d, x, y) THEN With(Meet(d, x, y), LAMBDA v : UpdateIdle(v, x)) ELSE d

LoseFriend(d, x, y) == IF IsFriend(d, x, y) THEN RemoveFriend(d, x, y) ELSE d

BadLeaves(d, x, y) ==
    With(LoseFriend(d, x, y),
         LAMBDA v : IF IsOpponent(v, x, y) THEN UpdateIdle([v EXCEPT !.targets[x] = @ \ {y}], x) ELSE v)

Leaves(d, x, y) ==
    With(LoseFriend(d, x, y),
         LAMBDA v : IF IsOpponent(v, x, y)
                    THEN With(RemoveTarget(v, x, y), LAMBDA u : UpdateIdle(u, x)) ELSE v)

UpdateTargetList(d, x, o) ==
    LET stays(y) == d.alive[y] /\ Sees(d, x, y)
        Friends(v) == OneByOne(v, o, {y \in d.friends[x] : ~stays(y)}, LAMBDA u, y : RemoveFriend(u, x, y))
        Targets(v) == OneByOne(v, o, {y \in d.targets[x] : ~stays(y)}, LAMBDA u, y : RemoveTarget(u, x, y))
    IN  OneByOne(Targets(Friends(d)), o, Spectators(d, d.at[x]) \ {x}, LAMBDA v, y : Found(v, x, y))

(* onCreatureAppear of a spectator, and Game::placeCreature.                *)
Appears(d, x, c, o) ==
    IF x \in Players THEN d
    ELSE IF x = c THEN UpdateIdle(UpdateTargetList(d, x, o), x)
    ELSE Found(d, x, c)

PlaceCreature(d, c, pos, o) ==
    LET placed == [d EXCEPT !.state[c] = "in", !.at[c] = pos, !.alive[c] = TRUE, !.refs[c] = 1]
    IN  AddCheck(OneByOne(placed, o, Spectators(placed, pos), LAMBDA v, x : Appears(v, x, c, o)), c)

(* onRemoveCreature of a spectator, and Game::removeCreature.               *)
LeaveMaster(d, x) ==
    IF IsSummon(d, x) /\ InWorldNow(d, d.master[x]) THEN SetMaster(d, x, NoOne) ELSE d

Removes(d, x, c) ==
    With(Lost(d, x, c),
         LAMBDA v : IF x # c THEN IF x \in Players THEN v ELSE Leaves(v, x, c)
                    ELSE With(LeaveMaster(v, x),
                              LAMBDA u : IF x \in Players THEN u ELSE SetIdle(u, x, TRUE)))

RECURSIVE RemoveCreature(_, _, _)
RemoveCreature(d, c, o) ==
    LET Gone(v) == RemoveCheck([v EXCEPT !.state[c] = "removed", !.release[c] = @ + 1], c)
        WithSummons(v) == OneByOne(Gone(v), o, Summons(v, c), LAMBDA u, x : RemoveCreature(u, x, o))
    IN  IF ~InWorldNow(d, c) THEN d
        ELSE With(OneByOne(d, o, Spectators(d, d.at[c]), LAMBDA v, x : Removes(v, x, c)), WithSummons)

(* onCreatureMove of a spectator, and Map::moveCreature.  t is whoever may  *)
(* stand in the way of the one that x follows.                              *)
MovesCreature(d, x, c, o) ==
    LET far == {y \in Summons(d, x) : Dist(d.at[x], d.at[y]) > Leash}
        LoseSight(v, y) == IF y # NoOne /\ c \in {x, y} /\ ~Sees(v, x, y) THEN Lost(v, x, y) ELSE v
    IN  With(IF x = c THEN OneByOne(d, o, far, LAMBDA v, y : RemoveCreature(v, y, o)) ELSE d,
             LAMBDA v : With(LoseSight(v, v.follows[x]), LAMBDA u : LoseSight(u, u.attacks[x])))

MovesMonster(d, x, c, from, t) ==
    LET now == Sees(d, x, c)   before == SeesSpot(d, x, from)
        Turns(v) == IF v.follows[x] = NoOne THEN c
                    ELSE IF t # v.follows[x] /\ t # NoOne /\ Sees(v, x, t) THEN t ELSE NoOne
        Heeds(v, y) == IF y # NoOne /\ IsOpponent(v, x, y) THEN SelectTarget(v, x, y) ELSE v
    IN  With(IF now /\ ~before THEN Found(d, x, c) ELSE IF before /\ ~now THEN Leaves(d, x, c) ELSE d,
             LAMBDA v : With(UpdateIdle(v, x),
                             LAMBDA u : IF IsSummon(u, x) THEN u ELSE Heeds(u, Turns(u))))

Moves(d, x, c, from, t, o) ==
    With(MovesCreature(d, x, c, o),
         LAMBDA a : IF x \in Players THEN a
                    ELSE IF x = c THEN With(UpdateTargetList(a, x, o), LAMBDA v : UpdateIdle(v, x))
                    ELSE MovesMonster(a, x, c, from, t))

MoveCreature(d, c, to, t, o) ==
    OneByOne([d EXCEPT !.at[c] = to], o,
             Spectators(d, d.at[c]) \cup Spectators(d, to) \cup {c},
             LAMBDA v, x : Moves(v, x, c, d.at[c], t, o))

-----------------------------------------------------------------------------
(* Monster::onThink, after it has walked on towards the one it follows:     *)
(* goToFollowCreature may find no way.                                      *)
Hunts(d, x, t) ==
    LET m == d.master[x]   y == d.attacks[x]
        own == IF IsSummon(d, x) THEN NoOne ELSE IF t \in d.targets[x] \ {d.follows[x]} THEN t ELSE NoOne
        target == IF IsSummon(d, x) /\ y = NoOne THEN d.attacks[m] ELSE own
        followed == IF y = NoOne THEN m ELSE IF y = x THEN NoOne ELSE y
    IN  IF d.idle[x] THEN d
        ELSE IF target # NoOne THEN SelectTarget(d, x, target)
        ELSE IF IsSummon(d, x) THEN SetFollow(d, x, followed) ELSE d

Thinks(d, x, t, noWay, o) ==
    LET home(v) == SetIdle(MoveCreature(v, x, v.home[x], t, o), x, TRUE)
        Goes(v) == IF d.home[x] = 0 \/ Dist(d.at[x], d.home[x]) <= Roam
                   THEN With(UpdateIdle(v, x), LAMBDA u : Hunts(u, x, t))
                   ELSE IF RemoveOnDespawn THEN RemoveCreature(v, x, o)
                   ELSE [With(v, home) EXCEPT !.sent[x] = TRUE]
    IN  IF x \in Players THEN d
        ELSE With(IF noWay /\ IsSummon(d, x) THEN RemoveTarget(d, x, d.follows[x]) ELSE d, Goes)

(* Game::cleanup, as far as creatures go, and checkCreatures.               *)
RECURSIVE Unrefs(_, _, _)
Unrefs(d, x, n) == IF n = 0 THEN d ELSE Unrefs(Unref(d, x), x, n - 1)
CleanedUp(d) ==
    Each([d EXCEPT !.release = [x \in Creatures |-> 0]], {x \in Creatures : d.release[x] > 0},
         LAMBDA v, x : Unrefs(v, x, d.release[x]))

Checked(d, x, t, noWay, o) ==
    IF ~d.check[x] THEN [d EXCEPT !.listed[x] = FALSE, !.release[x] = @ + 1]
    ELSE IF d.alive[x] THEN Thinks(d, x, t, noWay, o) ELSE d

(* changeHealth down to nothing, and Creature::onDeath.                     *)
Slain(d, x) ==
    LET a == IF x \in Monsters THEN SetIdle(d, x, FALSE) ELSE d
    IN  [a EXCEPT !.alive[x] = FALSE, !.dying = @ \cup {x}]

Dies(d, c, o) ==
    LET Unfollowed(v, y) == With(Slain(v, y), LAMBDA u : SetMaster(u, y, NoOne))
        Bereft(v) == ClearLists(OneByOne(v, o, Summons(d, c), Unfollowed), c)
        Freed(v) == SetMaster(v, c, NoOne)
    IN  With(Freed(IF c \in Monsters THEN Bereft(SetAttacked(d, c, NoOne)) ELSE d),
             LAMBDA v : RemoveCreature(v, c, o))

-----------------------------------------------------------------------------
Empty ==
    [state |-> [x \in Creatures |-> "new"], at |-> [x \in Creatures |-> 0],
     alive |-> [x \in Creatures |-> TRUE], master |-> [x \in Creatures |-> NoOne],
     friends |-> [x \in Creatures |-> {}], targets |-> [x \in Creatures |-> {}],
     attacks |-> [x \in Creatures |-> NoOne], follows |-> [x \in Creatures |-> NoOne],
     idle |-> [x \in Creatures |-> TRUE], check |-> [x \in Creatures |-> FALSE],
     listed |-> [x \in Creatures |-> FALSE], release |-> [x \in Creatures |-> 0],
     refs |-> [x \in Creatures |-> 0], home |-> [x \in Creatures |-> 0],
     sent |-> [x \in Creatures |-> FALSE], dying |-> {}]

(* A monster was spawned and a player came, near to it or not.              *)
Opened(opening, o) ==
    LET p == opening[1]   m == opening[2]   i == opening[3]   j == opening[4]
    IN  With(PlaceCreature([Empty EXCEPT !.home[m] = i], m, i, o), LAMBDA d : PlaceCreature(d, p, j, o))

ZooInit ==
    /\ \E opening \in Openings, o \in Orders : zoo = Opened(opening, o)
    /\ turns = 0

New(x) == zoo.state[x] = "new"
Lives(x) == InWorldNow(zoo, x) /\ zoo.alive[x]
Anybody == {NoOne} \cup {x \in Creatures : InWorldNow(zoo, x)}

Login(x, pos, o) == x \in Players /\ New(x) /\ zoo' = PlaceCreature(zoo, x, pos, o)

SpawnMonster(x, pos, o) ==
    x \in Monsters /\ New(x) /\ zoo' = PlaceCreature([zoo EXCEPT !.home[x] = pos], x, pos, o)

Summon(m, x, o) ==
    /\ x \in Monsters /\ New(x) /\ Lives(m)
    /\ zoo' = SetMaster(PlaceCreature(zoo, x, zoo.at[m], o), x, m)

(* A script makes a monster the summon of another creature.                 *)
Convince(m, x) ==
    /\ x \in Monsters /\ m # x /\ Lives(m) /\ Lives(x) /\ Summons(zoo, x) = {}
    /\ zoo' = SetMaster(zoo, x, m)

Walk(x, pos, t, o) ==
    Lives(x) /\ Dist(zoo.at[x], pos) = 1 /\ zoo' = CleanedUp(MoveCreature(zoo, x, pos, t, o))

Teleport(x, pos, t, o) ==
    Lives(x) /\ Dist(zoo.at[x], pos) > 1 /\ zoo' = MoveCreature(zoo, x, pos, t, o)

Attack(x, t) ==
    /\ x \in Players /\ InWorldNow(zoo, x) /\ x # t
    /\ zoo' = SetAttacked(zoo, x, t)

Follow(x, t) ==
    /\ x \in Players /\ InWorldNow(zoo, x) /\ t \notin {NoOne, x}
    /\ zoo' = SetFollow(SetAttacked(zoo, x, NoOne), x, t)

Slay(x) == Lives(x) /\ zoo' = Slain(zoo, x)

ExecuteDeath(x, o) ==
    /\ x \in zoo.dying
    /\ LET d == [zoo EXCEPT !.dying = @ \ {x}]
       IN  zoo' = IF InWorldNow(d, x) THEN Dies(d, x, o) ELSE d

Vanish(x, o) == InWorldNow(zoo, x) /\ zoo' = RemoveCreature(zoo, x, o)

(* One of the lists; a creature is put in any of them, and in another one   *)
(* the next time.                                                           *)
CheckCreatures(S, t, noWay, o) ==
    /\ S # {} /\ \A x \in S : zoo.listed[x]
    /\ noWay => \E x \in S : IsSummon(zoo, x)
    /\ zoo' = CleanedUp(OneByOne(zoo, o, S, LAMBDA v, x : Checked(v, x, t, noWay, o)))

Event ==
    \E o \in Orders, x \in Creatures :
        \/ ExecuteDeath(x, o) \/ Vanish(x, o)
        \/ \E pos \in Spots : Login(x, pos, o) \/ SpawnMonster(x, pos, o)
        \/ \E m \in Creatures : Summon(m, x, o)
        \/ \E pos \in Spots, t \in Anybody : Walk(x, pos, t, o) \/ Teleport(x, pos, t, o)

Order ==
    \E x \in Creatures :
        \/ Slay(x)
        \/ \E m \in Creatures : Convince(m, x)
        \/ \E t \in Anybody : Attack(x, t) \/ Follow(x, t)

ZooNext ==
    /\ turns < MaxTurns /\ turns' = turns + 1
    /\ \/ Event
       \/ Order
       \/ \E o \in Orders, S \in SUBSET Creatures, t \in Anybody, noWay \in BOOLEAN :
            CheckCreatures(S, t, noWay, o)

ZooSpec == ZooInit /\ [][ZooNext]_zooVars

-----------------------------------------------------------------------------
Held(d, x) ==
    Cardinality({y \in Creatures : x \in d.targets[y]}) + Cardinality({y \in Creatures : x \in d.friends[y]})
    + (IF IsSummon(d, x) THEN 1 ELSE 0) + (IF d.listed[x] THEN 1 ELSE 0) + d.release[x]
    + (IF InWorldNow(d, x) THEN 1 ELSE 0)

(* Whatever order they are placed, moved, killed and removed in, a creature *)
(* has a reference for each list that names it, so it is freed when the     *)
(* last one forgets it and not before (Creature::decrementReferenceCounter);*)
(* and the pointers without a reference, attackedCreature and               *)
(* followCreature, of one in the world point to one in the world that it    *)
(* can see (onCreatureDisappear, onCreatureMove).                           *)
PointersSound ==
    \A x \in Creatures :
        /\ zoo.refs[x] = Held(zoo, x)
        /\ zoo.state[x] \in {"in", "removed"} <=> zoo.refs[x] > 0
        /\ InWorldNow(zoo, x) =>
             \A y \in {zoo.attacks[x], zoo.follows[x]} \ {NoOne} : InWorldNow(zoo, y) /\ Sees(zoo, x, y)

(* A monster is checked while it has a target, and one of its own that has  *)
(* not been sent home has every player for a target that it sees            *)
(* (Monster::onCreatureFound, updateIdleStatus, setIdle).                   *)
Vigilant ==
    \A x \in Monsters : Lives(x) =>
        /\ zoo.targets[x] # {} => zoo.check[x]
        /\ ~zoo.sent[x] /\ ~IsSummon(zoo, x) =>
             \A p \in Players \ Ignored : Lives(p) /\ Sees(zoo, x, p) => p \in zoo.targets[x]

(* Both: what creatures know of each other is right, and is acted on.       *)
CreaturesSound == PointersSound /\ Vigilant
=============================================================================
