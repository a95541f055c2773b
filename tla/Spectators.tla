----------------------------- MODULE Spectators -----------------------------
(***************************************************************************)
(* Who sees a place (Map::getSpectators): the lists of creatures and of    *)
(* players in the leaves of the map, which are walked for every search     *)
(* without a cached result, and the two caches: spectatorCache, emptied    *)
(* when any creature is put on or taken off a tile, and                    *)
(* playersSpectatorCache, emptied only when a player is.                   *)
(*                                                                         *)
(* A place is a column x and a floor z; rows are like columns.  A leaf     *)
(* takes FloorSize columns over all floors.  The sequence of a list does   *)
(* not matter here: lists are sets.                                        *)
(***************************************************************************)
EXTENDS Integers

CONSTANTS
    Beings,         \* the creatures
    Watchers,       \* the players among them
    Places,         \* records [x, z]
    ViewRange,      \* Map::maxViewportX
    FloorSize,      \* FLOOR_SIZE: columns of a leaf
    Nowhere         \* not on the map

ASSUME SpectatorsAssumption ==
    /\ Watchers \subseteq Beings
    /\ Places \subseteq [x : Nat, z : 0..15]
    /\ Nowhere \notin Places
    /\ ViewRange \in Nat
    /\ FloorSize \in Nat \ {0}

VARIABLES
    tileOf,         \* Creature::tile
    creatureList,   \* QTreeLeafNode::creature_list of each leaf
    playerList,     \* QTreeLeafNode::player_list
    spectatorCache, \* the set cached for a place, or NotCached
    playersCache    \* Map::playersSpectatorCache, likewise

spectVars == <<tileOf, creatureList, playerList, spectatorCache, playersCache>>

NotCached == {Nowhere}

LeafOf(place) == place.x \div FloorSize
Leaves == {LeafOf(place) : place \in Places}

SpectInit ==
    /\ tileOf = [c \in Beings |-> Nowhere]
    /\ creatureList = [l \in Leaves |-> {}]
    /\ playerList = [l \in Leaves |-> {}]
    /\ spectatorCache = [p \in Places |-> NotCached]
    /\ playersCache = [p \in Places |-> NotCached]

-----------------------------------------------------------------------------
LowFloor(z) == IF z > 7 THEN z - 2 ELSE 0
HighFloor(z) ==
    CASE z > 7 -> IF z + 2 > 15 THEN 15 ELSE z + 2
      [] z = 7 -> 9
      [] z = 6 -> 8
      [] OTHER -> 7

(* The floors of the search, and the range moved by the difference of the   *)
(* floors (Position::getOffsetZ).                                           *)
InView(center, place) ==
    /\ place.z \in LowFloor(center.z) .. HighFloor(center.z)
    /\ place.x - center.x \in
         (center.z - place.z) - ViewRange .. (center.z - place.z) + ViewRange

(* Map::getSpectatorsInternal: the leaves from the first column that can be *)
(* in view on any of the floors to the last one.                            *)
LeavesInView(center) ==
    LET low == center.x - ViewRange + (center.z - HighFloor(center.z))
        high == center.x + ViewRange + (center.z - LowFloor(center.z))
    IN  {l \in Leaves : l \in (IF low < 0 THEN 0 ELSE low) \div FloorSize .. high \div FloorSize}

Searched(list, center) ==
    {c \in UNION {list[l] : l \in LeavesInView(center)} : InView(center, tileOf[c])}

(* Map::getSpectators with the default ranges, on several floors: it leaves *)
(* its result in a cache, unless it took it from one.                       *)
GetSpectators(center) ==
    /\ spectatorCache' = [spectatorCache EXCEPT ![center] =
         IF @ = NotCached THEN Searched(creatureList, center) ELSE @]
    /\ UNCHANGED <<tileOf, creatureList, playerList, playersCache>>

GetPlayers(center) ==
    /\ playersCache' = [playersCache EXCEPT ![center] =
         IF @ = NotCached /\ spectatorCache[center] = NotCached
         THEN Searched(playerList, center) ELSE @]
    /\ UNCHANGED <<tileOf, creatureList, playerList, spectatorCache>>

-----------------------------------------------------------------------------
(* A bug it could have: the cache of the players is left as it is.          *)
BadCachesCleared(c) ==
    /\ spectatorCache' = [p \in Places |-> NotCached]
    /\ UNCHANGED playersCache

(* Tile::internalAddThing, addThing and removeThing, for a creature.        *)
CachesCleared(c) ==
    /\ spectatorCache' = [p \in Places |-> NotCached]
    /\ playersCache' = IF c \in Watchers THEN [p \in Places |-> NotCached] ELSE playersCache

(* The creature leaves the lists of one leaf and enters those of another.   *)
Listing(c, from, to) ==
    /\ creatureList' = [l \in Leaves |->
         (IF l \in from THEN creatureList[l] \ {c} ELSE creatureList[l])
           \cup (IF l \in to THEN {c} ELSE {})]
    /\ playerList' = IF c \notin Watchers THEN playerList
         ELSE [l \in Leaves |->
                (IF l \in from THEN playerList[l] \ {c} ELSE playerList[l])
                  \cup (IF l \in to THEN {c} ELSE {})]

(* Map::placeCreature, on the tile that was found.                          *)
PlaceBeing(c, to) ==
    /\ tileOf[c] = Nowhere
    /\ tileOf' = [tileOf EXCEPT ![c] = to]
    /\ Listing(c, {}, {LeafOf(to)})
    /\ CachesCleared(c)

(* Map::moveCreature: the lists change only when the leaf does.  What it    *)
(* caches of both places before the step is cleared by the step.            *)
MoveBeing(c, to) ==
    /\ tileOf[c] \notin {Nowhere, to}
    /\ tileOf' = [tileOf EXCEPT ![c] = to]
    /\ IF LeafOf(tileOf[c]) # LeafOf(to)
       THEN Listing(c, {LeafOf(tileOf[c])}, {LeafOf(to)})
       ELSE UNCHANGED <<creatureList, playerList>>
    /\ CachesCleared(c)

(* Tile::removeCreature, from Game::removeCreature.                         *)
RemoveBeing(c) ==
    /\ tileOf[c] # Nowhere
    /\ tileOf' = [tileOf EXCEPT ![c] = Nowhere]
    /\ Listing(c, {LeafOf(tileOf[c])}, {})
    /\ CachesCleared(c)

-----------------------------------------------------------------------------
SpectNext ==
    \/ \E p \in Places : GetSpectators(p) \/ GetPlayers(p)
    \/ \E c \in Beings :
         \/ RemoveBeing(c)
         \/ \E p \in Places : PlaceBeing(c, p) \/ MoveBeing(c, p)

-----------------------------------------------------------------------------
(* Whoever is to be told of something at a place is told: a search and each *)
(* cached answer give exactly the creatures, or the players, that have the  *)
(* place in view, wherever they came from (Map::getSpectators).             *)
SpectatorsTrue ==
    \A center \in Places :
        LET all == {c \in Beings : tileOf[c] # Nowhere /\ InView(center, tileOf[c])}
        IN  /\ Searched(creatureList, center) = all
            /\ Searched(playerList, center) = all \cap Watchers
            /\ spectatorCache[center] \in {NotCached, all}
            /\ playersCache[center] \in {NotCached, all \cap Watchers}
=============================================================================
