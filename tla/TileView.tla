------------------------------ MODULE TileView ------------------------------
(***************************************************************************)
(* What the clients show of the map.  A tile holds a ground, items that    *)
(* lie at the bottom (borders, splashes), creatures, and the other items.  *)
(* A client is sent the whole of a tile when it comes in sight; after      *)
(* that it is only told what is added, changed, removed or moved, and      *)
(* where: by the position of the thing among those the player can see.     *)
(* The server keeps no copy of what a client shows; it counts anew for     *)
(* every message, some time before or after the change.                    *)
(*                                                                         *)
(* Items are their types: two of a type look alike.  A tile's creatures    *)
(* stand in the sequence of the client, the last to come at the end (the   *)
(* code keeps them the other way round).  Floors are left out: what a      *)
(* change of floor shows is sent like any other map.                       *)
(***************************************************************************)
EXTENDS Integers, SequencesExt, FiniteSets

CONSTANTS
    Tiles,
    Sight,          \* the tiles that are seen from each tile
    Near,           \* pairs of tiles one step apart
    Viewers,        \* players
    Access,         \* those whose group has access: they see ghosts
    Senses,         \* those who see invisible monsters
    Monsters,
    Grounds,        \* the types of items
    Tops,           \* always on top: they lie under the creatures
    Order,          \* alwaysOnTopOrder of each of them
    Splashes,       \* of Tops: at most one on a tile
    Downs,
    Fields,         \* magic fields, of Downs: a new one takes the place of the old
    Walls,          \* of Fields: those that cannot be replaced
    NoGround,
    ItemTiles,      \* the tiles on which items change
    Limit,          \* things a client shows of a tile: 10
    Resend,         \* a tile that keeps more when something leaves it is sent whole: 8
    MaxItems        \* bound on the items of a tile

(* In the groups of data/XML/groups.xml who sees ghosts senses the          *)
(* invisible, and the other way round; see removeCreature.                  *)
ASSUME TileViewAssumption ==
    /\ Access = Senses /\ Senses \subseteq Viewers /\ IsFiniteSet(Viewers)
    /\ Viewers \cap Monsters = {}
    /\ Limit \in Nat \ {0} /\ Resend \in 0 .. Limit - 1 /\ MaxItems \in Nat
    /\ Splashes \subseteq Tops /\ Walls \subseteq Fields /\ Fields \subseteq Downs
    /\ Grounds # {} /\ Grounds \cap Tops = {} /\ (Grounds \cup Tops) \cap Downs = {}
    /\ (Viewers \cup Monsters) \cap (Grounds \cup Tops \cup Downs) = {}
    /\ NoGround \notin Grounds \cup Tops \cup Downs \cup Viewers \cup Monsters
    /\ Sight \in [Tiles -> SUBSET Tiles] /\ \A t \in Tiles : t \in Sight[t]
    /\ \A near \in Near : near[2] \in Sight[near[1]]

VARIABLES
    tiles,          \* record [ground, top, beings, down] of each tile
    hidden,         \* ghosts, and monsters that are invisible
    screen          \* what each client shows of each tile

viewVars == <<tiles, hidden, screen>>

Dark == <<NoGround>>              \* shown of a tile out of sight
Lost == <<NoGround, NoGround>>    \* not followed, until it is sent again
AllDark == [t \in Tiles |-> Dark]

(* Those of a list who are of a set, in its order.                          *)
Among(list, s) == FoldLeft(LAMBDA kept, x : IF x \in s THEN Append(kept, x) ELSE kept, <<>>, list)
Without(list, x) == Among(list, ToSet(list) \ {x})

Somewhere(ts) == UNION {ToSet(ts[t].beings) : t \in Tiles}
TileOf(ts, c) == CHOOSE t \in Tiles : c \in ToSet(ts[t].beings)

ViewInit ==
    /\ tiles = [t \in Tiles |-> [ground |-> CHOOSE g \in Grounds : TRUE,
                                 top |-> <<>>, beings |-> <<>>, down |-> <<>>]]
    /\ hidden = {}
    /\ screen = [v \in Viewers |-> AllDark]

-----------------------------------------------------------------------------
(* Player::canSeeCreature, with those who are hidden now.                   *)
CanSeeCreature(v, c, who) ==
    c = v \/ c \notin who \/ v \in IF c \in Monsters THEN Senses ELSE Access

SeenBy(v, who) == {c \in Viewers \cup Monsters : CanSeeCreature(v, c, who)}

(* ProtocolGame::canSee of a place: from where the player is.                *)
CanSee(ts, v, t) == v \in Somewhere(ts) /\ t \in Sight[TileOf(ts, v)]

GroundOf(tile) == IF tile.ground = NoGround THEN <<>> ELSE <<tile.ground>>

(* GetTileDescription: it may go on after ten, and the client does not.     *)
Visible(tile, v, who) ==
    GroundOf(tile) \o tile.top
      \o Among(tile.beings, SeenBy(v, who)) \o tile.down
Cut(shown) == IF Len(shown) > Limit THEN SubSeq(shown, 1, Limit) ELSE shown
Described(tile, v, who) == Cut(Visible(tile, v, who))

(* Tile::getThingCount, of those who are hidden too.                        *)
ThingCount(tile) == Len(GroundOf(tile)) + Len(tile.top) + Len(tile.beings) + Len(tile.down)

(* Tile::postRemoveNotification: something was removed or replaced.         *)
SentAgain(tile, v, who, shown) == IF ThingCount(tile) > Resend THEN Described(tile, v, who) ELSE shown

(* Tile::getClientIndexOfCreature, counted from 0.                          *)
ClientIndexOfCreature(tile, v, c, who) ==
    Len(GroundOf(tile)) + Len(tile.top)
      + Cardinality({i \in 1 .. SelectInSeq(tile.beings, LAMBDA b : b = c) - 1 :
                        CanSeeCreature(v, tile.beings[i], who)})

(* A bug: creatures that the player cannot see are counted.                 *)
BadSeenBefore(tile, v) == Len(tile.beings)
SeenBefore(tile, v) == Cardinality({i \in DOMAIN tile.beings : CanSeeCreature(v, tile.beings[i], hidden)})

(* Tile::getStackposOfItem, of the k-th item of a list; -1 is not sent.     *)
StackposOfItem(tile, list, k, v) ==
    LET n == CASE list = "ground" -> 0
               [] list = "top"    -> Len(GroundOf(tile)) + k - 1
               [] list = "down"   -> Len(GroundOf(tile)) + Len(tile.top) + SeenBefore(tile, v) + k - 1
    IN  IF n < Limit THEN n ELSE -1

-----------------------------------------------------------------------------
(* What a client does with what it is told (the program that players run).  *)
(* It drops what is beyond Limit; whoever moves comes after the other       *)
(* creatures.  When something is taken from a tile that shows more than     *)
(* that, what comes to the front is not known: such a tile is Lost, until   *)
(* it is sent again.                                                        *)
Full(tile, v) == Len(Visible(tile, v, hidden)) > Limit
Known(shown, new) == IF shown = Lost THEN Lost ELSE new
ClientAdd(shown, n, x) ==
    Known(shown, Cut(InsertAt(shown, IF n > Len(shown) THEN Len(shown) + 1 ELSE n + 1, x)))
ClientChange(shown, n, x) ==
    Known(shown, IF n < Len(shown) THEN [shown EXCEPT ![n + 1] = x] ELSE shown)
ClientRemove(shown, n) == Known(shown, IF n < Len(shown) THEN RemoveAt(shown, n + 1) ELSE shown)
ClientForget(shown, c) == Without(shown, c)
ClientPutLast(shown, c) ==
    ClientAdd(shown, Cardinality({i \in DOMAIN shown : shown[i] \notin Downs}), c)

(* sendRemoveTileCreature, and the first half of a move: by its number, or  *)
(* by its id when the number is not shown (-1 becomes a large one).         *)
Taken(v, shown, t, n, c) ==
    IF Full(tiles[t], v) THEN [shown EXCEPT ![t] = Lost]
    ELSE IF n \in 0 .. Limit - 1 THEN [shown EXCEPT ![t] = ClientRemove(@, n)]
    ELSE [u \in Tiles |-> ClientForget(shown[u], c)]

(* sendAddCreature: the whole tile when the number is too high.             *)
Appeared(shown, t, n, c, whole) ==
    [shown EXCEPT ![t] = IF n >= Limit THEN whole ELSE ClientAdd(@, n, c)]

(* sendMapDescription: everything in sight.                                 *)
MapDescription(ts, v, from, who) ==
    [t \in Tiles |-> IF t \in Sight[from] THEN Described(ts[t], v, who) ELSE Dark]

-----------------------------------------------------------------------------
(* Items.  A spectator is told of one place on the tile.                    *)
Added(shown, n, x) == IF n = -1 THEN shown ELSE ClientAdd(shown, n, x)
Changed(shown, n, x) == IF n = -1 THEN shown ELSE ClientChange(shown, n, x)
Removed(shown, n, full) ==
    IF full THEN Lost ELSE IF n = -1 THEN shown ELSE ClientRemove(shown, n)

ToldOf(t, Told(_, _)) ==
    screen' = [v \in Viewers |->
        IF CanSee(tiles, v, t) THEN [screen[v] EXCEPT ![t] = Told(v, @)] ELSE screen[v]]

(* Tile::addThing of an item to one of the two lists, which become new; at  *)
(* an old item, or 0, that makes place for it, and is removed first.        *)
Inserted(t, list, k, x, old) ==
    LET without == [tiles[t] EXCEPT ![list] = IF old = 0 THEN @ ELSE RemoveAt(@, old)]
        with == [without EXCEPT ![list] = InsertAt(@, k, x)]
    IN  /\ tiles' = [tiles EXCEPT ![t] = with]
        /\ ToldOf(t, LAMBDA v, shown :
              Added(IF old = 0 THEN shown
                    ELSE SentAgain(without, v, hidden,
                            Removed(shown, StackposOfItem(tiles[t], list, old, v), Full(tiles[t], v))),
                    StackposOfItem(with, list, k, v), x))

At(list, kinds) == LET found == {i \in DOMAIN list : list[i] \in kinds}
                   IN  IF found = {} THEN 0 ELSE Min(found)

AddGround(t, x) ==
    /\ tiles' = [tiles EXCEPT ![t].ground = x]
    /\ ToldOf(t, LAMBDA v, shown :
          IF tiles[t].ground = NoGround THEN Added(shown, 0, x)
          ELSE SentAgain(tiles'[t], v, hidden, Changed(shown, 0, x)))

AddTop(t, x) ==
    LET old == IF x \in Splashes THEN At(tiles[t].top, Splashes) ELSE 0
        top == IF old = 0 THEN tiles[t].top ELSE RemoveAt(tiles[t].top, old)
        k == At(top, {y \in Tops : Order[x] <= Order[y]})
    IN  Inserted(t, "top", IF k = 0 THEN Len(top) + 1 ELSE k, x, old)

AddDown(t, x) ==
    LET old == IF x \in Fields THEN At(tiles[t].down, Fields) ELSE 0
    IN  /\ old # 0 => tiles[t].down[old] \notin Walls
        /\ Inserted(t, "down", 1, x, old)

ItemCount(t) == Len(tiles[t].top) + Len(tiles[t].down)
AddItem(t, x) ==
    /\ t \in ItemTiles
    /\ ItemCount(t) < MaxItems \/ x \in Grounds
    /\ IF x \in Grounds THEN AddGround(t, x) ELSE IF x \in Tops THEN AddTop(t, x) ELSE AddDown(t, x)
    /\ UNCHANGED hidden

(* Tile::removeThing of an item, and of the whole of a stack.               *)
TakeItem(t, list, k) ==
    /\ t \in ItemTiles
    /\ IF list = "ground" THEN k = 1 /\ tiles[t].ground # NoGround ELSE k \in DOMAIN tiles[t][list]
    /\ tiles' = [tiles EXCEPT ![t][list] = IF list = "ground" THEN NoGround ELSE RemoveAt(@, k)]
    /\ ToldOf(t, LAMBDA v, shown :
          SentAgain(tiles'[t], v, hidden,
             Removed(shown, StackposOfItem(tiles[t], list, k, v), Full(tiles[t], v))))
    /\ UNCHANGED hidden

(* Tile::updateThing and replaceThing: the new item lies where the old one  *)
(* did, whatever its order.  Game::transformItem notifies of a removal      *)
(* before it updates an item, or after it has replaced it; nothing does     *)
(* when a stack grows.                                                      *)
UpdateItem(t, list, k, x, removal) ==
    /\ t \in ItemTiles
    /\ x \in IF list = "top" THEN Tops ELSE Downs
    /\ k \in DOMAIN tiles[t][list]
    /\ tiles' = [tiles EXCEPT ![t][list][k] = x]
    /\ ToldOf(t, LAMBDA v, shown :
          LET before == IF removal = "first" THEN SentAgain(tiles[t], v, hidden, shown) ELSE shown
              told == Changed(before, StackposOfItem(tiles'[t], list, k, v), x)
          IN  IF removal = "last" THEN SentAgain(tiles'[t], v, hidden, told) ELSE told)
    /\ UNCHANGED hidden

-----------------------------------------------------------------------------
(* Creatures.  Who is not in the game has nobody to tell.                   *)
Tell(Told(_, _)) ==
    screen' = [v \in Viewers |-> IF v \in Somewhere(tiles) THEN Told(v, screen[v]) ELSE AllDark]

(* The tile that a creature left, after all were told.                      *)
LeftBehind(v, t, shown) ==
    IF CanSee(tiles', v, t) THEN [shown EXCEPT ![t] = SentAgain(tiles'[t], v, hidden', @)] ELSE shown

(* Game::placeCreature; a player's client is sent the map.                  *)
PlaceCreature(c, t) ==
    /\ c \notin Somewhere(tiles)
    /\ tiles' = [tiles EXCEPT ![t].beings = Append(@, c)]
    /\ screen' = [v \in Viewers |->
          IF v = c THEN MapDescription(tiles', v, t, hidden)
          ELSE IF ~CanSee(tiles', v, t) THEN screen[v]
          ELSE Appeared(screen[v], t, ClientIndexOfCreature(tiles'[t], v, c, hidden), c,
                        Described(tiles'[t], v, hidden))]
    /\ UNCHANGED hidden

(* Game::removeCreature.  Every spectator has an entry in the vector of old  *)
(* positions; those who see the creature take the entries one after the      *)
(* other, so that who comes after one who does not gets that one's.          *)
RemoveCreature(c, spectators) ==
    LET t == TileOf(tiles, c)
        seeing == Among(spectators, {v \in Viewers : CanSeeCreature(v, c, hidden)})
        oldStackPosVector == [i \in DOMAIN spectators |->
            IF CanSeeCreature(spectators[i], c, hidden)
            THEN ClientIndexOfCreature(tiles[t], spectators[i], c, hidden) ELSE -1]
        taken(v) == oldStackPosVector[CHOOSE i \in DOMAIN seeing : seeing[i] = v]
    IN  /\ tiles' = [tiles EXCEPT ![t].beings = Without(@, c)]
        /\ hidden' = hidden \ {c}
        /\ screen' = [v \in Viewers |->
              IF v = c THEN AllDark
              ELSE LeftBehind(v, t,
                 IF v \notin ToSet(seeing) THEN screen[v]
                 ELSE IF taken(v) \in 0 .. Limit - 1 /\ ~CanSee(tiles, v, t) THEN screen[v]
                 ELSE Taken(v, screen[v], t, taken(v), c))]

(* sendMoveCreature to another player.                                      *)
ToldOfMove(v, shown, c, from, to, teleport) ==
    LET old == ClientIndexOfCreature(tiles[from], v, c, hidden)
        new == ClientIndexOfCreature(tiles'[to], v, c, hidden)
        sees(t) == CanSee(tiles, v, t)
        taken == Taken(v, shown, from, old, c)
        whole == Described(tiles'[to], v, hidden)
    IN  IF ~CanSeeCreature(v, c, hidden) THEN shown
        ELSE CASE sees(from) /\ sees(to) /\ teleport  -> Appeared(taken, to, new, c, whole)
               [] sees(from) /\ sees(to) /\ ~teleport -> [taken EXCEPT ![to] = ClientPutLast(@, c)]
               [] sees(from) /\ ~sees(to)             -> taken
               [] ~sees(from) /\ sees(to)             -> Appeared(shown, to, new, c, whole)
               [] OTHER                               -> shown

(* sendMoveCreature to the player that moves: what it passes out of sight   *)
(* of is forgotten, what comes in sight is described.                       *)
ToldOfOwnMove(v, shown, from, to, teleport) ==
    LET taken == Taken(v, shown, from, ClientIndexOfCreature(tiles[from], v, v, hidden), v)
        moved == [taken EXCEPT ![to] = ClientPutLast(@, v)]
        map == MapDescription(tiles', v, to, hidden)
    IN  IF teleport THEN map
        ELSE [t \in Tiles |-> IF t \in Sight[from] \cap Sight[to] THEN moved[t] ELSE map[t]]

(* Map::moveCreature.                                                       *)
MoveCreature(c, to, force) ==
    LET from == TileOf(tiles, c)
        teleport == force \/ tiles[to].ground = NoGround \/ <<from, to>> \notin Near
    IN  /\ c \in Somewhere(tiles)
        /\ to # from
        /\ tiles' = [tiles EXCEPT ![from].beings = Without(@, c),
                                  ![to].beings = Append(@, c)]
        /\ UNCHANGED hidden
        /\ Tell(LAMBDA v, shown :
              LeftBehind(v, from,
                 IF v = c THEN ToldOfOwnMove(v, shown, from, to, teleport)
                 ELSE ToldOfMove(v, shown, c, from, to, teleport)))

(* Player:setGhostMode of a script, and Game::internalCreatureChangeVisible *)
(* of a monster: those who cannot see it any more, or could not see it.     *)
Hide(c) ==
    LET t == TileOf(tiles, c)
        blind == {v \in Viewers : ~CanSeeCreature(v, c, {c})}
        n(v) == ClientIndexOfCreature(tiles[t], v, c, hidden)
        hide == c \notin hidden
    IN  /\ c \in Somewhere(tiles) \cap (Access \cup Monsters)
        /\ hidden' = IF hide THEN hidden \cup {c} ELSE hidden \ {c}
        /\ Tell(LAMBDA v, shown :
              IF v \notin blind THEN shown
              ELSE IF hide /\ (n(v) >= Limit \/ CanSee(tiles, v, t))
              THEN Taken(v, shown, t, n(v), c)
              ELSE IF ~hide /\ CanSee(tiles, v, t)
              THEN Appeared(shown, t, n(v), c, Described(tiles[t], v, hidden'))
              ELSE shown)
        /\ UNCHANGED tiles

ViewNext ==
    \/ \E t \in Tiles, x \in Grounds \cup Tops \cup Downs : AddItem(t, x)
    \/ \E t \in Tiles, k \in 1..MaxItems, list \in {"ground", "top", "down"} : TakeItem(t, list, k)
    \/ \E t \in Tiles, k \in 1..MaxItems, list \in {"top", "down"}, x \in Tops \cup Downs :
          \E removal \in {"first", "last", "none"} : UpdateItem(t, list, k, x, removal)
    \/ \E c \in Viewers \cup Monsters, t \in Tiles :
          PlaceCreature(c, t) \/ \E force \in BOOLEAN : MoveCreature(c, t, force)
    \/ \E c \in Somewhere(tiles) :
          Hide(c) \/ \E order \in SetToSeqs(Viewers \cap Somewhere(tiles)) : RemoveCreature(c, order)

ViewSpec == ViewInit /\ [][ViewNext]_viewVars

-----------------------------------------------------------------------------
(* A client shows what is there: whatever was added, changed, moved, hidden *)
(* and removed since a tile came in sight, by numbers counted before or     *)
(* after the change and for each player its own, the client's tile is the   *)
(* one it would be sent now (Tile::getStackposOfItem,                       *)
(* getClientIndexOfCreature, Map::moveCreature, Game::removeCreature,       *)
(* ProtocolGame::sendAddCreature).  Only a tile where a creature was hidden *)
(* among more things than a client shows is lost to the client, and only as *)
(* long as it holds more: the first thing to leave it brings it back        *)
(* (Tile::postRemoveNotification).                                          *)
ScreensTrue ==
    \A v \in Viewers, t \in Tiles :
        CanSee(tiles, v, t) =>
            /\ screen[v][t] \in {Lost, Described(tiles[t], v, hidden)}
            /\ screen[v][t] = Lost => ThingCount(tiles[t]) > Limit
=============================================================================
