------------------------------- MODULE Houses --------------------------------
(***************************************************************************)
(* One house (house.cpp), its beds (bed.cpp) and what the database keeps   *)
(* of it (iomapserialize.cpp): who owns it, who is invited, who is inside, *)
(* who sleeps, a sale that is under way, saves, and a crash with the       *)
(* restart after it.  The owner is written to the database at once, lists  *)
(* and beds only when the map is saved.  A bed is two items, one beside    *)
(* the other; a list names players.                                        *)
(***************************************************************************)
EXTENDS Naturals, Sequences, FiniteSets, SequencesExt, Once

CONSTANTS
    Residents,      \* players
    Editors,        \* players with PlayerFlag_CanEditHouses
    Beds,
    Texts,          \* sets of players that a list may be made to name
    Nobody,
    FirstOwner,     \* whose house it is when the server starts
    MaxHouseTurns   \* bound: what happens in one history

ASSUME HousesAssumption ==
    /\ Editors \subseteq Residents /\ Nobody \notin Residents
    /\ FirstOwner \in Residents \cup {Nobody}
    /\ Texts \subseteq SUBSET Residents /\ MaxHouseTurns \in Nat

VARIABLES
    home,       \* the house in memory, see NewHome
    online,     \* the players that are online
    kicks,      \* the players that a kick scheduled by sleep() is to remove
    disk,       \* what the tables houses, house_lists and tile_store say
    saving,     \* Map::save is between its two transactions
    stray,      \* history: something may be there that no present owner left:
                \* a crash brought it back, or an editor put it in an empty house
    houseTurns  \* the number of steps so far

houseVars == <<home, online, kicks, disk, saving, stray, houseTurns>>

Halves == Beds \X {1, 2}
NoLists == [sub |-> {}, guest |-> {}, door |-> {}]
AllFree == [half \in Halves |-> Nobody]

NewHome ==
    [owner |-> Nobody, lists |-> NoLists, inside |-> {}, sleeper |-> AllFree,
     bedOf |-> [p \in Residents |-> <<>>],   \* Game::bedSleepersMap
     document |-> <<>>]                      \* seller and buyer of transferItem

-----------------------------------------------------------------------------
(* House::getHouseAccessLevel.                                              *)
Level(h, p) ==
    IF p \in Editors \/ p = h.owner THEN 3
    ELSE IF p \in h.lists.sub THEN 2 ELSE IF p \in h.lists.guest THEN 1 ELSE 0

Invited(h, p) == Level(h, p) > 0

(* House::setAccessList; a door's list kicks nobody.                        *)
SetAccessList(h, list, S) ==
    With([h EXCEPT !.lists[list] = S],
         LAMBDA v : IF list = "door" THEN v
                    ELSE [v EXCEPT !.inside = {p \in @ : Invited(v, p) \/ p \in Editors}])

Partner(half) == <<half[1], 3 - half[2]>>

(* A bug: only the half that was used is free again.                        *)
BadWakeUp(h, half) ==
    LET p == h.sleeper[half]
    IN  [h EXCEPT !.bedOf = [q \in Residents |-> IF q = p THEN <<>> ELSE @[q]],
                  !.sleeper[half] = Nobody]

(* BedItem::wakeUp.                                                         *)
WakeUp(h, half) ==
    LET p == h.sleeper[half]
    IN  [h EXCEPT !.bedOf = [q \in Residents |-> IF q = p THEN <<>> ELSE @[q]],
                  !.sleeper[half] = Nobody, !.sleeper[Partner(half)] = Nobody]

(* The halves that still have a sleeper when House::setOwner comes to them: *)
(* the second half of a bed is free by then, if the first woke somebody.    *)
Woken(h) ==
    {half \in Halves : /\ h.sleeper[half] # Nobody
                       /\ half[2] = 1 \/ h.sleeper[Partner(half)] = Nobody}

WakeAll(h) ==
    [h EXCEPT !.bedOf = [p \in Residents |-> IF \E half \in Woken(h) : h.sleeper[half] = p THEN <<>> ELSE @[p]],
              !.sleeper = AllFree]

(* House::setOwner, which takes everything from an owner before: everybody  *)
(* is put out and woken, then the house is nobody's, then the lists go.     *)
NoAccess(h) == SetAccessList(SetAccessList(SetAccessList(h, "sub", {}), "guest", {}), "door", {})

Deserted(h) == NoAccess([WakeAll([h EXCEPT !.inside = @ \cap Editors]) EXCEPT !.owner = Nobody])

SetOwner(h, g) ==
    IF h.owner = g THEN h
    ELSE [(IF h.owner = Nobody THEN h ELSE Deserted(h)) EXCEPT !.owner = g]

-----------------------------------------------------------------------------
HouseInit ==
    /\ home = [NewHome EXCEPT !.owner = FirstOwner] /\ online = {} /\ kicks = {}
    /\ disk = [owner |-> FirstOwner, lists |-> NoLists, sleeper |-> AllFree]
    /\ saving = FALSE /\ stray = FALSE /\ houseTurns = 0

(* The owner changes, here and in the table.                                *)
NewOwner(g, h) ==
    /\ home' = SetOwner(h, g)
    /\ disk' = [disk EXCEPT !.owner = g]
    /\ stray' = (stray /\ (h.owner = Nobody \/ g = h.owner))
    /\ UNCHANGED <<online, kicks, saving>>

(* Scripts: !buyhouse, !leavehouse, and an administrator's command.         *)
BuyHouse(p) == p \in online /\ home.owner = Nobody /\ NewOwner(p, home)
LeaveHouse(p) == p \in home.inside /\ home.owner = p /\ NewOwner(Nobody, home)
GiveHouse(p) == p \in online /\ home.inside \cap Editors # {} /\ NewOwner(p, home)

(* house:startTrade, and the three ways HouseTransferItem::onTradeEvent is  *)
(* called or not: the transfer, the cancellation, the end of a session.     *)
StartSale(p, q) ==
    /\ p \in home.inside /\ home.owner = p /\ q \in online \ {p} /\ home.document = <<>>
    /\ home' = [home EXCEPT !.document = <<p, q>>]
    /\ UNCHANGED <<online, kicks, disk, saving, stray>>

CancelSale ==
    /\ home.document # <<>>
    /\ home' = [home EXCEPT !.document = <<>>]
    /\ UNCHANGED <<online, kicks, disk, saving, stray>>

ExecuteTransfer ==
    /\ home.document # <<>>
    /\ NewOwner(home.document[2], [home EXCEPT !.document = <<>>])

(* Game::playerUpdateHouseWindow: the right is tested when the text comes.  *)
EditList(p, list, S) ==
    /\ p \in online
    /\ Level(home, p) = 3 \/ (Level(home, p) = 2 /\ list = "guest")
    /\ home' = SetAccessList(home, list, S)
    /\ stray' = (stray \/ home.owner = Nobody)
    /\ UNCHANGED <<online, kicks, disk, saving>>

(* HouseTile::queryAdd.                                                     *)
Enter(p) ==
    /\ p \in online \ home.inside /\ Invited(home, p)
    /\ home' = [home EXCEPT !.inside = @ \cup {p}]
    /\ UNCHANGED <<online, kicks, disk, saving, stray>>

GoOut(p) ==
    /\ p \in home.inside
    /\ home' = [home EXCEPT !.inside = @ \ {p}]
    /\ UNCHANGED <<online, kicks, disk, saving, stray>>

(* House::kickPlayer, for the spell that kicks a guest.                     *)
KickGuest(p, t) ==
    /\ p \in online /\ t \in home.inside \ Editors /\ Level(home, p) >= Level(home, t)
    /\ home' = [home EXCEPT !.inside = @ \ {t}]
    /\ UNCHANGED <<online, kicks, disk, saving, stray>>

(* Actions::internalUseItem with a bed: sleep() in a free one; the owner    *)
(* wakes the sleeper of another.  The kick comes after 50 ms, the next      *)
(* action after 200, so nobody that is to be kicked uses another bed.       *)
UseBed(p, half) ==
    /\ p \in home.inside \ kicks
    /\ \/ /\ home.sleeper[half] = Nobody
          /\ home' = [home EXCEPT !.sleeper = [x \in Halves |-> IF x \in {half, Partner(half)} THEN p ELSE @[x]],
                                  !.bedOf[p] = half, !.inside = @ \cup {p}]
          /\ kicks' = kicks \cup {p}
          /\ stray' = (stray \/ home.owner = Nobody)
       \/ /\ home.sleeper[half] # Nobody /\ home.owner = p
          /\ home' = WakeUp(home, half)
          /\ UNCHANGED <<kicks, stray>>
    /\ UNCHANGED <<online, disk, saving>>

(* Player::onCreatureAppear: one that is not invited any more is put at the *)
(* entry, and one that slept wakes up.                                      *)
Appear(p) ==
    /\ p \notin online
    /\ online' = online \cup {p}
    /\ \E within \in SUBSET {p} :
         /\ within # {} => Invited(home, p)
         /\ LET h == [home EXCEPT !.inside = @ \cup within]
            IN  home' = IF h.bedOf[p] = <<>> THEN h ELSE WakeUp(h, h.bedOf[p])
    /\ UNCHANGED <<kicks, disk, saving, stray>>

(* The end of a session closes the sale.  A kick that is still to come does *)
(* not find the player of the next session.                                 *)
SessionEnds(p) ==
    /\ online' = online \ {p} /\ kicks' = kicks \ {p}
    /\ home' = [home EXCEPT !.inside = @ \ {p},
                            !.document = IF p \in ToSet(@) THEN <<>> ELSE @]
    /\ UNCHANGED <<disk, saving, stray>>

LogOff(p) == p \in online /\ SessionEnds(p)
KickDue(p) == p \in kicks /\ SessionEnds(p)

-----------------------------------------------------------------------------
(* Map::save: the lists and the owner, then the items; each of the two may  *)
(* fail.  Nothing but a crash comes between.  house:save() writes the items *)
(* alone.                                                                   *)
SaveHouseInfo ==
    /\ disk' = [disk EXCEPT !.owner = home.owner, !.lists = home.lists]
    /\ saving' = TRUE
    /\ UNCHANGED <<home, online, kicks, stray>>

SaveHouseItems ==
    /\ disk' \in {disk, [disk EXCEPT !.sleeper = home.sleeper]}
    /\ saving' = FALSE
    /\ UNCHANGED <<home, online, kicks, stray>>

SaveHouse ==
    /\ disk' = [disk EXCEPT !.sleeper = home.sleeper]
    /\ UNCHANGED <<home, online, kicks, saving, stray>>

(* A crash, and Map::loadMap and payHouses after it: a half that is read    *)
(* puts its sleeper into the map; an owner who owes too much rent loses the *)
(* house.                                                                   *)
LoadedHome ==
    LET halvesOf(p) == {half \in Halves : disk.sleeper[half] = p}
    IN  [NewHome EXCEPT !.owner = disk.owner, !.lists = disk.lists, !.sleeper = disk.sleeper,
                       !.bedOf = [p \in Residents |-> IF halvesOf(p) = {} THEN <<>>
                                                      ELSE CHOOSE half \in halvesOf(p) : TRUE]]

CrashAndRestart ==
    /\ online' = {} /\ kicks' = {} /\ saving' = FALSE
    /\ \E g \in {Nobody, disk.owner} :
         /\ home' = SetOwner(LoadedHome, g)
         /\ disk' = [disk EXCEPT !.owner = g]
         /\ stray' = (g = disk.owner)

-----------------------------------------------------------------------------
HouseStep ==
    \/ \E p \in Residents :
         \/ BuyHouse(p) \/ LeaveHouse(p) \/ GiveHouse(p)
         \/ \E q \in Residents : StartSale(p, q) \/ KickGuest(p, q)
         \/ \E S \in Texts, list \in DOMAIN NoLists : EditList(p, list, S)
         \/ Enter(p) \/ GoOut(p) \/ Appear(p) \/ LogOff(p) \/ KickDue(p)
         \/ \E half \in Halves : UseBed(p, half)
    \/ CancelSale \/ ExecuteTransfer
    \/ SaveHouseInfo \/ SaveHouse

HouseNext ==
    /\ houseTurns < MaxHouseTurns /\ houseTurns' = houseTurns + 1
    /\ \/ ~saving /\ HouseStep
       \/ saving /\ SaveHouseItems
       \/ CrashAndRestart

HouseSpec == HouseInit /\ [][HouseNext]_houseVars

-----------------------------------------------------------------------------
Guids == Residents \cup {Nobody}
Lists == [DOMAIN NoLists -> SUBSET Residents]
Homes ==
    [owner : Guids, lists : Lists, inside : SUBSET Residents, sleeper : [Halves -> Guids],
     bedOf : [Residents -> Halves \cup {<<>>}], document : {<<>>} \cup Residents \X Residents]

HouseTypeOK ==
    /\ home \in Homes /\ online \subseteq Residents /\ kicks \subseteq Residents
    /\ disk \in [owner : Guids, lists : Lists, sleeper : [Halves -> Guids]]
    /\ saving \in BOOLEAN /\ stray \in BOOLEAN /\ houseTurns \in Nat

(* Whatever order of sales, edits, sleeping, waking, kicks, saves and       *)
(* crashes: the halves of a bed agree, nobody sleeps in two beds, and the   *)
(* map by which a login finds the bed to wake in names exactly the beds     *)
(* with a sleeper (BedItem::sleep, wakeUp, IOMapSerialize::loadItem); who   *)
(* sleeps is offline or about to be kicked; nobody is inside that is not    *)
(* invited (House::setAccessList, setOwner); a house without an owner has   *)
(* nobody on a list or in a bed (setOwner), unless a crash brought back     *)
(* what the one before had or an editor put it there; and the owner         *)
(* survives a crash.                                                        *)
HomesSound ==
    /\ \A half \in Halves :
         LET p == home.sleeper[half]
         IN  /\ home.sleeper[Partner(half)] = p
             /\ p # Nobody => home.bedOf[p] \in {half, Partner(half)} /\ (p \notin online \/ p \in kicks)
    /\ \A p \in Residents : home.bedOf[p] # <<>> => home.sleeper[home.bedOf[p]] = p
    /\ home.inside \subseteq {p \in online : Invited(home, p)}
    /\ home.owner = Nobody /\ ~stray => home.lists = NoLists /\ home.sleeper = AllFree
    /\ disk.owner = home.owner
    /\ home.document # <<>> => {home.document[1], home.document[2]} \subseteq online
=============================================================================
