------------------------------- MODULE Shops -------------------------------
(***************************************************************************)
(* The shop windows of NPCs (npc.cpp, Player::closeShopWindow): a player   *)
(* points to the NPC it trades with and keeps the two callbacks of its     *)
(* script, as references into the registry of the server's Lua state; the  *)
(* NPC keeps the set of its shopping players.  Both pointers are bare.  A  *)
(* reload of the NPCs loads their scripts again into the same state, where *)
(* references live on until they are given back.                           *)
(*                                                                         *)
(* Scripts open windows only for players in the game and for NPCs in the   *)
(* world, and not from within the callback that a closed window calls.     *)
(* Bounds: MaxReloads; the references there are.                           *)
(***************************************************************************)
EXTENDS Naturals, FiniteSets

CONSTANTS
    Customers,      \* the players
    Merchants,      \* the NPCs
    NoNpc,          \* the null pointer
    References,     \* the numbers luaL_ref gives out
    MaxReloads      \* how often the NPCs are reloaded

ASSUME ShopsAssumption ==
    NoNpc \notin Merchants /\ MaxReloads \in Nat

VARIABLES
    shop,           \* the players and the NPCs, below
    loads,          \* history: how often the scripts have been reloaded
    refs,           \* the live references to callbacks in the registry
    leaked          \* history: those that nobody holds

shopVars == <<shop, loads, refs, leaked>>

(* What a player and an NPC have of a shop.  calls are the callbacks that   *)
(* are not -1, madeIn the load of the script that gave them.                *)
NoShop == [owner |-> NoNpc, calls |-> {}, madeIn |-> 0, goods |-> NoNpc]

ShopInit ==
    /\ shop = [of |-> [p \in Customers |-> NoShop],
               set |-> [n \in Merchants |-> {}],
               playing |-> {}, placed |-> Merchants]
    /\ loads = 0 /\ refs = {} /\ leaked = {}

(* References that a set of players holds.                                  *)
HeldBy(s, P) == UNION {s.of[p].calls : p \in P}

-----------------------------------------------------------------------------
(* Player::closeShopWindow for the players P: the callbacks are given back  *)
(* and the owner forgets the player (Npc::onPlayerEndTrade).                *)
CloseFor(P) ==
    /\ shop' = [shop EXCEPT
         !.of = [p \in Customers |-> IF p \in P THEN NoShop ELSE @[p]],
         !.set = [n \in Merchants |-> @[n] \ {p \in P : shop.of[p].owner = n}]]
    /\ refs' = refs \ HeldBy(shop, P)

(* Game::playerCloseShop.                                                   *)
CloseShop(p) ==
    /\ p \in shop.playing
    /\ CloseFor({p})
    /\ UNCHANGED <<loads, leaked>>

(* Player::onRemoveCreature.                                                *)
CustomerLeaves(p) ==
    /\ p \in shop.playing
    /\ shop' = [shop EXCEPT
         !.of[p] = NoShop, !.playing = @ \ {p},
         !.set = [n \in Merchants |-> IF shop.of[p].owner = n THEN @[n] \ {p} ELSE @[n]]]
    /\ refs' = refs \ shop.of[p].calls
    /\ UNCHANGED <<loads, leaked>>

CustomerComes(p) ==
    /\ p \notin shop.playing
    /\ shop' = [shop EXCEPT !.playing = @ \cup {p}]
    /\ UNCHANGED <<loads, refs, leaked>>

(* openShopWindow(cid, ...) and npc:openShopWindow(player, ...): up to two  *)
(* callbacks are referenced, another window of the player is closed, and    *)
(* the new one opened.                                                      *)
OpenShop(p, n) ==
    /\ p \in shop.playing /\ n \in shop.placed
    /\ \E calls \in {S \in SUBSET (References \ refs) : Cardinality(S) <= 2} :
         /\ shop' = [shop EXCEPT
              !.of[p] = [owner |-> n, calls |-> calls, madeIn |-> loads, goods |-> n],
              !.set = [m \in Merchants |->
                         IF m = n THEN @[m] \cup {p}
                         ELSE IF shop.of[p].owner = m THEN @[m] \ {p} ELSE @[m]]]
         /\ refs' = (refs \ shop.of[p].calls) \cup calls
    /\ UNCHANGED <<loads, leaked>>

(* openShopWindow(cid, ...) takes references to the callbacks and then      *)
(* finds no list of items, no player (lines 826, 853), or, the window of    *)
(* the player closed, no NPC (line 865): they stay.                         *)
OpenFails ==
    /\ \E P \in {{}} \cup {{p} : p \in shop.playing}, r \in References \ refs :
         /\ shop' = [shop EXCEPT
              !.of = [p \in Customers |-> IF p \in P THEN NoShop ELSE @[p]],
              !.set = [n \in Merchants |-> @[n] \ {p \in P : shop.of[p].owner = n}]]
         /\ refs' = (refs \ HeldBy(shop, P)) \cup {r}
         /\ leaked' = leaked \cup {r}
    /\ UNCHANGED loads

(* closeShopWindow(cid), npc:closeShopWindow(player): only the owner's own. *)
(* The list of goods is kept.                                               *)
CloseByScript(p, n) ==
    /\ p \in shop.playing /\ n \in shop.placed
    /\ shop.of[p].owner = n
    /\ shop' = [shop EXCEPT
         !.of[p] = [NoShop EXCEPT !.goods = shop.of[p].goods],
         !.set[n] = @ \ {p}]
    /\ refs' = refs \ shop.of[p].calls
    /\ UNCHANGED <<loads, leaked>>

-----------------------------------------------------------------------------
(* Npc::closeAllShopWindows for the NPCs N: every player of the set closes  *)
(* its window, and one that has none is dropped from the set.               *)
AllClosed(N) ==
    LET P == UNION {shop.set[n] : n \in N}
    IN  [shop EXCEPT
           !.of = [p \in Customers |-> IF p \in P THEN NoShop ELSE @[p]],
           !.set = [n \in Merchants |->
                      IF n \in N THEN {} ELSE @[n] \ {p \in P : shop.of[p].owner = n}]]

(* Npc::onRemoveCreature, of itself.                                        *)
NpcLeaves(n) ==
    /\ n \in shop.placed
    /\ shop' = [AllClosed({n}) EXCEPT !.placed = @ \ {n}]
    /\ refs' = refs \ HeldBy(shop, shop.set[n])
    /\ UNCHANGED <<loads, leaked>>

NpcComes(n) ==
    /\ n \notin shop.placed
    /\ shop' = [shop EXCEPT !.placed = @ \cup {n}]
    /\ UNCHANGED <<loads, refs, leaked>>

(* A bug it could have: the sets are cleared (Npc::reset) and no window is  *)
(* closed.                                                                  *)
BadReloadNpcs ==
    /\ loads < MaxReloads
    /\ shop' = [shop EXCEPT !.set = [n \in Merchants |-> {}]]
    /\ loads' = loads + 1
    /\ UNCHANGED <<refs, leaked>>

(* Npcs::reload: all windows are closed, which gives their callbacks back;  *)
(* every NPC is reset, and its script loaded again.                         *)
ReloadNpcs ==
    /\ loads < MaxReloads
    /\ shop' = AllClosed(shop.placed)
    /\ refs' = refs \ HeldBy(shop, UNION {shop.set[n] : n \in shop.placed})
    /\ loads' = loads + 1
    /\ UNCHANGED leaked

-----------------------------------------------------------------------------
ShopNext ==
    \/ \E p \in Customers :
         \/ CloseShop(p) \/ CustomerLeaves(p) \/ CustomerComes(p)
         \/ \E n \in Merchants : OpenShop(p, n) \/ CloseByScript(p, n)
    \/ OpenFails
    \/ \E n \in Merchants : NpcLeaves(n) \/ NpcComes(n)
    \/ ReloadNpcs

ShopSpec == ShopInit /\ [][ShopNext]_shopVars

-----------------------------------------------------------------------------
Windows ==
    [owner: Merchants \cup {NoNpc}, calls: SUBSET References,
     madeIn: Nat, goods: Merchants \cup {NoNpc}]

ShopTypeOK ==
    /\ shop \in [of: [Customers -> Windows],
                 set: [Merchants -> SUBSET Customers],
                 playing: SUBSET Customers, placed: SUBSET Merchants]
    /\ loads \in Nat
    /\ refs \subseteq References /\ leaked \subseteq References

(* A player shops with an NPC exactly when the NPC lists it; both are there *)
(* then, the goods are that NPC's, and the callbacks a purchase would call  *)
(* (Npc::onPlayerTrade) are of its script as it was loaded last.  Every     *)
(* reference in the registry is held by one player, but for those an error  *)
(* left, which stay for ever: the close of one window frees no callback of  *)
(* another, and none outlives its window, over a reload either.             *)
ShopsSound ==
    /\ \A p \in Customers, n \in Merchants :
         shop.of[p].owner = n <=> p \in shop.set[n]
    /\ \A p \in Customers : shop.of[p].owner # NoNpc =>
         /\ p \in shop.playing /\ shop.of[p].owner \in shop.placed
         /\ shop.of[p].goods = shop.of[p].owner
         /\ shop.of[p].madeIn = loads
    /\ refs = HeldBy(shop, Customers) \cup leaked
    /\ \A p \in Customers :
         shop.of[p].calls \cap (leaked \cup HeldBy(shop, Customers \ {p})) = {}
=============================================================================
