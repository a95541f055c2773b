------------------------------ MODULE WorldMC -------------------------------
(* Model-checking instance of what is put into the world: the items one     *)
(* player carries, items that decay, a spawn with its monsters, a house, or *)
(* raids.  They share no state, so each is explored beside an initial state *)
(* of the others.                                                           *)
EXTENDS Items, Decay, Spawns, Houses, Raids, TLC

MC_Kinds == {"bag", "gold", "platinum", "star", "bow", "torch", "ash"}
MC_Stackable == {"gold", "platinum", "star"}
MC_WeightOf == [k \in MC_Kinds |-> CASE k = "bag" -> 3 [] k = "bow" -> 2 [] k = "torch" -> 2 [] OTHER -> 1]
MC_Worth == [k \in MC_Kinds \cup {"none"} |-> CASE k = "gold" -> 1 [] k = "platinum" -> 3 [] OTHER -> 0]
MC_Coins == <<"platinum", "gold">>
MC_FitsIn == <<{"bag"}, {"torch"}, {"bow", "star"}>>
MC_Hands == {2, 3}
MC_Bags == {"b1", "b2"}
MC_Room == [b \in MC_Bags |-> IF b = "b1" THEN 3 ELSE 1]
E(kind, n, b) == [kind |-> kind, n |-> n, bag |-> b]
N == E("none", 0, "no bag")
MC_Nothing == [k \in MC_Kinds |-> 0]
(* A bag in a bag, a weapon in the hand and some ammunition on the ground.  *)
Nested ==
    [slot |-> <<E("bag", 1, "b1"), N, E("bow", 1, "no bag")>>,
     has |-> [b1 |-> <<E("bag", 1, "b2"), E("gold", 1, "no bag")>>, b2 |-> <<E("platinum", 1, "no bag")>>,
              ground |-> <<E("star", 2, "no bag"), E("torch", 1, "no bag")>>],
     parent |-> [b1 |-> "player", b2 |-> "b1"],
     total |-> [b1 |-> 5, b2 |-> 1], load |-> 10,
     trade |-> "no bag", offered |-> FALSE, discarded |-> MC_Nothing]
(* Hardly any room left, and coins of both kinds.                           *)
Full ==
    [slot |-> <<E("bag", 1, "b1"), E("torch", 1, "no bag"), E("star", 1, "no bag")>>,
     has |-> [b1 |-> <<E("star", 2, "no bag"), E("platinum", 2, "no bag"), E("gold", 1, "no bag")>>,
              b2 |-> <<E("gold", 2, "no bag")>>, ground |-> <<E("bag", 1, "b2")>>],
     parent |-> [b1 |-> "player", b2 |-> "ground"],
     total |-> [b1 |-> 5, b2 |-> 2], load |-> 11,
     trade |-> "no bag", offered |-> FALSE, discarded |-> MC_Nothing]
(* A full bag with an empty one in it, and a coin.                          *)
Crowded ==
    [slot |-> <<E("bag", 1, "b1"), N, N>>,
     has |-> [b1 |-> <<E("bag", 1, "b2"), E("gold", 1, "no bag"), E("ash", 1, "no bag")>>, b2 |-> <<>>, ground |-> <<>>],
     parent |-> [b1 |-> "player", b2 |-> "b1"],
     total |-> [b1 |-> 5, b2 |-> 0], load |-> 8,
     trade |-> "no bag", offered |-> FALSE, discarded |-> MC_Nothing]
MC_InitWorlds == {Nested, Full, Crowded}
MC_Becomes == {<<"torch", "ash">>}

(* A torch: unlit it keeps its time.  A corpse with it inside rots to bones *)
(* and goes.                                                                *)
MC_DecayKinds == {"unlit", "lit", "burnt", "corpse", "bones"}
MC_DecayTo == [k \in MC_DecayKinds |-> CASE k = "lit" -> "burnt" [] k = "corpse" -> "bones" [] k = "bones" -> "gone" [] OTHER -> "never"]
MC_DecayTime == [k \in MC_DecayKinds |-> CASE k = "lit" -> 16 [] k = "corpse" -> 8 [] k = "bones" -> 15 [] OTHER -> 0]
MC_Group == [k \in MC_DecayKinds |-> CASE k \in {"unlit", "lit"} -> 1 [] k = "burnt" -> 2 [] OTHER -> 3]
MC_Scripted == {<<"unlit", "lit">>, <<"lit", "unlit">>, <<"corpse", "bones">>}
MC_StartWith == [i \in {1, 2} |-> IF i = 1 THEN "corpse" ELSE "unlit"]
MC_Contents == [i \in {2} |-> 1]

MC_Texts == {{}, {"q"}}
MC_Steps == [r \in {"wolves", "orcs"} |-> IF r = "wolves" THEN 2 ELSE 1]

NothingCarried == calls = 0 /\ world = Nested
NothingElse == DecayInit /\ SpawnInit /\ HouseInit /\ RaidInit

MCNext ==
    \/ NothingElse /\ ItemNext /\ UNCHANGED <<decayVars, spawnVars, houseVars, raidVars>>
    \/ NothingCarried /\ SpawnInit /\ HouseInit /\ RaidInit /\ DecayNext
         /\ UNCHANGED <<itemVars, spawnVars, houseVars, raidVars>>
    \/ NothingCarried /\ DecayInit /\ HouseInit /\ RaidInit /\ SpawnNext
         /\ UNCHANGED <<itemVars, decayVars, houseVars, raidVars>>
    \/ NothingCarried /\ DecayInit /\ SpawnInit /\ RaidInit /\ HouseNext
         /\ UNCHANGED <<itemVars, decayVars, spawnVars, raidVars>>
    \/ NothingCarried /\ DecayInit /\ SpawnInit /\ HouseInit /\ RaidNext
         /\ UNCHANGED <<itemVars, decayVars, spawnVars, houseVars>>

MCInit == ItemInit /\ NothingElse

(* checkDecay is always enabled: it is fair where only decay is explored.   *)
MCSpec ==
    /\ MCInit
    /\ [][MCNext]_<<itemVars, decayVars, spawnVars, houseVars, raidVars>>
    /\ WF_decayVars(NothingCarried /\ SpawnInit /\ HouseInit /\ RaidInit /\ CheckDecay)
    /\ SpawnFairness /\ RaidFairness

(* What keeps a world going comes to its end: an item that decays decays to *)
(* the end (Game::checkDecay), a spawn has its monsters again               *)
(* (Spawn::checkSpawn).                                                     *)
WorldSettles == DecayEnds /\ SpawnRefills
=============================================================================
