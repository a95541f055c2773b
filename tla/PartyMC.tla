------------------------------ MODULE PartyMC ------------------------------
(* Model-checking instance of what belongs to the players of a game: parties, *)
(* channels and guilds, conditions.  They share no state, so each is explored *)
(* beside the initial states of the others, channels and conditions beside    *)
(* the one where all players are alike.                                       *)
EXTENDS Party, Channels, Conditions, TLC

CONSTANTS ann, bob, cid, g1, g2, h1, h2, talk1, talk2, talk3, guild1, guild2

MCPlayers == {ann, bob, cid}
MCParties == {g1, g2}
MCTalkers == {talk1, talk2, talk3}
MCPartyObjects == {h1, h2}
MCGuilds == {guild1, guild2}
MCRankless == {guild2}
Alike == Permutations(MCPlayers) \cup Permutations(MCParties)

(* Two strengths of haste, two lengths, and one of everything else.           *)
MCSpells ==
    {Condition("haste", Combat, 1, 2), Condition("haste", Combat, 2, 3),
     Condition("paralyze", Combat, 1, -4), Condition("invisible", Combat, 1, 0),
     Condition("attributes", Combat, 1, 1), Condition("attributes", Combat, 1, 2),
     Condition("fire", Combat, 1, 1), Condition("regeneration", Combat, 1, 1),
     Condition("drunk", Combat, 2, 2), Condition("drunk", Combat, 1, 3)}

AllAlike == \A p \in Players : level[p] = 2 /\ room[p] = 1
Unhurt == casts = 0 /\ CondInit

MCNext ==
    \/ requests = 0 /\ Unhurt /\ Next /\ UNCHANGED <<chatVars, condVars>>
    \/ Unhurt /\ Init /\ AllAlike /\ ChatNext /\ UNCHANGED <<vars, condVars>>
    \/ requests = 0 /\ ChatInit /\ Init /\ AllAlike /\ CondNext /\ UNCHANGED <<vars, chatVars>>

MCInit == Init /\ ChatInit /\ CondInit

MCSpec == MCInit /\ [][MCNext]_<<vars, chatVars, condVars>>
=============================================================================
