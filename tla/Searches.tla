------------------------------ MODULE Searches ------------------------------
(* What the server keeps beside the map and the list of players to search   *)
(* them: who sees a place (Spectators) and who has a name that begins so    *)
(* (Names).  Creatures move without a change of names, and names come and   *)
(* go in Game::addPlayer and removePlayer, which touch no tile.             *)
EXTENDS Spectators, Names

searchVars == <<spectVars, nameVars>>

SearchInit == SpectInit /\ NameInit

SearchNext ==
    \/ SpectNext /\ UNCHANGED nameVars
    \/ NameNext /\ UNCHANGED spectVars

SearchSpec == SearchInit /\ [][SearchNext]_searchVars

-----------------------------------------------------------------------------
(* Whoever looks for players finds those there are: what is kept beside the *)
(* map and the list of players, to search it by place or by name, agrees    *)
(* with it (Map::getSpectators, Game::getPlayerByNameWildcard).             *)
SearchesTrue == SpectatorsTrue /\ FoundByName
=============================================================================
