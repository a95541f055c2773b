------------------------------- MODULE Names -------------------------------
(***************************************************************************)
(* The search for a player by the beginning of its name (wildcardtree.cpp, *)
(* Game::getPlayerByNameWildcard): the names of the players in the game    *)
(* are kept in a tree with one letter per node, beside the map from whole  *)
(* names to players.  A node is the word that leads to it; those where a   *)
(* name ends are breakpoints.  No two players in the game have one name.   *)
(***************************************************************************)
EXTENDS Naturals, FiniteSets, SequencesExt

CONSTANTS
    Letters,
    PlayerNames,    \* the names, as sequences of letters
    Asked           \* the beginnings that are asked for

ASSUME NamesAssumption ==
    /\ PlayerNames \subseteq Seq(Letters) \ {<<>>}
    /\ Asked \subseteq Seq(Letters)

VARIABLES
    mappedPlayerNames,  \* Game::mappedPlayerNames: the names in the game
    nodes,              \* the nodes of Game::wildcardTree, its root included
    breakpoints         \* the nodes that are breakpoints

nameVars == <<mappedPlayerNames, nodes, breakpoints>>

NameInit ==
    /\ mappedPlayerNames = {}
    /\ nodes = {<<>>}
    /\ breakpoints = {}

-----------------------------------------------------------------------------
(* WildcardTreeNode::insert.                                                *)
Insert(name) ==
    /\ nodes' = nodes \cup Prefixes(name)
    /\ breakpoints' = breakpoints \cup {name}

(* A bug it could have: only the node of the last letter is erased.         *)
BadErased(name) ==
    {node \in {name} : \A other \in nodes : IsPrefix(node, other) => other = node}

(* The nodes that remove erases, from the end of the name upwards: those    *)
(* below which nothing is left but the way to the name.                     *)
Erased(name) ==
    {node \in Prefixes(name) \ {<<>>} :
        \A other \in nodes : IsPrefix(node, other) =>
            IsPrefix(other, name) /\ other \notin breakpoints \ {name}}

(* WildcardTreeNode::remove.                                                *)
RemoveName(name) ==
    IF Prefixes(name) \subseteq nodes
    THEN nodes' = nodes \ Erased(name) /\ breakpoints' = breakpoints \ {name}
    ELSE UNCHANGED <<nodes, breakpoints>>

(* Game::addPlayer, Game::removePlayer.                                     *)
AddPlayer(name) ==
    /\ name \notin mappedPlayerNames
    /\ mappedPlayerNames' = mappedPlayerNames \cup {name}
    /\ Insert(name)

RemovePlayer(name) ==
    /\ name \in mappedPlayerNames
    /\ mappedPlayerNames' = mappedPlayerNames \ {name}
    /\ RemoveName(name)

NameNext == \E name \in PlayerNames : AddPlayer(name) \/ RemovePlayer(name)

-----------------------------------------------------------------------------
NotOnline == [found |-> FALSE, why |-> "not online"]
Ambiguous == [found |-> FALSE, why |-> "too ambiguous"]
FoundAs(name) == [found |-> TRUE, name |-> name]

Children(node) == {other \in nodes : other # <<>> /\ Front(other) = node}

(* WildcardTreeNode::findOne: down to the word, and on while there is one   *)
(* way to go and no name ends.                                              *)
GoOn[node \in nodes] ==
    LET next == Children(node) IN
    IF next = {} THEN FoundAs(node)
    ELSE IF Cardinality(next) > 1 \/ node \in breakpoints THEN Ambiguous
    ELSE GoOn[CHOOSE child \in next : TRUE]

FindOne(word) == IF word \in nodes THEN GoOn[word] ELSE NotOnline

(* Game::getPlayerByNameWildcard, of a name with ~ at its end.              *)
ByWildcard(word) ==
    LET answer == FindOne(word) IN
    IF answer.found /\ answer.name \notin mappedPlayerNames THEN NotOnline ELSE answer

-----------------------------------------------------------------------------
(* A search by the beginning of a name finds the player exactly when one    *)
(* player in the game has such a name, and otherwise says which it is: none *)
(* or several, whoever came and went before (Game::getPlayerByNameWildcard).*)
FoundByName ==
    \A word \in Asked :
        LET fits == {name \in mappedPlayerNames : IsPrefix(word, name)} IN
        ByWildcard(word) =
          CASE fits = {} -> NotOnline
            [] Cardinality(fits) = 1 -> FoundAs(CHOOSE name \in fits : TRUE)
            [] OTHER -> Ambiguous
=============================================================================
