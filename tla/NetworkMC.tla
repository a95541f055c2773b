----------------------------- MODULE NetworkMC -----------------------------
(* Model-checking instance of the network side: the output pool with three *)
(* clients and two messages that do not fit in one buffer, or one          *)
(* connection, or one port; and of what is sent to clients and to whom:    *)
(* what two of them show of the map, who sees a place, who is found by     *)
(* name.  They share no state, so each is explored beside the initial      *)
(* state of the others.                                                    *)
EXTENDS OutputPool, Connection, ServicePort, TileView, Searches

CONSTANTS p1, p2, p3, m1, m2, gm, pat, ogre, west, east, far, rat, she

MCProtocols == {p1, p2, p3}
MCMessages == {m1, m2}
MCSize == (m1 :> 2) @@ (m2 :> 2)

(* Three tiles in a row, of which the outer ones do not see each other.  A   *)
(* gamemaster sees everything, another player neither ghosts nor invisible  *)
(* monsters: the two kinds of groups in data/XML/groups.xml.                *)
MCTiles == {west, east, far}
MCSight == (west :> {west, east}) @@ (east :> MCTiles) @@ (far :> {east, far})
MCNear == {<<west, east>>, <<east, west>>, <<east, far>>, <<far, east>>}
MCOrder == ("border" :> 1) @@ ("blood" :> 2)

(* Two columns of one leaf and one of the next, and what is below them.     *)
MCBeings == {she, rat}
MCPlaces == {[x |-> 1, z |-> 7], [x |-> 2, z |-> 7], [x |-> 5, z |-> 7], [x |-> 3, z |-> 8]}

(* A name that begins another one, two that part late, and one of its own.  *)
MCNames == {<<"a">>, <<"a", "n">>, <<"a", "n", "a", "x">>, <<"a", "n", "a", "y">>, <<"b", "o">>}
MCLetters == {"a", "b", "c", "n", "o", "x", "y"}
MCAsked == UNION {Prefixes(name) : name \in MCNames} \cup {<<"c">>, <<"b", "o", "b">>}

MCVars == <<vars, connVars, portVars, viewVars, spectVars, nameVars>>

(* What looks at the map is explored beside a network nobody has used.       *)
NoNetwork == Init /\ ConnInit /\ PortInit
NoMap == ViewInit /\ SpectInit /\ NameInit

MCNext ==
    \/ Next /\ ConnInit /\ PortInit /\ NoMap
         /\ UNCHANGED <<connVars, portVars, viewVars, spectVars, nameVars>>
    \/ ConnNext /\ Init /\ PortInit /\ NoMap
         /\ UNCHANGED <<vars, portVars, viewVars, spectVars, nameVars>>
    \/ PortNext /\ Init /\ ConnInit /\ NoMap
         /\ UNCHANGED <<vars, connVars, viewVars, spectVars, nameVars>>
    \/ ViewNext /\ NoNetwork /\ SpectInit /\ NameInit
         /\ UNCHANGED <<vars, connVars, portVars, spectVars, nameVars>>
    \/ SpectNext /\ NoNetwork /\ ViewInit /\ NameInit
         /\ UNCHANGED <<vars, connVars, portVars, viewVars, nameVars>>
    \/ NameNext /\ NoNetwork /\ ViewInit /\ SpectInit
         /\ UNCHANGED <<vars, connVars, portVars, viewVars, spectVars>>

MCInit == NoNetwork /\ NoMap

MCSpec ==
    /\ MCInit
    /\ [][MCNext]_MCVars
    /\ PoolFairness /\ ConnFairness
=============================================================================
