---------------------------- MODULE CreaturesMC ------------------------------
(* Model-checking instance of creatures and what drives them.  Two events   *)
(* of the scheduler, which may be given different ids, the same, or the id  *)
(* 0; or the walk of a creature over the events TimerService promises; or   *)
(* two players and two monsters on a line.  They share no state here, so    *)
(* each is explored beside the initial states of the others.                *)
EXTENDS Scheduler, CreatureWalk, Creatures

CONSTANTS e1, e2

MCEvents == {e1, e2}

(* A monster that sees nobody, a player in its place or next to it, and one *)
(* that monsters do not mind.                                               *)
MC_Openings == {<<"q", "m", 1, 1>>} \cup {<<"p", "m", 1, j>> : j \in 1..3} \cup {<<"p", "m", 2, j>> : j \in 1..2}
MC_Orders == {<<"p", "q", "m", "n">>, <<"n", "m", "q", "p">>}
Unseen == zoo.at["q"] = 1

MCNext ==
    \/ turns = 0 /\ Unseen /\ Next /\ WalkInit /\ UNCHANGED <<walkVars, zooVars>>
    \/ turns = 0 /\ Unseen /\ WalkNext /\ Init /\ UNCHANGED <<vars, zooVars>>
    \/ Init /\ WalkInit /\ ZooNext /\ UNCHANGED <<vars, walkVars>>

MCInit == Init /\ WalkInit /\ ZooInit

MCSpec ==
    /\ MCInit
    /\ [][MCNext]_<<vars, walkVars, zooVars>>
    /\ Fairness /\ WalkFairness

(* What is scheduled comes to an end, whatever is stopped too late: every   *)
(* event of the scheduler is delivered or deleted, and when the commands    *)
(* cease every walk comes to rest (Scheduler::addEvent, Creature::onWalk).  *)
EventsDieOut == EventsEnd /\ WalkEnds
=============================================================================
