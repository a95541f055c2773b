---------------------------- MODULE DispatcherMC ----------------------------
(* Model-checking instance of the dispatcher: four tasks, one that can      *)
(* expire, posted by two threads and by the tasks themselves; or of what    *)
(* its tasks of every second count, the fights and sentences of three       *)
(* players.  They share no state, so each is explored beside the initial    *)
(* state of the other.                                                      *)
EXTENDS Dispatcher, Skulls

CONSTANTS t1, t2, t3, t4, network, scheduler, mate1, mate2, foe

MCTasks == {t1, t2, t3, t4}
MCExpiring == {t4}
MCOthers == {network, scheduler}

(* Two of one party, or guild, and another player.                          *)
MCFighters == {mate1, mate2, foe}
MCMates == {<<mate1, mate2>>, <<mate2, mate1>>}

MCInit == Init /\ SkullInit

MCNext ==
    \/ Next /\ SkullInit /\ UNCHANGED skullVars
    \/ SkullNext /\ Init /\ phase = "online" /\ UNCHANGED vars

MCSpec == MCInit /\ [][MCNext]_<<vars, skullVars>> /\ Fairness
=============================================================================
