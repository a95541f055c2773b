-------------------------------- MODULE Raids --------------------------------
(***************************************************************************)
(* Raids (raids.cpp): the check every minute that may start one, the raid  *)
(* that runs, and its events, each scheduled by the one before.  A reload  *)
(* deletes the raids of the list and makes new ones; a raid that cannot be *)
(* repeated is not in the list once a check has started it.  Events are    *)
(* those of TimerService: once handed to the dispatcher they are not taken *)
(* back, neither the check's nor a raid's.                                 *)
(***************************************************************************)
EXTENDS Naturals, FiniteSets

CONSTANTS
    RaidNames,
    Repeated,    \* the raids with repeat="yes"
    Steps,       \* how many events each has
    NoRaid,
    MaxLoads     \* bound: times the raids are loaded

ASSUME RaidsAssumption ==
    /\ Repeated \subseteq RaidNames /\ NoRaid \notin RaidNames
    /\ Steps \in [RaidNames -> Nat \ {0}] /\ MaxLoads \in Nat \ {0}

VARIABLES
    raidList,   \* Raids::raidList
    running,    \* Raids::running
    nextEvent,  \* Raid::nextEvent of each raid
    event,      \* its event: "none", "pending" with the scheduler, or "handed" over
    checks,     \* the check events that are pending, and that are handed over
    loads,      \* how often the raids were loaded
    overtaken,  \* history: a reload came after the check was handed over
    orphans     \* the raids that ran on when their list was reloaded

raidVars == <<raidList, running, nextEvent, event, checks, loads, overtaken, orphans>>

(* A raid of one load is another object than that of the next.              *)
AllRaids == RaidNames \X (1..MaxLoads)
LoadedRaids(n) == RaidNames \X {n}
NoneRuns == <<NoRaid, 0>>

RaidInit ==
    /\ raidList = LoadedRaids(1) /\ running = NoneRuns /\ loads = 1
    /\ nextEvent = [r \in AllRaids |-> 0] /\ event = [r \in AllRaids |-> "none"]
    /\ checks = [pending |-> 1, handed |-> 0]
    /\ overtaken = FALSE /\ orphans = {}

-----------------------------------------------------------------------------
(* The scheduler: a minute is over, or the delay of an event.               *)
CheckExpires ==
    /\ checks.pending > 0
    /\ checks' = [pending |-> checks.pending - 1, handed |-> checks.handed + 1]
    /\ UNCHANGED <<raidList, running, nextEvent, event, loads, overtaken, orphans>>

EventExpires(r) ==
    /\ event[r] = "pending"
    /\ event' = [event EXCEPT ![r] = "handed"]
    /\ UNCHANGED <<raidList, running, nextEvent, checks, loads, overtaken, orphans>>

(* Raid::startRaid.                                                         *)
Starts(r) ==
    /\ running' = r
    /\ event' = [event EXCEPT ![r] = IF nextEvent[r] < Steps[r[1]] THEN "pending" ELSE @]

(* Raids::checkRaids: chance and the margin since the last raid decide.     *)
CheckRaids ==
    /\ checks.handed > 0
    /\ checks' = [pending |-> checks.pending + 1, handed |-> checks.handed - 1]
    /\ \/ UNCHANGED <<running, event, raidList>>
       \/ \E r \in raidList :
            /\ running = NoneRuns /\ Starts(r)
            /\ raidList' = IF r[1] \in Repeated THEN raidList ELSE raidList \ {r}
    /\ UNCHANGED <<nextEvent, loads, overtaken, orphans>>

(* Game.startRaid of a script leaves the raid in the list.                  *)
StartRaid(r) ==
    /\ r \in raidList /\ running = NoneRuns
    /\ Starts(r)
    /\ UNCHANGED <<raidList, nextEvent, checks, loads, overtaken, orphans>>

(* A bug: an event that fails ends the chain and not the raid.              *)
BadExecuteRaidEvent(r) ==
    /\ event[r] = "handed"
    /\ \E ok \in BOOLEAN :
         /\ nextEvent' = [nextEvent EXCEPT ![r] = IF ok THEN (@ + 1) % Steps[r[1]] ELSE @]
         /\ event' = [event EXCEPT ![r] = IF ok /\ nextEvent'[r] # 0 THEN "pending" ELSE "none"]
         /\ running' = IF ok /\ nextEvent'[r] = 0 THEN NoneRuns ELSE running
    /\ UNCHANGED <<raidList, checks, loads, overtaken, orphans>>

(* Raid::executeRaidEvent: on to the next event, or resetRaid after the     *)
(* last one and after one that fails, which clears `running` whoever runs.  *)
ExecuteRaidEvent(r) ==
    /\ event[r] = "handed"
    /\ \E ok \in BOOLEAN :
         LET goesOn == ok /\ nextEvent[r] + 1 < Steps[r[1]]
         IN  /\ nextEvent' = [nextEvent EXCEPT ![r] = IF goesOn THEN @ + 1 ELSE 0]
             /\ event' = [event EXCEPT ![r] = IF goesOn THEN "pending" ELSE "none"]
             /\ running' = IF goesOn THEN running ELSE NoneRuns
    /\ UNCHANGED <<raidList, checks, loads, overtaken, orphans>>

(* Raids::reload and startup.  A raid whose event is handed over would be   *)
(* used after it is deleted: this is not followed any further.  Of several  *)
(* check events only the last one is known and stopped.                     *)
Reload ==
    /\ loads < MaxLoads
    /\ \A r \in raidList : event[r] # "handed"
    /\ loads' = loads + 1 /\ raidList' = LoadedRaids(loads + 1)
    /\ event' = [r \in AllRaids |-> IF r \in raidList THEN "none" ELSE event[r]]
    /\ running' = NoneRuns
    /\ \/ checks.pending = 0 /\ checks' = [checks EXCEPT !.pending = 1]
       \/ checks.pending > 0 /\ UNCHANGED checks
    /\ overtaken' = (overtaken \/ checks.handed > 0)
    /\ orphans' = orphans \cup {r \in AllRaids \ raidList : event[r] # "none"}
    /\ UNCHANGED nextEvent

-----------------------------------------------------------------------------
EventStep(r) == EventExpires(r) \/ ExecuteRaidEvent(r)

RaidNext ==
    \/ CheckExpires \/ CheckRaids \/ Reload
    \/ \E r \in AllRaids : StartRaid(r) \/ EventStep(r)

(* Time passes, and the dispatcher serves what is handed to it.             *)
RaidFairness == \A r \in AllRaids : WF_raidVars(EventStep(r))

RaidSpec == RaidInit /\ [][RaidNext]_raidVars /\ RaidFairness

-----------------------------------------------------------------------------
(* There is one check on its way at any time, unless a reload came too late *)
(* to stop one (Raids::clear); one raid runs at a time and it is the one    *)
(* with an event on its way, unless one that was not in the list ran on     *)
(* through a reload and ended another one's turn (resetRaid); and every     *)
(* raid that runs comes to an end, whatever fails in it, so that others can *)
(* start.                                                                   *)
OneCheck == ~overtaken => checks.pending + checks.handed = 1
OneRaid == orphans = {} => \A r \in AllRaids : event[r] # "none" <=> running = r
RaidsGoOn ==
    /\ [](OneCheck /\ OneRaid)
    /\ running # NoneRuns ~> running = NoneRuns
=============================================================================
