CONSTANTS
    t1 = t1
    t2 = t2
    t3 = t3
    t4 = t4
    network = network
    scheduler = scheduler
    GameShutdown = GameShutdown
    Terminate = Terminate
    NoTask = NoTask
    Tasks <- MCTasks
    Expiring <- MCExpiring
    Others <- MCOthers
    mate1 = mate1
    mate2 = mate2
    foe = foe
    Fighters <- MCFighters
    Mates <- MCMates
    NoFighter = NoFighter
    LockAttacker = FALSE
    PzTime = 1
    WhiteTime = 2
    FragTime = 1
    KillsToRed = 1
    KillsToBlack = 2
    MaxTicks = 3
    MaxBlows = 2
SPECIFICATION MCSpec
INVARIANT SignalIsDue
INVARIANT SkullsTrue
PROPERTY ServesInOrder
PROPERTY ServesToTheEnd
CHECK_DEADLOCK FALSE
