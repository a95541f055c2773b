CONSTANTS
    e1 = e1
    e2 = e2
    Events <- MCEvents
    IdSpace = 3
    MaxSteps = 3
    MaxEvents = 4
    MaxCommands = 7
    Players = {"p", "q"}
    Monsters = {"m", "n"}
    NoOne = "no one"
    Ignored = {"q"}
    Chasing = {"p"}
    Spots = {1, 2, 3}
    Sight = 0
    Watch = 1
    Leash = 1
    Roam = 1
    RemoveOnDespawn = FALSE
    Openings <- MC_Openings
    Orders <- MC_Orders
    MaxTurns = 3
SPECIFICATION MCSpec
INVARIANT TimersAreLive
INVARIANT WalkIsDriven
INVARIANT CreaturesSound
PROPERTY KeepsPromise
PROPERTY EventsDieOut
CHECK_DEADLOCK FALSE
