CONSTANTS
    Kinds <- MC_Kinds
    Stackable <- MC_Stackable
    BagKind = "bag"
    TwoHanded = {"bow"}
    WeightOf <- MC_WeightOf
    Worth <- MC_Worth
    Coins <- MC_Coins
    FitsIn <- MC_FitsIn
    Hands <- MC_Hands
    Bags <- MC_Bags
    Room <- MC_Room
    MaxStack = 2
    Capacity = 11
    InitWorlds <- MC_InitWorlds
    Becomes <- MC_Becomes
    Sums = {1, 2, 4, 9}
    MaxCalls = 3
    MaxObjects = 6
    DecayKinds <- MC_DecayKinds
    DecayTo <- MC_DecayTo
    DecayTime <- MC_DecayTime
    StopTime = {"unlit"}
    Group <- MC_Group
    Scripted <- MC_Scripted
    StartWith <- MC_StartWith
    Contents <- MC_Contents
    MaxScripts = 3
    Blocks = 2
    Shy = {1}
    Rate = 1
    MaxMonsters = 7
    MaxMishaps = 5
    Residents = {"p", "q", "r"}
    Editors = {"r"}
    Beds = {1}
    Texts <- MC_Texts
    Nobody = "nobody"
    FirstOwner = "p"
    MaxHouseTurns = 7
    RaidNames = {"wolves", "orcs"}
    Repeated = {"wolves"}
    Steps <- MC_Steps
    NoRaid = "no raid"
    MaxLoads = 3
SPECIFICATION MCSpec
 
 
INVARIANT DecaySound
INVARIANT SpawnSound
INVARIANT HomesSound
PROPERTY WorldSettles
PROPERTY RaidsGoOn
CHECK_DEADLOCK FALSE
