CONSTANTS
    ann = ann
    bob = bob
    cid = cid
    g1 = g1
    g2 = g2
    h1 = h1
    h2 = h2
    talk1 = talk1
    talk2 = talk2
    talk3 = talk3
    guild1 = guild1
    guild2 = guild2
    None = None
    Players <- MCPlayers
    Parties <- MCParties
    Levels = {2, 4}
    Rooms = {1, 2}
    Noone = Noone
    Talkers <- MCTalkers
    PartyObjects <- MCPartyObjects
    Guilds <- MCGuilds
    Rankless <- MCRankless
    PrivateIds = {100, 101}
    MaxRequests = 7
    Spells <- MCSpells
    MaxHealth = 2
    BootSpeed = 1
    MaxCasts = 3
    MaxWaiting = 2
    MaxDeaths = 2
SYMMETRY Alike
SPECIFICATION MCSpec
INVARIANT PartiesSound
INVARIANT MembersSound
INVARIANT ConditionsSound
CHECK_DEADLOCK FALSE
