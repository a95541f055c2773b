CONSTANTS
    ann = ann
    bob = bob
    cid = cid
    bag = bag
    coin = coin
    gem = gem
    sam = sam
    tom = tom
    npc1 = npc1
    npc2 = npc2
    None = None
    Ground = Ground
    Gone = Gone
    GroundSquare = 1
    Capacity <- MCCapacity
    Stackables <- MCStackables
    Weight <- MCWeight
    Players <- MCPlayers
    Items <- MCItems
    Containers <- MCContainers
    Squares <- MCSquares
    Start <- MCStart
    StartSquare <- MCStartSquare
    Customers <- MCCustomers
    Merchants <- MCMerchants
    NoNpc = NoNpc
    References = {1, 2, 3, 4}
    MaxReloads = 2
SPECIFICATION MCSpec
INVARIANT PartnersAgree
INVARIANT TableExact
INVARIANT OffersStand
INVARIANT ShopsSound
 
CHECK_DEADLOCK FALSE
