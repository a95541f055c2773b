CONSTANTS
    p1 = p1
    p2 = p2
    p3 = p3
    m1 = m1
    m2 = m2
    Capacity = 3
    Protocols <- MCProtocols
    Messages <- MCMessages
    Size <- MCSize
    MaxMessages = 3
    gm = gm
    pat = pat
    ogre = ogre
    west = west
    east = east
    far = far
    Tiles <- MCTiles
    Sight <- MCSight
    Near <- MCNear
    Viewers = {gm, pat}
    Access = {gm}
    Senses = {gm}
    Monsters = {ogre}
    Grounds = {"grass"}
    Tops = {"border", "blood"}
    Order <- MCOrder
    Splashes = {"blood"}
    Downs = {"fire", "stone"}
    Fields = {"fire"}
    Walls = {}
    NoGround = "none"
    ItemTiles = {east}
    Limit = 4
    Resend = 2
    MaxItems = 2
    rat = rat
    she = she
    Beings <- MCBeings
    Watchers = {she}
    Places <- MCPlaces
    ViewRange = 2
    FloorSize = 2
    Nowhere = Nowhere
    Letters <- MCLetters
    PlayerNames <- MCNames
    Asked <- MCAsked
SPECIFICATION MCSpec
INVARIANT ListedHasPass
INVARIANT InOrder
INVARIANT ConnectionSound
INVARIANT OneWayIn
INVARIANT ScreensTrue
INVARIANT SearchesTrue
PROPERTY ConnectionsEnd
CHECK_DEADLOCK FALSE
