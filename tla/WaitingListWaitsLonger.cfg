CONSTANTS
    p1 = p1
    p2 = p2
    p3 = p3
    NoPlayer = NoPlayer
    Clients <- PlainPlayers
    Premium <- Nobody
    Privileged <- Nobody
    MaxPlayers = 1
SPECIFICATION WaitSpec
PROPERTY WaitsLonger
CHECK_DEADLOCK FALSE
