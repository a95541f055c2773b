CONSTANTS
    c1 = c1
    c2 = c2
    c3 = c3
    None = None
    Connections <- MCConnections
    p1 = p1
    p2 = p2
    p3 = p3
    gm = gm
    NoPlayer = NoPlayer
    Clients <- MixedPlayers
    Premium <- MixedPremium
    Privileged <- MixedPrivileged
    MaxPlayers = 2
SPECIFICATION MCSpec
INVARIANT ReferencesRight
INVARIANT ClientIsMutual
PROPERTY NoTakeover
PROPERTY SessionsEnd
PROPERTY AdmittedInTurn
CHECK_DEADLOCK FALSE
