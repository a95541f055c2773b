CONSTANTS
    q1 = q1
    q2 = q2
    q3 = q3
    n1 = n1
    n2 = n2
    dispatcher = dispatcher
    network = network
    NoQuery = NoQuery
    Queries <- MCQueries
    WithCallback <- MCWithCallback
    Callers <- MCCallers
    Controller = dispatcher
    Notes <- MCNotes
    MaxSaves = 3
    MaxFaults = 3
SPECIFICATION MCSpec
INVARIANT ExactlyOnce
INVARIANT OvertakesOnlyHeld
INVARIANT DatabaseSound
PROPERTY NoneLeftBehind
CHECK_DEADLOCK FALSE
