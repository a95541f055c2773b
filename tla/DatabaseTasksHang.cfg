CONSTANTS
    q1 = q1
    q2 = q2
    q3 = q3
    n1 = n1
    n2 = n2
    dispatcher = dispatcher
    network = network
    NoQuery = NoQuery
    Queries <- MCQueries
    WithCallback <- MCWithCallback
    Callers <- MCCallers
    Controller = dispatcher
    Notes <- MCNotes
    MaxSaves = 0
    MaxFaults = 0
SPECIFICATION MCSpec
PROPERTY ShutdownEndsThread
CHECK_DEADLOCK FALSE
