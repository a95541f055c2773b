CONSTANTS
    Connections = {c1, c2}
    None = None
SPECIFICATION Spec
INVARIANT ReleasedPlaysNobody
CHECK_DEADLOCK FALSE
