SPECIFICATION MCSpec
CONSTANTS
    Calls = {c1, c2}
    First = c1
    Nobody = Nobody
    ErrCap = 1
    MaxDisturbances = 1
INVARIANTS
    RacesLeaveOneLoop
    ChangeSignalled
PROPERTIES
    DirtyIsServed
    GoneEnds
CHECK_DEADLOCK FALSE
