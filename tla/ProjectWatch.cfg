SPECIFICATION ProjectSpec
CONSTANTS
    a = a
    b = b
    Blank = Blank
    Absent = Absent
    Paths = {p1, p2}
    Contents = {a, b, Blank}
    MaxDirty = 1
    EventCap = 1
    Setups <- AllSetups
    Bounds <- SomeOfEach
INVARIANTS
    StoresMirrorTree
    ChangedIsMarked
    StaleEdgesRefreshed
PROPERTIES
    RpgSpec
CHECK_DEADLOCK FALSE
