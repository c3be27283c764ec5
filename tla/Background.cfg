SPECIFICATION BackgroundSpec
CONSTANTS
    Main = main
    Linked = {l1}
    MaxSessions = 3
    MaxStarts = 2
    MaxKills = 1
INVARIANTS
    SessionsAreRight
    FilesTellTheTruth
PROPERTIES
    StopIsServed
CHECK_DEADLOCK FALSE
