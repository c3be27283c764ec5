SPECIFICATION BackgroundSpec
CONSTANTS
    Main = main
    Linked = {l1}
    MaxSessions = 2
    MaxStarts = 2
    MaxKills = 1
PROPERTIES
    StartedMeansReady
CHECK_DEADLOCK FALSE
