SPECIFICATION EngineSpec
CONSTANTS
    p1 = p1
    p2 = p2
    hA = hA
    hB = hB
    hC = hC
    Paths = {p1, p2}
    Hashes = {hA, hB}
    NoHash = NoHash
    NoPath = NoPath
    Fingerprints = {f1, f2}
    NoFingerprint = NoFingerprint
    MaxGen = 3
    Workers = {w1}
    Passes = {watch}
    Watcher = watch
    Script <- TwoFiles
    MaxIndexInflight = 1
    MaxJobAttempts = 1
    MaxStops = 2
    MaxFaults = 1
    Restraints = {"calm deletes"}
INVARIANTS
    FingerprintCorrect
    DoneMeansPlanned
PROPERTIES
    IntentNotDropped
    CatalogSpec
