SPECIFICATION EngineSpec
CONSTANTS
    p1 = p1
    p2 = p2
    hA = hA
    hB = hB
    hC = hC
    Paths = {p1}
    Hashes = {hA}
    NoHash = NoHash
    NoPath = NoPath
    Fingerprints = {f1}
    NoFingerprint = NoFingerprint
    MaxGen = 1
    Workers = {w1, w2}
    Passes = {watch}
    Watcher = watch
    Script <- Restored
    MaxIndexInflight = 1
    MaxJobAttempts = 2
    MaxStops = 0
    MaxFaults = 0
    Restraints = {}
PROPERTIES
    DeleteConfirmed
