SPECIFICATION EngineLiveSpec
CONSTANTS
    p1 = p1
    p2 = p2
    hA = hA
    hB = hB
    hC = hC
    Paths = {p1}
    Hashes = {hA, hB, hC}
    NoHash = NoHash
    NoPath = NoPath
    Fingerprints = {f1}
    NoFingerprint = NoFingerprint
    MaxGen = 1
    Workers = {w1, w2}
    Passes = {watch}
    Watcher = watch
    Script <- Rewritten
    MaxIndexInflight = 1
    MaxJobAttempts = 2
    MaxStops = 2
    MaxFaults = 3
    Restraints = {"calm deletes"}
INVARIANTS
    ClaimsAreHeld
    SeenIsShownOrQueued
    IdleMeansFresh
PROPERTIES
    DeleteConfirmed
    NeverRegresses
    Converges
