SPECIFICATION Spec
CONSTANTS
    Client = {c1, c2}
    Daemon = {p1, p2}
    NoOne = NoOne
    MaxCrashes = 1
    MaxCalls = 4
    MaxUpdates = 2
    SourcePath = {"x", "y"}
    Order <- MigratedPaths
    Documents <- MigratedDocuments
    Fingerprint = {"f", "g"}
    NoDocument = NoDocument
    Dangling = None
    MaxChanges = 2
    None = None
    Worktree = {w1, w2}
    Path = {f}
    Content = {x, y}
    MaxEdits = 2
    MaxRestarts = 1
    Repo = {r1, r2}
    Caller = {c1}
    Startup = s
    Nobody = Nobody
    MaxStarts = 2
    Absent = Absent
    SourceFile = {"x", "y", "z"}
    Directory <- GDirectory
    ClassOf <- GClassOf
    Stem <- GStem
    Words <- GWords
    Verb <- GVerb
    Key <- GKey
    Script <- GScript
    DriftThreshold = 350
    MaxGraphChanges = 2
    EndLines = TRUE
    NoFile = NoFile
    StoredPath = {"x", "y"}
    Text <- StoredTexts
    Contents <- StoredContents
    Backends = {"gob", "postgres", "qdrant"}
    ListLimit = 4
    Query = {"q"}
    Score <- Scores
    WordsIn <- WordCounts
    Boost <- Boosts
    Within = {"y"}
    RrfK = 2
    MaxFileEdits = 3
    MaxFailures = 1
    MaxReaders = 1
    Chunks = 4
    Pieces = 2
    Room = {0, 1, 2}
    Providers = {"ollama", "lmstudio", "openai"}
    Files = 2
    TokensOf <- Tokens
    FileTexts <- BatchTexts
    BatchSize = 2
    MaxBatchTokens = 2
    MaxWorkers = 2
    MaxAttempts = 1
    ReductionThreshold = 2
    RestorationThreshold = 2
    MaxPasses = 2
    Dir = {"/", "d", "e"}
    File = {"a", "f", "g", "h"}
    Root = "/"
    Above <- TreeAbove
    Hidden = {"h"}
    RuleFiles <- TreeRules
    Unindexed = None
    MaxTreeChanges = 2
    ServedTree = {"w1", "w2"}
    ServedPath = {"f"}
    ServedContent = {"x", "y"}
    Gone = Gone
    NoJob = "none"
    Rank <- HitRank
    ResultLimit = 1
    MaxTreeEdits = 1
    MaxDeadLetters = 1
    Name = {"r", "a", "b", "c"}
    Start = "r"
    LinkSets <- AtMostFour
    Definitions <- FewDefinitions
    Declared = {"r"}
    MaxDepth = 2
    NodeLimit = 4
    EdgeLimit = 4
INVARIANTS
    OneDaemonServes
    AnswersMatch
    GraphMirrorsStores
    PassesAreRight
    MergeKeepsTexts
    StoresAreSound
    WalkIsExact
    ReadsAreHonest
    SymbolsAreTheArtifacts
    RulesAreFollowed
    ProgramIsKept
    MigrationIsFaithful
PROPERTY RegistrationHolds
CHECK_DEADLOCK FALSE
