----------------------------- MODULE RpgManager -----------------------------
(***************************************************************************)
(* The RPG graph of a project and rpgRealtimeManager, which defers what is *)
(* expensive: the event loop updates the nodes of a file at once and marks *)
(* the file, a worker goroutine rebuilds the derived edges of the marked   *)
(* files and persists the graph, each on a ticker.  The symbols a graph is *)
(* derived from are kept in a store of their own, which is written first.  *)
(***************************************************************************)
EXTENDS Naturals, FiniteSets

CONSTANTS
    Paths,
    Contents,    \* what a file can hold
    Absent,      \* no file, no symbols
    MaxDirty     \* rpg_max_dirty_files_per_batch

ASSUME RpgAssumption == Absent \notin Contents /\ MaxDirty \in Nat \ {0}

VARIABLES
    symbols,       \* the content the stored symbols of each file come from
    nodes,         \* the contents whose symbols are nodes, for each file
    wired,         \* what the derived edges at each file were computed from
    dirtyFiles, dirtyDerived, dirtyPersist, forceFull,
    derivedFailures,
    batch,         \* the files of the refresh under way
    refresh,       \* what the worker is at: a rebuild under way, or a persist
                   \* that is not yet marked
    built,         \* BuildFull has run in this session; the worker is there
    touched,       \* files the event loop has changed and not yet marked
    savedGraph,    \* the graph in the file
    unbuilt        \* history: files a failed BuildFull left out, until an event

graph == [nodes |-> nodes, wired |-> wired]
graphVars == <<nodes, wired>>
managerVars == <<dirtyFiles, dirtyDerived, dirtyPersist, forceFull, derivedFailures>>
workerVars == <<batch, refresh>>
rpgVars == <<symbols, graphVars, managerVars, workerVars, built, touched, savedGraph, unbuilt>>

File == Contents \cup {Absent}
Outcomes == {"done", "unsaved", "unwired", "unlisted"}
rpgDerivedFailureThreshold == 3

\* What the derived edges at a file depend on.
Source(p) == [symbols |-> symbols[p], nodes |-> nodes[p]]
Bare == [symbols |-> Absent, nodes |-> {}]

RpgInit ==
    /\ symbols = [p \in Paths |-> Absent]
    /\ nodes = [p \in Paths |-> {}]
    /\ wired = [p \in Paths |-> Bare]
    /\ dirtyFiles = {} /\ dirtyDerived = FALSE /\ dirtyPersist = FALSE /\ forceFull = FALSE
    /\ derivedFailures = 0
    /\ batch = {} /\ refresh = "none"
    /\ built = FALSE /\ touched = {}
    /\ savedGraph = graph
    /\ unbuilt = {}

(***************************************************************************)
(* The event loop                                                          *)
(***************************************************************************)

Touch(p) == touched' = IF built THEN touched \cup {p} ELSE touched

\* SaveFileWithContentHash and DeleteFile replace all that is known of a file.
SaveSymbols(p, c) ==
    /\ symbols' = [symbols EXCEPT ![p] = c]
    /\ Touch(p)
    /\ UNCHANGED <<graphVars, managerVars, workerVars, built, savedGraph, unbuilt>>

\* RPGEncoder.HandleFileEvent.  HandleAdd does not remove what it does not
\* find again, HandleModify does.
HandleFileEvent(type, p) ==
    /\ built /\ (type # "delete" => symbols[p] # Absent)
    /\ nodes' = [nodes EXCEPT ![p] = CASE type = "create" -> @ \cup {symbols[p]}
                                       [] type = "modify" -> {symbols[p]}
                                       [] type = "delete" -> {}]
    /\ Touch(p)
    /\ UNCHANGED <<symbols, wired, managerVars, workerVars, built, savedGraph, unbuilt>>

\* Too many dirty files become one full refresh.
MarkFileDirty(p) ==
    LET files == dirtyFiles \cup {p}
        over == Cardinality(files) > MaxDirty
    IN  /\ built /\ touched' = touched \ {p}
        /\ dirtyFiles' = IF over THEN {} ELSE files
        /\ forceFull' = (forceFull \/ over)
        /\ dirtyDerived' = TRUE /\ dirtyPersist' = TRUE
        /\ unbuilt' = unbuilt \ {p}
        /\ UNCHANGED <<symbols, graphVars, derivedFailures, workerVars, built, savedGraph>>

(***************************************************************************)
(* The worker                                                              *)
(***************************************************************************)

ScheduleFullReconcile ==
    /\ built /\ refresh = "none"
    /\ forceFull' = TRUE /\ dirtyDerived' = TRUE
    /\ UNCHANGED <<symbols, graphVars, dirtyFiles, dirtyPersist, derivedFailures, workerVars,
                   built, touched, savedGraph, unbuilt>>

\* NextDerivedBatch: everything for a full refresh, else as many of the dirty
\* files as a batch holds.
NextDerivedBatch ==
    /\ built /\ refresh = "none" /\ (dirtyDerived \/ forceFull)
    /\ \/ /\ forceFull
          /\ refresh' = "full" /\ batch' = dirtyFiles
          /\ dirtyFiles' = {} /\ dirtyDerived' = FALSE /\ forceFull' = FALSE
       \/ /\ ~forceFull /\ dirtyFiles # {}
          /\ \E files \in SUBSET dirtyFiles :
                /\ IF Cardinality(dirtyFiles) <= MaxDirty THEN files = dirtyFiles
                                                          ELSE Cardinality(files) = MaxDirty
                /\ batch' = files /\ dirtyFiles' = dirtyFiles \ files
                /\ dirtyDerived' = (dirtyFiles' # {})
          /\ refresh' = "incremental"
          /\ UNCHANGED forceFull
    /\ UNCHANGED <<symbols, graphVars, dirtyPersist, derivedFailures, built, touched, savedGraph,
                   unbuilt>>

\* The edges at the refreshed files are computed under the encoder's lock
\* from the symbols and nodes of that moment.  MarkDerivedSuccess and
\* MarkPersistDirty follow; nothing between them is seen by anybody.
RefreshDerivedEdges ==
    /\ refresh \in {"incremental", "full"}
    /\ wired' = [p \in Paths |-> IF refresh = "full" \/ p \in batch THEN Source(p) ELSE wired[p]]
    /\ derivedFailures' = 0 /\ dirtyPersist' = TRUE
    /\ batch' = {} /\ refresh' = "none"
    /\ UNCHANGED <<symbols, nodes, dirtyFiles, dirtyDerived, forceFull, built, touched, savedGraph,
                   unbuilt>>

FailForgetsBatch ==                                             \* mutant
    /\ refresh \in {"incremental", "full"}
    /\ wired' = [p \in Paths |-> IF refresh = "full" \/ p \in batch THEN Bare ELSE wired[p]]
    /\ derivedFailures' = derivedFailures + 1
    /\ dirtyDerived' = TRUE
    /\ forceFull' = (forceFull \/ derivedFailures' >= rpgDerivedFailureThreshold)
    /\ batch' = {} /\ refresh' = "none"
    /\ UNCHANGED <<symbols, nodes, dirtyFiles, dirtyPersist, built, touched, savedGraph, unbuilt>>

\* The old edges were removed before the failure.  MarkDerivedFailure puts
\* the batch back, without MarkFileDirty's bound.
RefreshFails ==
    /\ refresh \in {"incremental", "full"}
    /\ wired' = [p \in Paths |-> IF refresh = "full" \/ p \in batch THEN Bare ELSE wired[p]]
    /\ derivedFailures' = derivedFailures + 1
    /\ dirtyDerived' = TRUE /\ dirtyFiles' = dirtyFiles \cup batch
    /\ forceFull' = (forceFull \/ refresh = "full" \/ derivedFailures' >= rpgDerivedFailureThreshold)
    /\ batch' = {} /\ refresh' = "none"
    /\ UNCHANGED <<symbols, nodes, dirtyPersist, built, touched, savedGraph, unbuilt>>

\* GOBRPGStore.Persist, also called by the event loop's own ticker.
PersistGraph ==
    /\ savedGraph' = graph
    /\ UNCHANGED <<symbols, graphVars, managerVars, workerVars, built, touched, unbuilt>>

\* The worker's ticker.  A mark made between Persist and MarkPersisted is
\* wiped: what it stands for waits for the event loop's ticker.
PersistTick ==
    /\ built /\ refresh = "none" /\ dirtyPersist
    /\ savedGraph' = graph
    /\ refresh' = "persisted"
    /\ UNCHANGED <<symbols, graphVars, managerVars, batch, built, touched, unbuilt>>

MarkPersisted ==
    /\ refresh = "persisted"
    /\ dirtyPersist' = FALSE
    /\ refresh' = "none"
    /\ UNCHANGED <<symbols, graphVars, dirtyFiles, dirtyDerived, forceFull, derivedFailures, batch,
                   built, touched, savedGraph, unbuilt>>

(***************************************************************************)
(* Start and end of a session                                              *)
(***************************************************************************)

\* BuildFull: the graph anew from the indexed files, edges included, then
\* persisted.  It fails with no node when the files cannot be listed, with no
\* derived edge when the calls cannot be loaded, and with the whole graph when
\* it cannot be saved.  The session goes on whichever it is, and
\* newRPGRealtimeManager starts with nothing to do.
BuildFull(files, outcome) ==
    /\ ~built /\ built' = TRUE
    /\ nodes' = [p \in Paths |-> IF outcome # "unlisted" /\ p \in files /\ symbols[p] # Absent
                                THEN {symbols[p]} ELSE {}]
    /\ wired' = [p \in Paths |-> IF outcome \in {"unlisted", "unwired"} THEN Bare
                                ELSE [symbols |-> symbols[p], nodes |-> nodes'[p]]]
    /\ savedGraph' = IF outcome = "done" THEN [nodes |-> nodes', wired |-> wired'] ELSE savedGraph
    /\ unbuilt' = {p \in Paths : outcome \in {"unlisted", "unwired"} /\ symbols[p] # Absent}
    /\ UNCHANGED <<symbols, managerVars, workerVars, touched>>

\* The process has ended, or starts with the symbols it loads; either way
\* there is no graph in memory until BuildFull.
Restart(loaded) ==
    /\ symbols' = loaded
    /\ nodes' = [p \in Paths |-> {}] /\ wired' = [p \in Paths |-> Bare]
    /\ dirtyFiles' = {} /\ dirtyDerived' = FALSE /\ dirtyPersist' = FALSE /\ forceFull' = FALSE
    /\ derivedFailures' = 0
    /\ batch' = {} /\ refresh' = "none"
    /\ built' = FALSE /\ touched' = {} /\ unbuilt' = {}
    /\ UNCHANGED savedGraph

RpgNext ==
    \/ \E p \in Paths, c \in File : SaveSymbols(p, c)
    \/ \E p \in Paths, type \in {"create", "modify", "delete"} : HandleFileEvent(type, p)
    \/ \E p \in Paths : MarkFileDirty(p)
    \/ ScheduleFullReconcile
    \/ NextDerivedBatch
    \/ RefreshDerivedEdges
    \/ RefreshFails
    \/ PersistGraph
    \/ PersistTick
    \/ MarkPersisted
    \/ \E files \in SUBSET Paths, outcome \in Outcomes : BuildFull(files, outcome)
    \/ \E loaded \in [Paths -> File] : Restart(loaded)

RpgSpec == RpgInit /\ [][RpgNext]_rpgVars

(***************************************************************************)
(* Properties                                                              *)
(***************************************************************************)

RpgTypeOK ==
    /\ symbols \in [Paths -> File]
    /\ nodes \in [Paths -> SUBSET Contents]
    /\ wired \in [Paths -> [symbols : File, nodes : SUBSET Contents]]
    /\ dirtyFiles \subseteq Paths /\ batch \subseteq Paths /\ touched \subseteq Paths
    /\ unbuilt \subseteq Paths
    /\ dirtyDerived \in BOOLEAN /\ dirtyPersist \in BOOLEAN /\ forceFull \in BOOLEAN /\ built \in BOOLEAN
    /\ derivedFailures \in Nat
    /\ refresh \in {"none", "incremental", "full", "persisted"}

\* A file is scheduled while some refresh, now or later, will rebuild its
\* derived edges.
Scheduled(p) == p \in dirtyFiles \cup batch \/ forceFull \/ refresh = "full"

\* Derived edges that no longer fit the symbols and nodes of their file are
\* never forgotten: a refresh of the file is due, under way, or the event loop
\* is about to ask for one, whatever overflows, failures and full refreshes
\* happen in between (MarkFileDirty, NextDerivedBatch, MarkDerivedFailure).
\* Only a build that fails schedules nothing: the files it left without edges
\* wait for an event of theirs or for the periodic full refresh.
StaleEdgesScheduled ==
    built => \A p \in Paths : Source(p) # wired[p] =>
        \/ Scheduled(p) \/ p \in touched
        \/ p \in unbuilt /\ wired[p] = Bare

\* What is scheduled wakes the worker: it looks at its set of dirty files only
\* when dirtyDerived or forceFull says so (NextDerivedBatch's first return).
ScheduledWakesWorker == dirtyFiles # {} => dirtyDerived \/ forceFull

\* Both together: derived edges that are stale will be refreshed.
StaleEdgesRefreshed == StaleEdgesScheduled /\ ScheduledWakesWorker
=============================================================================
