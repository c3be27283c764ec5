------------------------- MODULE ProjectWatch_proofs -------------------------
(***************************************************************************)
(* For any files, contents, events and batch sizes, in every setup and     *)
(* under any faults: the edges of the graph that went stale stay due for a *)
(* refresh (ProjectWatch keeps to RpgManager), a file that changed since   *)
(* its symbols were taken is marked for the worker, and what a session at  *)
(* rest has in its three stores is the tree, but for the files it lost.    *)
(***************************************************************************)
EXTENDS ProjectWatch, TLAPS

(***************************************************************************)
(* The graph and its worker                                                *)
(***************************************************************************)

\* Between two refreshes the worker holds no files back.
BatchOfRefresh == refresh \in {"none", "persisted"} => batch = {}

RpgInv == RpgTypeOK /\ BatchOfRefresh /\ StaleEdgesScheduled /\ ScheduledWakesWorker

LEMMA RpgInitInv == RpgInit => RpgInv
<1> SUFFICES ASSUME RpgInit PROVE RpgInv
  OBVIOUS
<1>1. wired \in [Paths -> [symbols : File, nodes : SUBSET Contents]]
  BY DEF RpgInit, File, Bare
<1>2. RpgTypeOK
  BY <1>1 DEF RpgInit, RpgTypeOK, File
<1> QED
  BY <1>2 DEF RpgInit, RpgInv, BatchOfRefresh, StaleEdgesScheduled, ScheduledWakesWorker

(***************************************************************************)
(* One lemma for each conjunct of the invariant, one step for each action. *)
(***************************************************************************)

LEMMA RpgTypeStep ==
  ASSUME RpgTypeOK, [RpgNext]_rpgVars
  PROVE  RpgTypeOK'
<1> USE DEF RpgTypeOK, File
<1>1. CASE \E p \in Paths, c \in File : SaveSymbols(p, c)
  BY <1>1 DEF SaveSymbols, Touch, graphVars, managerVars, workerVars
<1>2. CASE \E p \in Paths, type \in {"create", "modify", "delete"} : HandleFileEvent(type, p)
  <2>1. PICK p \in Paths, type \in {"create", "modify", "delete"} : HandleFileEvent(type, p)
    BY <1>2
  <2>2. type # "delete" => symbols[p] \in Contents
    BY <2>1 DEF HandleFileEvent
  <2>3. nodes' \in [Paths -> SUBSET Contents]
    BY <2>1, <2>2 DEF HandleFileEvent
  <2> QED
    BY <2>1, <2>3 DEF HandleFileEvent, Touch, managerVars, workerVars
<1>3. CASE \E p \in Paths : MarkFileDirty(p)
  BY <1>3 DEF MarkFileDirty, graphVars, workerVars
<1>4. CASE ScheduleFullReconcile
  BY <1>4 DEF ScheduleFullReconcile, graphVars, workerVars
<1>5. CASE NextDerivedBatch
  BY <1>5 DEF NextDerivedBatch, graphVars
<1>6. CASE RefreshDerivedEdges
  BY <1>6 DEF RefreshDerivedEdges, Source
<1>7. CASE RefreshFails
  BY <1>7 DEF RefreshFails, Bare
<1>8. CASE PersistGraph
  BY <1>8 DEF PersistGraph, graphVars, managerVars, workerVars
<1>9. CASE PersistTick
  BY <1>9 DEF PersistTick, graphVars, managerVars
<1>10. CASE MarkPersisted
  BY <1>10 DEF MarkPersisted, graphVars
<1>11. CASE \E files \in SUBSET Paths, outcome \in Outcomes : BuildFull(files, outcome)
  <2>1. PICK files \in SUBSET Paths, outcome \in Outcomes : BuildFull(files, outcome)
    BY <1>11
  <2>2. nodes' \in [Paths -> SUBSET Contents]
    BY <2>1 DEF BuildFull
  <2>3. wired' \in [Paths -> [symbols : File, nodes : SUBSET Contents]]
    BY <2>1, <2>2 DEF BuildFull, Bare
  <2> QED
    BY <2>1, <2>2, <2>3 DEF BuildFull, managerVars, workerVars
<1>12. CASE \E loaded \in [Paths -> File] : Restart(loaded)
  <2>1. PICK loaded \in [Paths -> File] : Restart(loaded)
    BY <1>12
  <2>2. Bare \in [symbols : File, nodes : SUBSET Contents]
    BY DEF Bare
  <2>3. wired' \in [Paths -> [symbols : File, nodes : SUBSET Contents]]
    BY <2>1, <2>2 DEF Restart
  <2> QED
    BY <2>1, <2>3 DEF Restart
<1>13. CASE UNCHANGED rpgVars
  BY <1>13 DEF rpgVars, graphVars, managerVars, workerVars
<1> QED
  BY <1>1, <1>2, <1>3, <1>4, <1>5, <1>6, <1>7, <1>8, <1>9, <1>10, <1>11, <1>12, <1>13 DEF RpgNext

LEMMA BatchStep ==
  ASSUME RpgTypeOK, BatchOfRefresh, [RpgNext]_rpgVars
  PROVE  BatchOfRefresh'
  BY DEF RpgTypeOK, BatchOfRefresh, RpgNext, SaveSymbols, HandleFileEvent, MarkFileDirty,
     ScheduleFullReconcile, NextDerivedBatch, RefreshDerivedEdges, RefreshFails, PersistGraph,
     PersistTick, MarkPersisted, BuildFull, Restart, rpgVars, workerVars

LEMMA WakesStep ==
  ASSUME RpgTypeOK, ScheduledWakesWorker, [RpgNext]_rpgVars
  PROVE  ScheduledWakesWorker'
  BY DEF RpgTypeOK, ScheduledWakesWorker, RpgNext, SaveSymbols, HandleFileEvent, MarkFileDirty,
     ScheduleFullReconcile, NextDerivedBatch, RefreshDerivedEdges, RefreshFails, PersistGraph,
     PersistTick, MarkPersisted, BuildFull, Restart, rpgVars, managerVars

\* The event loop's own steps: what they make stale they have touched.
LEMMA TouchedStaleStep ==
  ASSUME RpgTypeOK, StaleEdgesScheduled, NEW p \in Paths,
         \/ \E c \in File : SaveSymbols(p, c)
         \/ \E type \in {"create", "modify", "delete"} : HandleFileEvent(type, p)
  PROVE  StaleEdgesScheduled'
<1> SUFFICES ASSUME built', NEW q \in Paths, Source(q)' # wired'[q]
             PROVE  (Scheduled(q) \/ q \in touched \/ (q \in unbuilt /\ wired[q] = Bare))'
  BY DEF StaleEdgesScheduled
<1>1. UNCHANGED <<wired, managerVars, workerVars, built, unbuilt>> /\ touched' = touched \cup {p}
  BY DEF SaveSymbols, HandleFileEvent, Touch, graphVars
<1>2. q # p => Source(q)' = Source(q)
  BY DEF Source, SaveSymbols, HandleFileEvent, RpgTypeOK, graphVars
<1>3. CASE q = p
  BY <1>1, <1>3
<1>4. CASE q # p
  BY <1>1, <1>2, <1>4 DEF StaleEdgesScheduled, Scheduled, managerVars, workerVars, Bare
<1> QED
  BY <1>3, <1>4

LEMMA StaleStep ==
  ASSUME RpgTypeOK, BatchOfRefresh, StaleEdgesScheduled, [RpgNext]_rpgVars
  PROVE  StaleEdgesScheduled'
<1> USE DEF StaleEdgesScheduled, Scheduled, Source, RpgTypeOK
<1>1. CASE \E p \in Paths, c \in File : SaveSymbols(p, c)
  BY <1>1, TouchedStaleStep
<1>2. CASE \E p \in Paths, type \in {"create", "modify", "delete"} : HandleFileEvent(type, p)
  BY <1>2, TouchedStaleStep
<1>3. CASE \E p \in Paths : MarkFileDirty(p)
  BY <1>3 DEF MarkFileDirty, graphVars, workerVars
<1>4. CASE ScheduleFullReconcile
  BY <1>4 DEF ScheduleFullReconcile, graphVars, workerVars
<1>5. CASE NextDerivedBatch
  BY <1>5 DEF NextDerivedBatch, BatchOfRefresh, graphVars
<1>6. CASE RefreshDerivedEdges
  BY <1>6 DEF RefreshDerivedEdges
<1>7. CASE RefreshFails
  BY <1>7 DEF RefreshFails
<1>8. CASE PersistGraph
  BY <1>8 DEF PersistGraph, graphVars, managerVars, workerVars
<1>9. CASE PersistTick
  BY <1>9 DEF PersistTick, graphVars, managerVars
<1>10. CASE MarkPersisted
  BY <1>10 DEF MarkPersisted, graphVars
<1>11. CASE \E files \in SUBSET Paths, outcome \in Outcomes : BuildFull(files, outcome)
  BY <1>11 DEF BuildFull, Bare, managerVars, workerVars
<1>12. CASE \E loaded \in [Paths -> File] : Restart(loaded)
  BY <1>12 DEF Restart
<1>13. CASE UNCHANGED rpgVars
  BY <1>13 DEF rpgVars, graphVars, managerVars, workerVars
<1> QED
  BY <1>1, <1>2, <1>3, <1>4, <1>5, <1>6, <1>7, <1>8, <1>9, <1>10, <1>11, <1>12, <1>13 DEF RpgNext

LEMMA RpgStepInv ==
  ASSUME RpgInv, [RpgNext]_rpgVars
  PROVE  RpgInv'
  BY RpgTypeStep, BatchStep, WakesStep, StaleStep DEF RpgInv

LEMMA RpgInvAlways == RpgSpec => []RpgInv
<1>1. RpgInv /\ [RpgNext]_rpgVars => RpgInv'
  BY RpgStepInv
<1> QED
  BY RpgInitInv, <1>1, PTL DEF RpgSpec

\* Every variable of the graph and of rpgRealtimeManager keeps its type.
THEOREM RpgTypeCorrect == RpgSpec => []RpgTypeOK
<1>1. RpgInv => RpgTypeOK
  BY DEF RpgInv
<1> QED
  BY RpgInvAlways, <1>1, PTL

\* Stale derived edges are never forgotten and their worker is awake, whatever
\* overflows, failures and full refreshes happen (MarkFileDirty,
\* NextDerivedBatch, MarkDerivedFailure).
THEOREM StaleEdgesAlwaysRefreshed == RpgSpec => []StaleEdgesRefreshed
<1>1. RpgInv => StaleEdgesRefreshed
  BY DEF RpgInv, StaleEdgesRefreshed
<1> QED
  BY RpgInvAlways, <1>1, PTL

(***************************************************************************)
(* The session                                                             *)
(***************************************************************************)

Steps == {"scan", "embed", "config", "symbols", "remove", "graph", "mark"}

EventOK == event = NoEvent \/ event \in [step : Steps, type : EventTypes, path : Paths, read : File]

\* The events on their way are events, and what the files of the project and
\* of the symbol store hold are contents.
DataOK ==
    /\ disk \in [Paths -> File] /\ saved.symbols \in [Paths -> File]
    /\ pending \in [Paths -> EventTypes \cup {"none"}]
    /\ sending \subseteq FileEvent /\ queue \in Seq(FileEvent)
    /\ EventOK

LEMMA DataInit == ProjectInit => DataOK
  BY ProjectAssumption DEF ProjectInit, DataOK, EventOK, Writable, File, WatcherInit, Nothing

(***************************************************************************)
(* Every step of a session is a step of the graph, or none                 *)
(***************************************************************************)

LEMMA NothingTyped == Nothing \in [Paths -> File]
  BY DEF Nothing, File

LEMMA EndIsRpg == EndSession => RpgNext
  BY NothingTyped DEF EndSession, RpgNext

LEMMA SaveIsRpg == SaveGraph => [RpgNext]_rpgVars
<1> SUFFICES ASSUME SaveGraph PROVE [RpgNext]_rpgVars
  OBVIOUS
<1>1. PersistGraph \/ UNCHANGED rpgVars
  BY DEF SaveGraph, PersistGraph, rpgVars
<1> QED
  BY <1>1 DEF RpgNext

LEMMA ScanIsRpg ==
  ASSUME DataOK, ScanStep
  PROVE  [RpgNext]_rpgVars
<1>1. CASE StartSession
  BY <1>1 DEF StartSession, DataOK, RpgNext
<1>2. CASE \E p \in Paths, fails \in BOOLEAN : FilterFile(p, fails)
  BY <1>2 DEF FilterFile
<1>3. CASE \E p \in Paths, fails \in BOOLEAN : ScanSymbols(p, fails)
  <2>1. PICK p \in Paths, fails \in BOOLEAN : ScanSymbols(p, fails)
    BY <1>3
  <2>2. UNCHANGED rpgVars \/ SaveSymbols(p, disk[p])
    BY <2>1 DEF ScanSymbols
  <2>3. disk[p] \in File
    BY DEF DataOK
  <2> QED
    BY <2>2, <2>3 DEF RpgNext
<1>4. CASE \E files \in SUBSET Paths : RemoveOldChunks(files)
  BY <1>4 DEF RemoveOldChunks
<1>5. CASE SaveVectors
  BY <1>5 DEF SaveVectors
<1>6. CASE EmbeddingFails
  BY <1>6, EndIsRpg DEF EmbeddingFails
<1>7. CASE \E kept, chunkless \in SUBSET Paths : RemoveGone(kept, chunkless)
  BY <1>7 DEF RemoveGone
<1>8. CASE SaveConfig
  BY <1>8 DEF SaveConfig
<1>9. CASE \E outcome \in Outcomes : BuildGraph(outcome)
  <2>1. UNCHANGED rpgVars \/ \E files \in SUBSET Paths, outcome \in Outcomes : BuildFull(files, outcome)
    BY <1>9 DEF BuildGraph
  <2> QED
    BY <2>1 DEF RpgNext
<1>10. CASE StartWatcher
  BY <1>10, SaveIsRpg DEF StartWatcher
<1> QED
  BY <1>1, <1>2, <1>3, <1>4, <1>5, <1>6, <1>7, <1>8, <1>9, <1>10 DEF ScanStep

LEMMA HandlerIsRpg ==
  ASSUME DataOK, HandlerStep
  PROVE  [RpgNext]_rpgVars
<1> DEFINE p == event.path
<1>0. event # NoEvent => p \in Paths /\ event.type \in EventTypes /\ event.read \in File
  BY DEF DataOK, EventOK
<1>1. CASE \E fails \in BOOLEAN : ScanEvent(fails)
  BY <1>1 DEF ScanEvent
<1>2. CASE \E fails \in BOOLEAN : EmbedEvent(fails)
  BY <1>2 DEF EmbedEvent
<1>3. CASE \E fails \in BOOLEAN : SymbolsEvent(fails)
  <2>1. UNCHANGED rpgVars \/ (event # NoEvent /\ SaveSymbols(p, event.read))
    BY <1>3 DEF SymbolsEvent, At, NoEvent
  <2> QED
    BY <2>1, <1>0 DEF RpgNext
<1>4. CASE \E due \in BOOLEAN : ConfigEvent(due)
  BY <1>4 DEF ConfigEvent
<1>5. CASE \E fails \in BOOLEAN : RemoveEvent(fails)
  <2>1. UNCHANGED rpgVars \/ (event # NoEvent /\ SaveSymbols(p, Absent))
    BY <1>5 DEF RemoveEvent, At, NoEvent
  <2> QED
    BY <2>1, <1>0 DEF RpgNext, File
<1>6. CASE GraphEvent
  <2>1. event # NoEvent /\ HandleFileEvent(IF event.type = "rename" THEN "delete" ELSE event.type, p)
    BY <1>6 DEF GraphEvent, At, NoEvent
  <2>2. (IF event.type = "rename" THEN "delete" ELSE event.type) \in {"create", "modify", "delete"}
    BY <2>1, <1>0 DEF EventTypes
  <2> QED
    BY <2>1, <2>2, <1>0 DEF RpgNext
<1>7. CASE MarkEvent
  <2>1. event # NoEvent /\ MarkFileDirty(p)
    BY <1>7 DEF MarkEvent, At, NoEvent
  <2> QED
    BY <2>1, <1>0 DEF RpgNext
<1> QED
  BY <1>1, <1>2, <1>3, <1>4, <1>5, <1>6, <1>7 DEF HandlerStep

LEMMA StepIsRpg ==
  ASSUME DataOK, [ProjectNext]_projectVars
  PROVE  [RpgNext]_rpgVars
<1>1. CASE \E p \in Paths, c \in File, type \in EventTypes : Edit(p, c, type)
  BY <1>1 DEF Edit
<1>2. CASE DeliverEvent
  BY <1>2 DEF DeliverEvent, FlushEvents, SendEvent, DropEvent, ReceiveEvent
<1>3. CASE WorkerStep
  BY <1>3 DEF WorkerStep, RpgNext
<1>4. CASE PersistTicker
  BY <1>4, SaveIsRpg DEF PersistTicker
<1>5. CASE Stop \/ Crash \/ CrashInPersist
  BY <1>5, EndIsRpg DEF Stop, Crash, CrashInPersist
<1>6. CASE UNCHANGED projectVars
  BY <1>6 DEF projectVars
<1> QED
  BY <1>1, <1>2, <1>3, <1>4, <1>5, <1>6, ScanIsRpg, HandlerIsRpg DEF ProjectNext

(***************************************************************************)
(* The data invariant                                                      *)
(***************************************************************************)

\* A step that leaves all of this alone, or ends the session.
LEMMA FrameData ==
  ASSUME RpgTypeOK, DataOK, UNCHANGED disk,
         saved'.symbols \in {saved.symbols, symbols},
         EndSession \/ UNCHANGED <<watcher, event>>
  PROVE  DataOK'
<1>1. saved'.symbols \in [Paths -> File]
  BY DEF DataOK, RpgTypeOK
<1>2. CASE EndSession
  BY <1>1, <1>2 DEF EndSession, CloseWatcher, DataOK, EventOK, FileEvent
<1>3. CASE UNCHANGED <<watcher, event>>
  BY <1>1, <1>3 DEF watcher, DataOK, EventOK
<1> QED
  BY <1>2, <1>3

LEMMA PersistData == PersistStores => saved'.symbols = symbols
  BY DEF PersistStores

LEMMA EditData ==
  ASSUME DataOK, NEW p \in Paths, NEW c \in File, NEW type \in EventTypes, Edit(p, c, type)
  PROVE  DataOK'
<1>1. disk' \in [Paths -> File]
  BY DEF DataOK, Edit
<1>2. UNCHANGED <<saved, event>>
  BY DEF Edit
<1>3. UNCHANGED watcher \/ Debounce(p, type)
  BY DEF Edit
<1> QED
  BY <1>1, <1>2, <1>3 DEF DataOK, EventOK, watcher, Debounce

LEMMA ScanData ==
  ASSUME RpgTypeOK, DataOK, ScanStep
  PROVE  DataOK'
<1>1. UNCHANGED disk /\ (EndSession \/ UNCHANGED <<watcher, event>>)
  BY DEF ScanStep, StartSession, FilterFile, ScanSymbols, RemoveOldChunks, SaveVectors,
     EmbeddingFails, RemoveGone, SaveConfig, BuildGraph, StartWatcher, tree
<1>2. UNCHANGED saved \/ saved'.symbols \in {saved.symbols, symbols}
  <2>1. CASE EmbeddingFails
    BY <2>1, PersistData DEF EmbeddingFails, index
  <2>2. CASE StartWatcher \/ SaveConfig
    BY <2>2 DEF SaveConfig, StartWatcher
  <2>3. CASE ~(EmbeddingFails \/ StartWatcher \/ SaveConfig)
    BY <2>3 DEF ScanStep, StartSession, FilterFile, ScanSymbols, RemoveOldChunks, SaveVectors,
       RemoveGone, BuildGraph
  <2> QED
    BY <2>1, <2>2, <2>3
<1> QED
  BY <1>1, <1>2, FrameData

LEMMA DeliverData ==
  ASSUME DataOK, DeliverEvent
  PROVE  DataOK'
<1> USE DEF DataOK, EventOK, tree
<1>1. CASE FlushEvents
  <2>1. sending' \subseteq FileEvent /\ pending' \in [Paths -> EventTypes \cup {"none"}]
    BY <1>1 DEF FlushEvents, Flush, FileEvent
  <2> QED
    BY <1>1, <2>1 DEF FlushEvents, Flush
<1>2. CASE \E e \in sending : SendEvent(e)
  BY <1>2 DEF SendEvent, Send
<1>3. CASE \E e \in sending : DropEvent(e)
  BY <1>3 DEF DropEvent, Drop
<1>4. CASE ReceiveEvent
  <2>1. Head(queue) \in FileEvent /\ Tail(queue) \in Seq(FileEvent)
    BY <1>4 DEF ReceiveEvent, Receive
  <2>2. event' \in [step : Steps, type : EventTypes, path : Paths, read : File]
    BY <1>4, <2>1 DEF ReceiveEvent, FileEvent, Steps, File
  <2> QED
    BY <1>4, <2>1, <2>2 DEF ReceiveEvent, Receive
<1> QED
  BY <1>1, <1>2, <1>3, <1>4 DEF DeliverEvent

LEMMA HandlerData ==
  ASSUME DataOK, HandlerStep
  PROVE  DataOK'
<1>1. UNCHANGED <<disk, saved, watcher>>
  BY DEF HandlerStep, ScanEvent, EmbedEvent, SymbolsEvent, ConfigEvent, RemoveEvent, GraphEvent,
     MarkEvent, tree
<1>2. event \in [step : Steps, type : EventTypes, path : Paths, read : File]
  BY DEF HandlerStep, ScanEvent, EmbedEvent, SymbolsEvent, ConfigEvent, RemoveEvent, GraphEvent,
     MarkEvent, At, DataOK, EventOK, NoEvent
<1>3. event' = NoEvent \/ \E s \in Steps, c \in File : event' = [event EXCEPT !.step = s, !.read = c]
  <2>1. CASE \E fails \in BOOLEAN : ScanEvent(fails)
    <3>1. disk[event.path] \in File
      BY <1>2 DEF DataOK
    <3> QED
      BY <2>1, <3>1 DEF ScanEvent, Steps
  <2>2. CASE ~\E fails \in BOOLEAN : ScanEvent(fails)
    <3>1. event' = NoEvent \/ \E s \in Steps : event' = [event EXCEPT !.step = s]
      BY <2>2 DEF HandlerStep, EmbedEvent, SymbolsEvent, ConfigEvent, RemoveEvent, GraphEvent,
         MarkEvent, Then, Steps
    <3>2. \A s \in Steps : [event EXCEPT !.step = s] = [event EXCEPT !.step = s, !.read = event.read]
      BY <1>2
    <3>3. event.read \in File
      BY <1>2
    <3>4. CASE \E s \in Steps : event' = [event EXCEPT !.step = s]
      <4>1. PICK s \in Steps : event' = [event EXCEPT !.step = s]
        BY <3>4
      <4>2. event' = [event EXCEPT !.step = s, !.read = event.read]
        BY <3>2, <4>1
      <4> QED
        BY <3>3, <4>2
    <3> QED
      BY <3>1, <3>4
  <2> QED
    BY <2>1, <2>2
<1>4. EventOK'
  BY <1>2, <1>3 DEF EventOK
<1> QED
  BY <1>1, <1>4 DEF DataOK, watcher

LEMMA DataStep ==
  ASSUME RpgTypeOK, DataOK, [ProjectNext]_projectVars
  PROVE  DataOK'
<1>1. CASE WorkerStep \/ PersistTicker
  <2>1. UNCHANGED <<disk, watcher, event>> /\ saved'.symbols \in {saved.symbols, symbols}
    BY <1>1, PersistData DEF WorkerStep, PersistTicker, SaveGraph, tree
  <2> QED
    BY <2>1, FrameData
<1>2. CASE Stop \/ Crash \/ CrashInPersist
  <2>1. UNCHANGED disk /\ EndSession
    BY <1>2 DEF Stop, Crash, CrashInPersist, tree
  <2>2. saved'.symbols \in {saved.symbols, symbols}
    BY <1>2, PersistData DEF Stop, Crash, CrashInPersist
  <2> QED
    BY <2>1, <2>2, FrameData
<1>3. CASE UNCHANGED projectVars
  BY <1>3, FrameData DEF projectVars, tree
<1> QED
  BY <1>1, <1>2, <1>3, EditData, ScanData, DeliverData, HandlerData DEF ProjectNext

(***************************************************************************)
(* The theorems                                                            *)
(***************************************************************************)

LEMMA ProjectInvAlways == ProjectSpec => [](RpgTypeOK /\ DataOK)
<1>1. ProjectInit => RpgTypeOK /\ DataOK
  BY DataInit, RpgInitInv DEF ProjectInit, RpgInv
<1>2. RpgTypeOK /\ DataOK /\ [ProjectNext]_projectVars => (RpgTypeOK /\ DataOK)'
  BY StepIsRpg, RpgTypeStep, DataStep
<1> QED
  BY <1>1, <1>2, PTL DEF ProjectSpec

\* Whatever the scan, the watch loop, the timers, crashes and failures do to
\* the graph is what RpgManager says (runInitialScan, handleFileEvent,
\* startRPGRealtimeWorkers).
THEOREM ProjectKeepsToRpg == ProjectSpec => RpgSpec
<1>1. ProjectInit => RpgInit
  BY DEF ProjectInit
<1>2. DataOK /\ [ProjectNext]_projectVars => [RpgNext]_rpgVars
  BY StepIsRpg
<1>3. ProjectSpec => []DataOK
  BY ProjectInvAlways, PTL
<1> QED
  BY <1>1, <1>2, <1>3, PTL DEF ProjectSpec, RpgSpec

\* So in every session stale derived edges stay due for a refresh.
THEOREM ProjectStaleEdgesRefreshed == ProjectSpec => []StaleEdgesRefreshed
  BY ProjectKeepsToRpg, StaleEdgesAlwaysRefreshed, PTL

(***************************************************************************)
(* What a session holds                                                    *)
(***************************************************************************)

Phases == {"down", "filter", "index", "symbols", "graph", "persist", "loop"}

IndexFile == [torn : BOOLEAN, doc : [Paths -> File], chunks : [Paths -> File]]

\* Chunks come from the document they belong to, and a document has some.
WellIndexed(d, c) == \A p \in Paths : c[p] \in {Absent, d[p]} /\ d[p] # Blank

SessionOK ==
    /\ setup \in Setups /\ pc \in Phases
    /\ newer \subseteq Paths /\ timed \in BOOLEAN
    /\ doc \in [Paths -> File] /\ chunks \in [Paths -> File] /\ todo \in [Paths -> File]
    /\ saved.index \in IndexFile
    /\ listed \subseteq Paths /\ left \subseteq listed /\ old \subseteq listed
    /\ gone \subseteq Paths \ listed /\ Read \subseteq listed
    /\ embedding \subseteq {p \in Read : todo[p] # Blank}
    /\ left # {} => pc \in {"filter", "symbols"}
    /\ Read # {} => pc \in {"filter", "index"}
    /\ embedding # {} => pc = "index"
    /\ pc = "filter" => Read \cap left = {}
    /\ lost \subseteq Paths /\ unsymbolled \subseteq Paths
    /\ indexed \in BOOLEAN
    /\ Len(queue) <= EventCap

IndexOK == WellIndexed(doc, chunks) /\ WellIndexed(saved.index.doc, saved.index.chunks)

\* Events exist in the loop only, the graph from its building on.
LoopOnly ==
    /\ pc # "loop" => event = NoEvent /\ WatcherIdle
    /\ pc \notin {"persist", "loop"} => ~built
    /\ ~built => touched = {}
    /\ event.step \in {"graph", "mark"} => built
    /\ ChangedIsMarked

\* What the event under way has read and done.
EventInv ==
    /\ event.step \in {"embed", "config", "symbols"} => event.read # Absent
    /\ event.step = "embed" => event.read # Blank /\ chunks[event.path] = Absent
    /\ event.step \in {"config", "symbols"} =>
          \/ doc[event.path] = event.read /\ chunks[event.path] = event.read
          \/ event.read = Blank /\ chunks[event.path] = Absent
    /\ event.step \in {"scan", "embed", "config", "symbols"} => event.type \in {"create", "modify"}
    /\ event.step = "remove" => event.type \in {"delete", "rename"}
    /\ event.step = "graph" /\ event.type \in {"delete", "rename"} => symbols[event.path] = Absent
    /\ event.step = "mark" => symbols[event.path] \in nodes[event.path] \cup {Absent}

BaseInv == RpgTypeOK /\ DataOK /\ SessionOK /\ IndexOK /\ LoopOnly /\ EventInv

(***************************************************************************)
(* Steps keep a session's data in shape                                    *)
(***************************************************************************)

\* What the index file may hold.
LEMMA IndexFiles ==
  ASSUME BaseInv, NEW file \in {saved.index, Empty, Torn, Index}
  PROVE  file \in IndexFile /\ WellIndexed(file.doc, file.chunks)
<1> USE DEF BaseInv
<1>1. CASE file = saved.index
  BY <1>1 DEF SessionOK, IndexOK
<1>2. CASE file = Empty \/ file = Torn
  <2>1. PICK torn \in BOOLEAN : file = [torn |-> torn, doc |-> Nothing, chunks |-> Nothing]
    BY <1>2 DEF Empty, Torn
  <2>2. file.doc = Nothing /\ file.chunks = Nothing
    BY <2>1
  <2>3. WellIndexed(Nothing, Nothing)
    BY ProjectAssumption DEF WellIndexed, Nothing
  <2> QED
    BY <2>1, <2>2, <2>3, NothingTyped DEF IndexFile
<1>3. CASE file = Index /\ file # Empty
  BY <1>3 DEF Index, SessionOK, IndexOK, IndexFile
<1> QED
  BY <1>1, <1>2, <1>3

LEMMA EndKeepsSession ==
  ASSUME BaseInv, EndSession, UNCHANGED <<tree, setup, history>>,
         saved'.index \in {saved.index, Empty, Torn, Index}
  PROVE  SessionOK' /\ IndexOK' /\ LoopOnly' /\ EventInv'
<1> USE DEF BaseInv
<1>1. saved'.index \in IndexFile /\ WellIndexed(saved'.index.doc, saved'.index.chunks)
  BY IndexFiles
<1>2. doc' \in [Paths -> File] /\ chunks' \in [Paths -> File] /\ WellIndexed(doc', chunks')
  BY NothingTyped, ProjectAssumption
     DEF EndSession, SessionOK, IndexOK, WellIndexed, Nothing, index
<1>3. todo' \in [Paths -> File] /\ Read' = {}
  BY NothingTyped DEF EndSession, Nothing, Read
<1>4. Len(queue') <= EventCap
  BY ProjectAssumption DEF EndSession, CloseWatcher
<1>5. SessionOK'
  BY <1>1, <1>2, <1>3, <1>4 DEF EndSession, SessionOK, Phases, tree, history
<1>6. LoopOnly'
  BY DEF EndSession, LoopOnly, Restart, CloseWatcher, WatcherIdle, ChangedIsMarked, NoEvent
<1>7. EventInv'
  BY DEF EndSession, EventInv, NoEvent
<1> QED
  BY <1>1, <1>2, <1>5, <1>6, <1>7 DEF IndexOK

LEMMA StartKeepsSession ==
  ASSUME BaseInv, StartSession
  PROVE  SessionOK' /\ IndexOK' /\ LoopOnly' /\ EventInv'
<1> USE DEF BaseInv
<1>1. doc' \in [Paths -> File] /\ chunks' \in [Paths -> File] /\ WellIndexed(doc', chunks')
  BY DEF StartSession, SessionOK, IndexOK, IndexFile, index
<1>2. SessionOK'
  BY <1>1 DEF StartSession, SessionOK, Read, Phases, tree, watcher
<1>3. LoopOnly'
  BY DEF StartSession, LoopOnly, Restart, WatcherIdle, ChangedIsMarked, NoEvent, watcher
<1>4. EventInv'
  BY DEF StartSession, EventInv, LoopOnly, NoEvent
<1> QED
  BY <1>1, <1>2, <1>3, <1>4 DEF IndexOK, StartSession

LEMMA ScanKeepsSession ==
  ASSUME BaseInv, ScanStep
  PROVE  SessionOK' /\ IndexOK' /\ LoopOnly' /\ EventInv'
<1> USE DEF BaseInv
<1>a. pc # "loop" /\ event = NoEvent
  BY DEF ScanStep, StartSession, FilterFile, ScanSymbols, RemoveOldChunks, SaveVectors,
     EmbeddingFails, RemoveGone, SaveConfig, BuildGraph, StartWatcher, LoopOnly
<1>b. ASSUME UNCHANGED event PROVE EventInv'
  BY <1>a, <1>b DEF EventInv, NoEvent
<1>1. CASE StartSession
  BY <1>1, StartKeepsSession
<1>2. CASE \E p \in Paths, fails \in BOOLEAN : FilterFile(p, fails)
  <2>1. PICK p \in Paths, fails \in BOOLEAN : FilterFile(p, fails)
    BY <1>2
  <2>2. todo' \in [Paths -> File] /\ Read' \subseteq listed
    BY <2>1 DEF FilterFile, SessionOK, Read, DataOK
  <2>3. SessionOK'
    <3>1. left' \subseteq left /\ lost' \subseteq Paths /\ pc' \in {"filter", "index"}
          /\ (left' # {} => pc' = "filter")
      BY <2>1 DEF FilterFile, SessionOK
    <3>2. embedding = {}
      BY <2>1 DEF FilterFile, SessionOK
    <3>3. Read' \cap left' = {}
      BY <2>1 DEF FilterFile, SessionOK, Read, DataOK
    <3> QED
      BY <2>1, <2>2, <3>1, <3>2, <3>3 DEF FilterFile, SessionOK, Phases, tree, index, watcher
  <2> QED
    BY <2>1, <2>3, <1>b DEF FilterFile, IndexOK, LoopOnly, index, watcher, rpgVars, WatcherIdle,
       ChangedIsMarked
<1>3. CASE \E p \in Paths, fails \in BOOLEAN : ScanSymbols(p, fails)
  <2>1. PICK p \in Paths, fails \in BOOLEAN : ScanSymbols(p, fails)
    BY <1>3
  <2>2. SessionOK'
    BY <2>1 DEF ScanSymbols, SessionOK, Phases, tree, index, watcher, Read
  <2>3. LoopOnly'
    BY <2>1, <1>a DEF ScanSymbols, LoopOnly, watcher, rpgVars, WatcherIdle, ChangedIsMarked,
       SaveSymbols, Touch
  <2> QED
    BY <2>1, <2>2, <2>3, <1>b DEF ScanSymbols, IndexOK, index
<1>4. CASE \E files \in SUBSET Paths : RemoveOldChunks(files)
  <2>1. PICK files \in SUBSET Paths : RemoveOldChunks(files)
    BY <1>4
  <2>2. /\ chunks' \in [Paths -> File] /\ todo' \in [Paths -> File] /\ indexed' \in BOOLEAN
        /\ WellIndexed(doc', chunks')
    BY <2>1 DEF RemoveOldChunks, SessionOK, IndexOK, WellIndexed, File
  <2>3. files \subseteq Read
    BY <2>1 DEF RemoveOldChunks
  <2>4. Read' \subseteq Read /\ embedding' \subseteq {p \in Read' : todo'[p] # Blank}
    BY <2>1, <2>2, <2>3 DEF RemoveOldChunks, SessionOK, Read
  <2>5. SessionOK'
    BY <2>1, <2>2, <2>4 DEF RemoveOldChunks, SessionOK, Phases, tree, watcher, history, Read
  <2> QED
    BY <2>1, <2>2, <2>5, <1>b DEF RemoveOldChunks, IndexOK, LoopOnly, watcher, rpgVars,
       WatcherIdle, ChangedIsMarked
<1>5. CASE SaveVectors
  <2>1. /\ doc' \in [Paths -> File] /\ chunks' \in [Paths -> File] /\ todo' \in [Paths -> File]
        /\ WellIndexed(doc', chunks') /\ Read' \subseteq Read
    BY <1>5 DEF SaveVectors, SessionOK, IndexOK, WellIndexed, File, Read
  <2>2. SessionOK'
    BY <1>5, <2>1 DEF SaveVectors, SessionOK, Phases, tree, watcher, history, Read
  <2> QED
    BY <1>5, <2>1, <2>2, <1>b DEF SaveVectors, IndexOK, LoopOnly, watcher, rpgVars, WatcherIdle,
       ChangedIsMarked
<1>6. CASE EmbeddingFails
  <2>1. CASE setup.batched
    BY <1>6, <2>1, EndKeepsSession DEF EmbeddingFails, PersistStores
  <2>2. CASE ~setup.batched
    <3>1. todo' \in [Paths -> File] /\ Read' \subseteq Read
      BY <1>6, <2>2 DEF EmbeddingFails, SessionOK, File, Read
    <3>2. SessionOK'
      BY <1>6, <2>2, <3>1 DEF EmbeddingFails, SessionOK, Phases, tree, watcher, index, Read
    <3> QED
      BY <1>6, <2>2, <3>2, <1>b DEF EmbeddingFails, IndexOK, LoopOnly, watcher, index, rpgVars,
         WatcherIdle, ChangedIsMarked
  <2> QED
    BY <2>1, <2>2
<1>7. CASE \E kept, chunkless \in SUBSET Paths : RemoveGone(kept, chunkless)
  <2>0. PICK kept \in SUBSET Paths, chunkless \in SUBSET Paths : RemoveGone(kept, chunkless)
    BY <1>7
  <2>1. /\ doc' \in [Paths -> File] /\ chunks' \in [Paths -> File]
        /\ WellIndexed(doc', chunks')
    BY <2>0, ProjectAssumption DEF RemoveGone, SessionOK, IndexOK, WellIndexed, File
  <2>2. SessionOK'
    BY <2>0, <2>1 DEF RemoveGone, SessionOK, Phases, tree, watcher, Read
  <2> QED
    BY <2>0, <2>1, <2>2, <1>b DEF RemoveGone, IndexOK, LoopOnly, watcher, rpgVars, WatcherIdle,
       ChangedIsMarked
<1>8. CASE SaveConfig
  <2>1. SessionOK'
    BY <1>8 DEF SaveConfig, SessionOK, Phases, watcher, index, Read
  <2> QED
    BY <1>8, <2>1, <1>b DEF SaveConfig, IndexOK, LoopOnly, watcher, index, rpgVars, WatcherIdle,
       ChangedIsMarked
<1>9. CASE \E outcome \in Outcomes : BuildGraph(outcome)
  <2>1. SessionOK'
    BY <1>9 DEF BuildGraph, SessionOK, Phases, tree, history, watcher, index, Read
  <2>2. LoopOnly'
    BY <1>9, <1>a DEF BuildGraph, BuildFull, LoopOnly, watcher, rpgVars, WatcherIdle,
       ChangedIsMarked, NoEvent
  <2> QED
    BY <1>9, <2>1, <2>2, <1>b DEF BuildGraph, IndexOK, index
<1>10. CASE StartWatcher
  <2>1. saved'.index \in IndexFile /\ WellIndexed(saved'.index.doc, saved'.index.chunks)
    BY <1>10, IndexFiles DEF StartWatcher
  <2>2. SessionOK'
    BY <1>10, <2>1 DEF StartWatcher, SessionOK, Phases, tree, history, watcher, index, Read
  <2> QED
    BY <1>10, <2>1, <2>2, <1>a, <1>b DEF StartWatcher, SaveGraph, IndexOK, LoopOnly, watcher, index,
       rpgVars, WatcherIdle, ChangedIsMarked, NoEvent
<1> QED
  BY <1>1, <1>2, <1>3, <1>4, <1>5, <1>6, <1>7, <1>8, <1>9, <1>10 DEF ScanStep

LEMMA EditKeepsSession ==
  ASSUME BaseInv, NEW p \in Paths, NEW c \in File, NEW type \in EventTypes, Edit(p, c, type)
  PROVE  SessionOK' /\ IndexOK' /\ LoopOnly' /\ EventInv'
<1> USE DEF BaseInv
<1>1. newer' \subseteq Paths /\ lost' \subseteq Paths /\ UNCHANGED queue
  BY DEF Edit, SessionOK, Debounce, watcher
<1>2. SessionOK'
  BY <1>1 DEF Edit, SessionOK, session, index, Read
<1>3. pc # "loop" => UNCHANGED watcher
  BY DEF Edit
<1>4. LoopOnly'
  BY <1>3 DEF Edit, LoopOnly, session, rpgVars, watcher, WatcherIdle, ChangedIsMarked
<1> QED
  BY <1>2, <1>4 DEF Edit, IndexOK, EventInv, index, rpgVars, graphVars

LEMMA DeliverKeepsSession ==
  ASSUME BaseInv, DeliverEvent
  PROVE  SessionOK' /\ IndexOK' /\ LoopOnly' /\ EventInv'
<1> USE DEF BaseInv
<1>1. pc = "loop"
  BY DEF DeliverEvent, FlushEvents, Flush, SendEvent, Send, DropEvent, Drop, ReceiveEvent,
     LoopOnly, WatcherIdle
<1>2. UNCHANGED <<tree, setup, session, index, saved, unsymbolled, rpgVars>>
  BY DEF DeliverEvent, FlushEvents, SendEvent, DropEvent, ReceiveEvent, history
<1>3. Len(queue') <= EventCap
  <2>1. queue \in Seq(FileEvent) /\ Len(queue) \in Nat /\ EventCap \in Nat /\ Len(queue) <= EventCap
    BY ProjectAssumption DEF DataOK, SessionOK
  <2>2. CASE ReceiveEvent
    <3>1. queue # <<>> /\ queue' = Tail(queue)
      BY <2>2 DEF ReceiveEvent, Receive
    <3>2. Len(queue') = Len(queue) - 1
      BY <2>1, <3>1
    <3> QED
      BY <2>1, <3>2
  <2>3. CASE \E e \in sending : SendEvent(e)
    <3>1. PICK e \in sending : queue' = Append(queue, e) /\ Len(queue) < EventCap
      BY <2>3 DEF SendEvent, Send
    <3>2. e \in FileEvent
      BY <3>1 DEF DataOK
    <3>3. Len(queue') = Len(queue) + 1
      BY <2>1, <3>1, <3>2
    <3> QED
      BY <2>1, <3>1, <3>3
  <2>4. CASE UNCHANGED queue
    BY <2>1, <2>4
  <2> QED
    BY <2>2, <2>3, <2>4 DEF DeliverEvent, FlushEvents, Flush, DropEvent, Drop
<1>4. lost' \subseteq Paths
  BY DEF DeliverEvent, FlushEvents, SendEvent, DropEvent, ReceiveEvent, history, SessionOK,
     DataOK, FileEvent
<1>5. SessionOK'
  BY <1>2, <1>3, <1>4 DEF SessionOK, tree, session, index, Read
<1>6. IndexOK'
  BY <1>2 DEF IndexOK, index
<1>7. \/ event' = event
      \/ /\ event = NoEvent
         /\ \/ event'.step = "scan" /\ event'.type \in {"create", "modify"}
            \/ event'.step = "remove" /\ event'.type \in {"delete", "rename"}
  <2>1. CASE ReceiveEvent
    <3>1. Head(queue) \in FileEvent
      BY <2>1 DEF ReceiveEvent, Receive, DataOK
    <3> QED
      BY <2>1, <3>1 DEF ReceiveEvent, FileEvent, EventTypes
  <2> QED
    BY <2>1 DEF DeliverEvent, FlushEvents, SendEvent, DropEvent
<1>8. LoopOnly'
  BY <1>1, <1>2, <1>7 DEF LoopOnly, ChangedIsMarked, session, rpgVars, NoEvent
<1>9. EventInv'
  BY <1>2, <1>7 DEF EventInv, index, rpgVars, graphVars
<1> QED
  BY <1>5, <1>6, <1>8, <1>9

\* At a step of handleFileEvent there is an event.
LEMMA AtEvent ==
  ASSUME DataOK, NEW step \in Steps, At(step)
  PROVE  /\ event \in [step : Steps, type : EventTypes, path : Paths, read : File]
         /\ event.path \in Paths /\ event.read \in File /\ event.step = step /\ pc = "loop"
  BY DEF At, DataOK, EventOK, NoEvent, Steps

LEMMA HandlerKeepsSession ==
  ASSUME BaseInv, HandlerStep
  PROVE  SessionOK' /\ IndexOK' /\ LoopOnly' /\ EventInv'
<1> USE DEF BaseInv
<1> DEFINE p == event.path
<1>a. event \in [step : Steps, type : EventTypes, path : Paths, read : File] /\ pc = "loop"
  BY AtEvent DEF HandlerStep, ScanEvent, EmbedEvent, ConfigEvent, SymbolsEvent, RemoveEvent,
     GraphEvent,
     MarkEvent, Steps
<1>b. p \in Paths /\ event.read \in File /\ disk[p] \in File
  BY <1>a DEF DataOK
<1>c. Then("mark").step \in {"none", "mark"} /\ Then("graph").step \in {"none", "graph"}
      /\ (built => /\ Then("graph").step = "graph" /\ Then("graph").path = p
                   /\ Then("mark").step = "mark" /\ Then("mark").path = p)
      /\ (~built => Then("graph").step = "none" /\ Then("mark").step = "none")
  BY <1>a DEF Then, NoEvent
<1>d. event.step \notin {"graph", "mark"} => touched = {}
  BY DEF LoopOnly, ChangedIsMarked, RpgTypeOK
<1>1. CASE \E fails \in BOOLEAN : ScanEvent(fails)
  <2>1. chunks' \in [Paths -> File] /\ WellIndexed(doc', chunks') /\ lost' \subseteq Paths
    BY <1>1, <1>b DEF ScanEvent, SessionOK, IndexOK, WellIndexed, File, index
  <2>2. SessionOK'
    BY <1>1, <2>1 DEF ScanEvent, SessionOK, tree, watcher, index, Read
  <2>3. IndexOK'
    BY <1>1, <2>1 DEF ScanEvent, IndexOK
  <2>4. \/ event' = NoEvent
        \/ /\ event'.step \in {"config", "embed"} /\ event'.path = p /\ event'.read = disk[p]
           /\ event'.type = event.type /\ disk[p] # Absent /\ (event'.step = "config" <=> disk[p] = Blank)
           /\ chunks' = [chunks EXCEPT ![p] = Absent]
    BY <1>1, <1>a DEF ScanEvent
  <2>5. LoopOnly'
    BY <1>1, <1>a, <2>4, <1>d DEF ScanEvent, LoopOnly, ChangedIsMarked, rpgVars, watcher,
       NoEvent, At, RpgTypeOK
  <2>6. EventInv'
    BY <1>1, <1>b, <2>4 DEF ScanEvent, At, EventInv, NoEvent, SessionOK
  <2> QED
    BY <2>2, <2>3, <2>5, <2>6
<1>2. CASE \E fails \in BOOLEAN : EmbedEvent(fails)
  <2>1. PICK fails \in BOOLEAN : EmbedEvent(fails)
    BY <1>2
  <2>2. event.read # Absent /\ event.read # Blank
    BY <2>1 DEF EmbedEvent, EventInv, At
  <2>3. doc' \in [Paths -> File] /\ chunks' \in [Paths -> File] /\ WellIndexed(doc', chunks') /\ lost' \subseteq Paths
    BY <2>1, <2>2, <1>b DEF EmbedEvent, SessionOK, IndexOK, WellIndexed, index
  <2>4. SessionOK'
    BY <2>1, <2>3 DEF EmbedEvent, SessionOK, tree, watcher, session, Read
  <2>5. IndexOK'
    BY <2>1, <2>3 DEF EmbedEvent, IndexOK
  <2>6. \/ event' = NoEvent
        \/ /\ event'.step = "config" /\ event'.path = p /\ event'.read = event.read
           /\ event'.type = event.type
           /\ doc' = [doc EXCEPT ![p] = event.read] /\ chunks' = [chunks EXCEPT ![p] = event.read]
    BY <2>1, <1>a DEF EmbedEvent
  <2>7. LoopOnly'
    BY <2>1, <1>a, <2>6, <1>d DEF EmbedEvent, LoopOnly, ChangedIsMarked, rpgVars, watcher,
       session, NoEvent, At, RpgTypeOK
  <2>8. EventInv'
    BY <2>1, <1>b, <2>2, <2>6 DEF EmbedEvent, At, EventInv, NoEvent, SessionOK
  <2> QED
    BY <2>4, <2>5, <2>7, <2>8
<1>3. CASE \E due \in BOOLEAN : ConfigEvent(due)
  <2>1. PICK due \in BOOLEAN : ConfigEvent(due)
    BY <1>3
  <2>2. SessionOK'
    BY <2>1 DEF ConfigEvent, SessionOK, index, watcher, history, Read
  <2>3. event'.step = "symbols" /\ event'.path = p /\ event'.read = event.read
        /\ event'.type = event.type
    BY <2>1, <1>a DEF ConfigEvent
  <2>4. LoopOnly'
    BY <2>1, <2>3, <1>a, <1>d DEF ConfigEvent, LoopOnly, ChangedIsMarked, rpgVars, At, RpgTypeOK
  <2>5. EventInv'
    BY <2>1, <2>3 DEF ConfigEvent, EventInv, index, At
  <2> QED
    BY <2>1, <2>2, <2>4, <2>5 DEF ConfigEvent, IndexOK, index
<1>4. CASE \E fails \in BOOLEAN : SymbolsEvent(fails)
  <2>1. PICK fails \in BOOLEAN : SymbolsEvent(fails)
    BY <1>4
  <2>2. SessionOK'
    BY <2>1, <1>b DEF SymbolsEvent, SessionOK, tree, index, watcher, session, Read
  <2>3. event'.step \in {"none", "graph"}
    BY <2>1, <1>c DEF SymbolsEvent, NoEvent
  <2>4. CASE fails
    BY <2>1, <2>2, <2>3, <2>4, <1>a, <1>d
       DEF SymbolsEvent, LoopOnly, ChangedIsMarked, rpgVars, At, RpgTypeOK, EventInv, session, IndexOK, index, NoEvent
  <2>5. CASE ~fails
    <3>1. built' = built /\ event' = Then("graph") /\ touched' = IF built THEN {p} ELSE {}
      BY <2>1, <2>5, <1>d DEF SymbolsEvent, SaveSymbols, Touch, At
    <3>2. LoopOnly'
      BY <2>1, <3>1, <1>a, <1>c DEF SymbolsEvent, LoopOnly, ChangedIsMarked, session
    <3> QED
      BY <2>1, <2>2, <2>3, <3>1, <3>2, <1>a, <1>c
         DEF SymbolsEvent, EventInv, IndexOK, index, Then, NoEvent, At
  <2> QED
    BY <2>4, <2>5
<1>5. CASE \E fails \in BOOLEAN : RemoveEvent(fails)
  <2>0. PICK fails \in BOOLEAN : RemoveEvent(fails)
    BY <1>5
  <2>1. doc' \in [Paths -> File] /\ chunks' \in [Paths -> File] /\ WellIndexed(doc', chunks')
    BY <2>0, <1>b, ProjectAssumption DEF RemoveEvent, SessionOK, IndexOK, WellIndexed, File
  <2>2. SessionOK'
    BY <2>0, <2>1, <1>b DEF RemoveEvent, SessionOK, tree, watcher, session, Read
  <2>3. event'.step \in {"none", "graph"}
    BY <2>0, <1>c DEF RemoveEvent, NoEvent
  <2>4. CASE fails
    BY <2>0, <2>1, <2>2, <2>4, <1>a, <1>d
       DEF RemoveEvent, LoopOnly, ChangedIsMarked, rpgVars, At, RpgTypeOK, EventInv, session, IndexOK, NoEvent
  <2>5. CASE ~fails
    <3>1. built' = built /\ event' = Then("graph") /\ touched' = IF built THEN {p} ELSE {}
      BY <2>0, <2>5, <1>d DEF RemoveEvent, SaveSymbols, Touch, At
    <3>2. LoopOnly'
      BY <2>0, <3>1, <1>a, <1>c DEF RemoveEvent, LoopOnly, ChangedIsMarked, session
    <3>3. event'.step = "graph" => event'.path = p /\ symbols'[p] = Absent
      BY <2>0, <2>5, <3>1, <1>b, <1>c DEF RemoveEvent, SaveSymbols, RpgTypeOK
    <3> QED
      BY <2>0, <2>1, <2>2, <2>3, <3>1, <3>2, <3>3 DEF RemoveEvent, EventInv, IndexOK
  <2> QED
    BY <2>4, <2>5
<1>6. CASE GraphEvent
  <2>1. SessionOK'
    BY <1>6 DEF GraphEvent, SessionOK, tree, index, watcher, session, history, Read
  <2>2. event' = Then("mark") /\ built /\ built' /\ touched' = touched \cup {p}
    BY <1>6 DEF GraphEvent, HandleFileEvent, Touch
  <2>3. \A q \in touched : q = p
    BY DEF LoopOnly, ChangedIsMarked
  <2>4. LoopOnly'
    BY <1>6, <2>2, <2>3, <1>a, <1>c DEF GraphEvent, LoopOnly, ChangedIsMarked, session
  <2>5. symbols'[p] \in nodes'[p] \cup {Absent}
    BY <1>6, <1>a, <1>b DEF GraphEvent, HandleFileEvent, EventInv, RpgTypeOK, EventTypes, At
  <2> QED
    BY <1>6, <2>1, <2>2, <2>4, <2>5, <1>c DEF GraphEvent, EventInv, IndexOK, index
<1>7. CASE MarkEvent
  <2>1. SessionOK'
    BY <1>7 DEF MarkEvent, SessionOK, tree, index, watcher, session, history, Read
  <2>2. event' = NoEvent /\ built' /\ touched' = touched \ {p}
    BY <1>7 DEF MarkEvent, MarkFileDirty
  <2>3. \A q \in touched : q = p
    BY DEF LoopOnly, ChangedIsMarked
  <2>4. LoopOnly'
    BY <1>7, <2>2, <2>3, <1>a DEF MarkEvent, LoopOnly, ChangedIsMarked, session, NoEvent
  <2> QED
    BY <1>7, <2>1, <2>2, <2>4 DEF MarkEvent, EventInv, IndexOK, index, NoEvent
<1> QED
  BY <1>1, <1>2, <1>3, <1>4, <1>5, <1>6, <1>7 DEF HandlerStep

LEMMA WorkerKeepsSession ==
  ASSUME BaseInv, WorkerStep \/ PersistTicker \/ Stop \/ Crash \/ CrashInPersist \/ UNCHANGED projectVars
  PROVE  SessionOK' /\ IndexOK' /\ LoopOnly' /\ EventInv'
<1> USE DEF BaseInv
<1>1. CASE Stop \/ Crash \/ CrashInPersist
  <2>1. saved'.index \in {saved.index, Empty, Torn, Index}
    BY <1>1 DEF Stop, Crash, CrashInPersist, PersistStores
  <2> QED
    BY <1>1, <2>1, EndKeepsSession DEF Stop, Crash, CrashInPersist
<1>2. CASE WorkerStep \/ PersistTicker \/ UNCHANGED projectVars
  <2>1. /\ UNCHANGED <<tree, setup, session, index, watcher, event, history, built, touched, symbols, nodes>>
        /\ saved'.index \in {saved.index, Index}
    BY <1>2 DEF WorkerStep, ScheduleFullReconcile, NextDerivedBatch, RefreshDerivedEdges,
       PersistTick,
       MarkPersisted, RefreshFails, PersistTicker, SaveGraph, PersistStores, projectVars, rpgVars,
       graphVars
  <2>2. saved'.index \in IndexFile /\ WellIndexed(saved'.index.doc, saved'.index.chunks)
    BY <2>1, IndexFiles
  <2>3. SessionOK'
    BY <2>1, <2>2 DEF SessionOK, tree, session, index, watcher, history, Read
  <2> QED
    BY <2>1, <2>2, <2>3 DEF IndexOK, LoopOnly, ChangedIsMarked, WatcherIdle, EventInv, session,
       index, watcher
<1> QED
  BY <1>1, <1>2

LEMMA BaseStep ==
  ASSUME BaseInv, [ProjectNext]_projectVars
  PROVE  BaseInv'
<1>1. RpgTypeOK' /\ DataOK'
  BY StepIsRpg, RpgTypeStep, DataStep DEF BaseInv
<1>2. SessionOK' /\ IndexOK' /\ LoopOnly' /\ EventInv'
  BY EditKeepsSession, ScanKeepsSession, DeliverKeepsSession, HandlerKeepsSession,
     WorkerKeepsSession
     DEF ProjectNext
<1> QED
  BY <1>1, <1>2 DEF BaseInv

LEMMA BaseInit == ProjectInit => BaseInv
<1> SUFFICES ASSUME ProjectInit PROVE BaseInv
  OBVIOUS
<1>1. RpgTypeOK /\ DataOK
  BY DataInit, RpgInitInv DEF ProjectInit, RpgInv
<1>2. saved.index = Empty /\ Empty.doc = Nothing /\ Empty.chunks = Nothing /\ Empty.torn = FALSE
  BY DEF ProjectInit, Empty
<1>3. Empty \in IndexFile
  BY NothingTyped DEF Empty, IndexFile
<1>4. SessionOK
  <2>1. Read = {} /\ Len(queue) <= EventCap
    BY ProjectAssumption DEF ProjectInit, Read, Nothing, WatcherInit
  <2> QED
    BY <1>2, <1>3, <2>1, NothingTyped DEF ProjectInit, SessionOK, Phases
<1>5. IndexOK
  BY <1>2, ProjectAssumption DEF ProjectInit, IndexOK, WellIndexed, Nothing
<1>6. LoopOnly /\ EventInv
  BY DEF ProjectInit, LoopOnly, EventInv, WatcherIdle, WatcherInit, RpgInit, NoEvent,
     ChangedIsMarked
<1> QED
  BY <1>1, <1>4, <1>5, <1>6 DEF BaseInv

LEMMA BaseAlways == ProjectSpec => []BaseInv
<1>1. BaseInv /\ [ProjectNext]_projectVars => BaseInv'
  BY BaseStep
<1> QED
  BY BaseInit, <1>1, PTL DEF ProjectSpec

\* The event loop never ends an event with a changed file it has not marked,
\* so the worker always hears of it (handleFileEvent, MarkFileDirty).
THEOREM ChangesAreMarked == ProjectSpec => []ChangedIsMarked
<1>1. BaseInv => ChangedIsMarked
  BY DEF BaseInv, LoopOnly
<1> QED
  BY BaseAlways, <1>1, PTL

(***************************************************************************)
(* What is on its way to the loop                                          *)
(***************************************************************************)

Removal == {"delete", "rename"}

InSending(p) == \E e \in sending : e.path = p
SendingRemoves(p) == \E e \in sending : e.path = p /\ e.type \in Removal

InQueue(p) == \E i \in DOMAIN queue : queue[i].path = p
QueueRemoves(p) == \E i \in DOMAIN queue : queue[i].path = p /\ queue[i].type \in Removal
QueueEndsInRemoval(p) ==
    \E i \in DOMAIN queue :
       /\ queue[i].path = p /\ queue[i].type \in Removal
       /\ \A j \in DOMAIN queue : j > i => queue[j].path # p

\* An event of the file is on its way; one that removes it is; the last one
\* on its way does.
Coming(p) == pending[p] # "none" \/ InSending(p) \/ InQueue(p)
RemovalComes(p) == pending[p] \in Removal \/ SendingRemoves(p) \/ QueueRemoves(p)
EndsInRemoval(p) ==
    \/ pending[p] \in Removal
    \/ pending[p] = "none" /\ SendingRemoves(p)
    \/ pending[p] = "none" /\ ~InSending(p) /\ QueueEndsInRemoval(p)

\* One event of a file is being sent at a time, and a file renamed away is not
\* there: one that comes back is a create.
WatcherOK ==
    /\ \A d, e \in sending : d.path = e.path => d = e
    /\ \A p \in Paths : pending[p] = "rename" => disk[p] = Absent

(***************************************************************************)
(* The stores and the tree, between two rests                              *)
(***************************************************************************)

Ev(step, p) == event.step = step /\ event.path = p
Mid(p) == event.step \in {"embed", "config", "symbols"} /\ event.path = p

\* A file the scan has looked at is indexed as it is, or will be.
Visited(p) ==
    /\ p \in gone => disk[p] = Absent
    /\ todo[p] # Absent => todo[p] = disk[p]
    /\ todo[p] = Absent /\ p \notin gone => InSync(p, doc, chunks)

ScanFollows(p) ==
    /\ pc = "filter" => p \in left \/ Visited(p)
    /\ pc = "index" => Visited(p)
    /\ pc \in {"symbols", "graph", "persist"} => InSync(p, doc, chunks)
    /\ pc \in {"filter", "index", "symbols"} /\ p \notin listed => disk[p] = Absent
    /\ p \notin unsymbolled =>
          /\ pc = "symbols" /\ p \in listed \ left => symbols[p] = disk[p]
          /\ pc \in {"graph", "persist"} => symbols[p] = disk[p]

\* The index is as the file is, or something that will see to it comes.
IndexFollows(p) ==
    /\ EndsInRemoval(p) \/ (Ev("remove", p) /\ ~Coming(p)) => disk[p] = Absent
    /\ disk[p] = Absent =>
          \/ RemovalComes(p) \/ Ev("remove", p)
          \/ InSync(p, doc, chunks) /\ ~Ev("embed", p)
    /\ ~Coming(p) /\ ~Ev("scan", p) /\ ~Ev("remove", p) =>
          \/ InSync(p, doc, chunks) /\ ~Ev("embed", p)
          \/ Ev("embed", p) /\ event.read = disk[p]

\* So are the symbols; an event that finds the document as it is leaves them
\* alone, and may, for whole documents have their symbols.
SymbolsFollow(p) ==
    /\ disk[p] = Absent =>
          \/ RemovalComes(p) \/ Ev("remove", p)
          \/ symbols[p] = Absent /\ ~Mid(p)
    /\ ~Coming(p) /\ ~Ev("scan", p) /\ ~Ev("remove", p) =>
          \/ symbols[p] = disk[p] /\ ~Mid(p)
          \/ Mid(p) /\ event.read = disk[p]
    /\ ~Mid(p) /\ doc[p] # Absent /\ chunks[p] = doc[p] => symbols[p] = doc[p]

GraphFits(p) ==
    IF symbols[p] = Absent THEN nodes[p] = {}
    ELSE doc[p] # Absent /\ ~setup.shared =>
            symbols[p] \in nodes[p] \/ (p \in unbuilt /\ nodes[p] = {})

\* What holds of a file with no update the index has overlooked.
FileInv(p) ==
    /\ ScanFollows(p)
    /\ pc = "loop" => IndexFollows(p)
    /\ p \notin unsymbolled =>
          /\ pc = "loop" => SymbolsFollow(p)
          /\ built => Mid(p) \/ Ev("graph", p) \/ GraphFits(p)

MirrorInv == WatcherOK /\ \A p \in Paths \ lost : FileInv(p)

(***************************************************************************)
(* What the watcher's operations do to what is on its way                  *)
(***************************************************************************)

LEMMA AppendToQueue ==
  ASSUME DataOK, NEW e \in FileEvent, queue' = Append(queue, e), NEW p \in Paths
  PROVE  /\ InQueue(p)' <=> (InQueue(p) \/ e.path = p)
         /\ QueueRemoves(p)' <=> (QueueRemoves(p) \/ (e.path = p /\ e.type \in Removal))
         /\ QueueEndsInRemoval(p)' <=>
               (IF e.path = p THEN e.type \in Removal ELSE QueueEndsInRemoval(p))
<1> DEFINE n == Len(queue)
<1>1. queue \in Seq(FileEvent) /\ n \in Nat /\ DOMAIN queue = 1..n
  BY DEF DataOK
<1>2. DOMAIN queue' = 1..(n+1) /\ queue'[n+1] = e /\ \A i \in 1..n : queue'[i] = queue[i]
  BY <1>1
<1>3. InQueue(p)' <=> (InQueue(p) \/ e.path = p)
  BY <1>1, <1>2 DEF InQueue
<1>4. QueueRemoves(p)' <=> (QueueRemoves(p) \/ (e.path = p /\ e.type \in Removal))
  BY <1>1, <1>2 DEF QueueRemoves
<1>5. CASE e.path = p
  <2>1. \A i \in 1..n : \E j \in 1..(n+1) : j > i /\ queue'[j].path = p
    BY <1>1, <1>2, <1>5
  <2> QED
    BY <1>1, <1>2, <1>3, <1>4, <1>5, <2>1 DEF QueueEndsInRemoval
<1>6. CASE e.path # p
  <2>1. QueueEndsInRemoval(p) => QueueEndsInRemoval(p)'
    BY <1>1, <1>2, <1>6 DEF QueueEndsInRemoval
  <2>2. QueueEndsInRemoval(p)' => QueueEndsInRemoval(p)
    BY <1>1, <1>2, <1>6 DEF QueueEndsInRemoval
  <2> QED
    BY <1>3, <1>4, <1>6, <2>1, <2>2
<1> QED
  BY <1>5, <1>6

LEMMA TakeFromQueue ==
  ASSUME DataOK, queue # <<>>, queue' = Tail(queue), NEW p \in Paths
  PROVE  /\ InQueue(p) <=> (InQueue(p)' \/ Head(queue).path = p)
         /\ QueueRemoves(p) <=> (QueueRemoves(p)' \/ (Head(queue).path = p /\ Head(queue).type \in Removal))
         /\ QueueEndsInRemoval(p) <=>
               (IF Head(queue).path = p /\ ~InQueue(p)' THEN Head(queue).type \in Removal
                ELSE QueueEndsInRemoval(p)')
<1> DEFINE n == Len(queue)
<1> DEFINE h == Head(queue)
<1>1. queue \in Seq(FileEvent) /\ n \in Nat \ {0} /\ DOMAIN queue = 1..n /\ queue[1] = h
  BY DEF DataOK
<1>2. DOMAIN queue' = 1..(n-1) /\ \A i \in 1..(n-1) : queue'[i] = queue[i+1]
  BY <1>1
<1>3. \A i \in 1..n : i # 1 => i - 1 \in 1..(n-1) /\ queue'[i-1] = queue[i]
  BY <1>1, <1>2
<1> HIDE DEF n, h
<1>4. InQueue(p) <=> (InQueue(p)' \/ h.path = p)
  <2>1. ASSUME NEW i \in 1..n, queue[i].path = p, i # 1 PROVE InQueue(p)'
    BY <1>2, <1>3, <2>1 DEF InQueue
  <2>2. ASSUME NEW i \in 1..(n-1), queue'[i].path = p PROVE InQueue(p)
    BY <1>1, <1>2, <2>2 DEF InQueue
  <2> QED
    BY <1>1, <1>2, <2>1, <2>2 DEF InQueue
<1>5. QueueRemoves(p) <=> (QueueRemoves(p)' \/ (h.path = p /\ h.type \in Removal))
  <2>1. ASSUME NEW i \in 1..n, queue[i].path = p, queue[i].type \in Removal, i # 1 PROVE QueueRemoves(p)'
    BY <1>2, <1>3, <2>1 DEF QueueRemoves
  <2>2. ASSUME NEW i \in 1..(n-1), queue'[i].path = p, queue'[i].type \in Removal PROVE QueueRemoves(p)
    BY <1>1, <1>2, <2>2 DEF QueueRemoves
  <2> QED
    BY <1>1, <1>2, <2>1, <2>2 DEF QueueRemoves
<1>6. QueueEndsInRemoval(p)' => QueueEndsInRemoval(p) /\ InQueue(p)'
  <2> SUFFICES ASSUME NEW i \in 1..(n-1), queue'[i].path = p, queue'[i].type \in Removal,
                      \A j \in 1..(n-1) : j > i => queue'[j].path # p
               PROVE  QueueEndsInRemoval(p) /\ InQueue(p)'
    BY <1>2 DEF QueueEndsInRemoval
  <2>1. ASSUME NEW j \in 1..n, j > i + 1 PROVE queue[j].path # p
    <3>1. j - 1 \in 1..(n-1) /\ j - 1 > i /\ queue'[j-1] = queue[j]
      BY <1>1, <1>3, <2>1
    <3> QED
      BY <3>1
  <2>2. i + 1 \in 1..n /\ queue[i+1].path = p /\ queue[i+1].type \in Removal
    BY <1>1, <1>2
  <2> QED
    BY <1>1, <1>2, <2>1, <2>2 DEF QueueEndsInRemoval, InQueue
<1>7. QueueEndsInRemoval(p) => IF h.path = p /\ ~InQueue(p)' THEN h.type \in Removal
                               ELSE QueueEndsInRemoval(p)'
  <2> SUFFICES ASSUME NEW i \in 1..n, queue[i].path = p, queue[i].type \in Removal,
                      \A j \in 1..n : j > i => queue[j].path # p
               PROVE  IF h.path = p /\ ~InQueue(p)' THEN h.type \in Removal ELSE QueueEndsInRemoval(p)'
    BY <1>1 DEF QueueEndsInRemoval
  <2>1. CASE i = 1
    <3>1. ~InQueue(p)'
      BY <1>1, <1>2, <2>1 DEF InQueue
    <3> QED
      BY <1>1, <2>1, <3>1
  <2>2. CASE i # 1
    <3>1. i - 1 \in 1..(n-1) /\ queue'[i-1].path = p /\ queue'[i-1].type \in Removal
      BY <1>3, <2>2
    <3>2. \A j \in 1..(n-1) : j > i - 1 => queue'[j].path # p
      BY <1>1, <1>2
    <3> QED
      BY <1>2, <3>1, <3>2 DEF QueueEndsInRemoval, InQueue
  <2> QED
    BY <2>1, <2>2
<1>8. h.path = p /\ ~InQueue(p)' /\ h.type \in Removal => QueueEndsInRemoval(p)
  <2> SUFFICES ASSUME h.path = p, ~InQueue(p)', h.type \in Removal PROVE QueueEndsInRemoval(p)
    OBVIOUS
  <2>1. ASSUME NEW j \in 1..n, j > 1 PROVE queue[j].path # p
    <3>1. j - 1 \in 1..(n-1) /\ queue'[j-1] = queue[j]
      BY <1>1, <1>3, <2>1
    <3> QED
      BY <1>2, <3>1 DEF InQueue
  <2> QED
    BY <1>1, <2>1 DEF QueueEndsInRemoval
<1> QED
  BY <1>4, <1>5, <1>6, <1>7, <1>8 DEF h

\* Nothing changes for a file when the events that wait, or one of them, are
\* passed on.
LEMMA FlushPasses ==
  ASSUME DataOK, Flush, NEW p \in Paths
  PROVE  Coming(p)' = Coming(p) /\ RemovalComes(p)' = RemovalComes(p) /\ EndsInRemoval(p)' = EndsInRemoval(p)
<1>1. ~InSending(p) /\ ~SendingRemoves(p)
  BY DEF Flush, InSending, SendingRemoves
<1> DEFINE Waiting(q) == [type |-> pending[q], path |-> q]
<1>a. sending' = {Waiting(q) : q \in {r \in Paths : pending[r] # "none"}}
  BY DEF Flush
<1>b. \A q \in Paths : Waiting(q).path = q /\ Waiting(q).type = pending[q]
  OBVIOUS
<1> HIDE DEF Waiting
<1>2. InSending(p)' <=> pending[p] # "none"
  BY <1>a, <1>b DEF InSending
<1>3. SendingRemoves(p)' <=> pending[p] \in Removal
  BY <1>a, <1>b DEF SendingRemoves, Removal
<1>4. pending'[p] = "none" /\ UNCHANGED queue /\ "none" \notin Removal
  BY DEF Flush, Removal
<1>5. InQueue(p)' = InQueue(p) /\ QueueRemoves(p)' = QueueRemoves(p) /\ QueueEndsInRemoval(p)' = QueueEndsInRemoval(p)
  BY <1>4 DEF InQueue, QueueRemoves, QueueEndsInRemoval
<1> QED
  BY <1>1, <1>2, <1>3, <1>4, <1>5 DEF Coming, RemovalComes, EndsInRemoval

LEMMA SendPasses ==
  ASSUME DataOK, WatcherOK, NEW e, Send(e), NEW p \in Paths
  PROVE  Coming(p)' = Coming(p) /\ RemovalComes(p)' = RemovalComes(p) /\ EndsInRemoval(p)' = EndsInRemoval(p)
<1>1. e \in FileEvent /\ queue' = Append(queue, e) /\ UNCHANGED pending /\ sending' = sending \ {e} /\ e \in sending
  BY DEF Send, DataOK
<1>2. InSending(p) <=> (InSending(p)' \/ e.path = p)
  BY <1>1 DEF InSending
<1>3. SendingRemoves(p) <=> (SendingRemoves(p)' \/ (e.path = p /\ e.type \in Removal))
  BY <1>1 DEF SendingRemoves
<1>4. e.path = p => ~InSending(p)' /\ ~SendingRemoves(p)'
  BY <1>1 DEF WatcherOK, InSending, SendingRemoves
<1>5. /\ InQueue(p)' <=> (InQueue(p) \/ e.path = p)
      /\ QueueRemoves(p)' <=> (QueueRemoves(p) \/ (e.path = p /\ e.type \in Removal))
      /\ QueueEndsInRemoval(p)' <=>
            (IF e.path = p THEN e.type \in Removal ELSE QueueEndsInRemoval(p))
  BY <1>1, AppendToQueue
<1>6. CASE e.path = p
  BY <1>1, <1>2, <1>3, <1>4, <1>5, <1>6 DEF Coming, RemovalComes, EndsInRemoval
<1>7. CASE e.path # p
  BY <1>1, <1>2, <1>3, <1>5, <1>7 DEF Coming, RemovalComes, EndsInRemoval
<1> QED
  BY <1>6, <1>7

LEMMA DropPassesOthers ==
  ASSUME NEW e, Drop(e), NEW p \in Paths, p # e.path
  PROVE  Coming(p)' = Coming(p) /\ RemovalComes(p)' = RemovalComes(p) /\ EndsInRemoval(p)' = EndsInRemoval(p)
  BY DEF Drop, Coming, RemovalComes, EndsInRemoval, InSending, SendingRemoves, InQueue,
     QueueRemoves, QueueEndsInRemoval

\* The loop takes an event away; what else is on its way to its file stays.
LEMMA ReceiveTakes ==
  ASSUME DataOK, Receive, NEW p \in Paths
  PROVE  /\ Head(queue).path # p =>
               Coming(p)' = Coming(p) /\ RemovalComes(p)' = RemovalComes(p) /\ EndsInRemoval(p)' = EndsInRemoval(p)
         /\ Head(queue).path = p =>
               /\ Coming(p)
               /\ RemovalComes(p) <=> (RemovalComes(p)' \/ Head(queue).type \in Removal)
               /\ EndsInRemoval(p) <=> (IF Coming(p)' THEN EndsInRemoval(p)' ELSE Head(queue).type \in Removal)
<1> DEFINE h == Head(queue)
<1>1. queue # <<>> /\ queue' = Tail(queue) /\ UNCHANGED <<pending, sending>>
  BY DEF Receive
<1>2. /\ InQueue(p) <=> (InQueue(p)' \/ h.path = p)
      /\ QueueRemoves(p) <=> (QueueRemoves(p)' \/ (h.path = p /\ h.type \in Removal))
      /\ QueueEndsInRemoval(p) <=>
            (IF h.path = p /\ ~InQueue(p)' THEN h.type \in Removal ELSE QueueEndsInRemoval(p)')
  BY <1>1, TakeFromQueue
<1>3. InSending(p)' = InSending(p) /\ SendingRemoves(p)' = SendingRemoves(p)
  BY <1>1 DEF InSending, SendingRemoves
<1>4. (SendingRemoves(p) => InSending(p)) /\ (QueueEndsInRemoval(p) => InQueue(p)) /\ "none" \notin Removal
  BY DEF SendingRemoves, InSending, QueueEndsInRemoval, InQueue, Removal
<1>5. QueueEndsInRemoval(p)' => InQueue(p)'
  BY DEF QueueEndsInRemoval, InQueue
<1> HIDE DEF h
<1>6. CASE h.path # p
  BY <1>1, <1>2, <1>3, <1>6 DEF Coming, RemovalComes, EndsInRemoval, h
<1>7. CASE h.path = p
  <2>1. Coming(p) /\ (RemovalComes(p) <=> (RemovalComes(p)' \/ h.type \in Removal))
    BY <1>1, <1>2, <1>3, <1>7 DEF Coming, RemovalComes
  <2>2. EndsInRemoval(p) <=> (IF Coming(p)' THEN EndsInRemoval(p)' ELSE h.type \in Removal)
    BY <1>1, <1>2, <1>3, <1>4, <1>5, <1>7 DEF Coming, EndsInRemoval
  <2> QED
    BY <1>7, <2>1, <2>2 DEF h
<1> QED
  BY <1>6, <1>7

\* An event of a file waits now, and is the last one on its way.
LEMMA DebounceComesLast ==
  ASSUME DataOK, NEW q \in Paths, NEW type \in EventTypes, Debounce(q, type), NEW p \in Paths
  PROVE  /\ p # q => /\ Coming(p)' = Coming(p) /\ RemovalComes(p)' = RemovalComes(p)
                     /\ EndsInRemoval(p)' = EndsInRemoval(p)
         /\ p = q /\ ~KeepsDelete(q, type) =>
               /\ Coming(p)' /\ (EndsInRemoval(p)' <=> type \in Removal)
               /\ type \in Removal => RemovalComes(p)'
<1> USE DEF Coming, RemovalComes, EndsInRemoval
<1>1. UNCHANGED <<sending, queue>> /\ (p # q => pending'[p] = pending[p])
  BY DEF Debounce, DataOK
<1>2. InSending(p)' = InSending(p) /\ SendingRemoves(p)' = SendingRemoves(p)
  BY <1>1 DEF InSending, SendingRemoves
<1>3. InQueue(p)' = InQueue(p) /\ QueueRemoves(p)' = QueueRemoves(p) /\ QueueEndsInRemoval(p)' = QueueEndsInRemoval(p)
  BY <1>1 DEF InQueue, QueueRemoves, QueueEndsInRemoval
<1>4. p # q => /\ Coming(p)' = Coming(p) /\ RemovalComes(p)' = RemovalComes(p)
               /\ EndsInRemoval(p)' = EndsInRemoval(p)
  BY <1>1, <1>2, <1>3
<1>5. p = q /\ ~KeepsDelete(q, type) => pending'[p] = type /\ type # "none"
  BY DEF Debounce, DataOK, EventTypes
<1> QED
  BY <1>4, <1>5

\* Nothing is on its way to anybody while the watcher is idle.
LEMMA IdleNothingComes ==
  ASSUME WatcherIdle, NEW p \in Paths
  PROVE  ~Coming(p) /\ ~RemovalComes(p) /\ ~EndsInRemoval(p)
  BY DEF WatcherIdle, Coming, RemovalComes, EndsInRemoval, InSending, SendingRemoves, InQueue,
     QueueRemoves, QueueEndsInRemoval, Removal

\* What removes a file and is last on its way is on its way.
LEMMA ComingOrder ==
  ASSUME NEW p \in Paths
  PROVE  (RemovalComes(p) => Coming(p)) /\ (EndsInRemoval(p) => RemovalComes(p))
  BY DEF Coming, RemovalComes, EndsInRemoval, InSending, SendingRemoves, InQueue,
     QueueRemoves, QueueEndsInRemoval, Removal

\* An update that is made good has no removal behind it.
LEMMA MadeGoodStays ==
  ASSUME DataOK, WatcherOK, NEW p \in Paths, NEW read, read # Absent, MadeGood(p, read)
  PROVE  disk[p] = read /\ ~RemovalComes(p) /\ ~EndsInRemoval(p)
<1>1. disk[p] = read /\ pending[p] \notin Removal
  BY DEF MadeGood, WatcherOK, Removal
<1>2. ~SendingRemoves(p) /\ ~QueueRemoves(p)
  BY DEF MadeGood, SendingRemoves, QueueRemoves, Removal
<1> QED
  BY <1>1, <1>2, ComingOrder DEF RemovalComes

(***************************************************************************)
(* Steps keep the stores mirroring the tree: one lemma for each            *)
(***************************************************************************)

SameComing(p) == Coming(p)' = Coming(p) /\ RemovalComes(p)' = RemovalComes(p) /\ EndsInRemoval(p)' = EndsInRemoval(p)

LEMMA WatcherUnchanged ==
  ASSUME UNCHANGED watcher, NEW p \in Paths
  PROVE  SameComing(p)
  BY DEF SameComing, watcher, Coming, RemovalComes, EndsInRemoval, InSending, SendingRemoves,
     InQueue,
     QueueRemoves, QueueEndsInRemoval

LEMMA FileUnchanged ==
  ASSUME NEW p \in Paths, FileInv(p), SameComing(p), unsymbolled \subseteq unsymbolled',
         UNCHANGED <<disk, setup, session, index, event, symbols, nodes, built, unbuilt>>
  PROVE  FileInv(p)'
  BY DEF FileInv, SameComing, ScanFollows, Visited, IndexFollows, SymbolsFollow, GraphFits,
     InSync, Ev, Mid,
     session, index

LEMMA EditFollows ==
  ASSUME BaseInv, MirrorInv, NEW q \in Paths, NEW c \in File, NEW type \in EventTypes, Edit(q, c, type),
         NEW p \in Paths \ lost'
  PROVE  FileInv(p)'
<1> USE DEF BaseInv, MirrorInv
<1>1. lost \subseteq lost' /\ FileInv(p)
  BY DEF Edit
<1>2. UNCHANGED <<setup, session, index, event, unsymbolled, symbols, nodes, built, unbuilt>> /\ disk' = [disk EXCEPT ![q] = c]
  BY DEF Edit, rpgVars, graphVars
<1>3. CASE p # q
  <2>1. disk'[p] = disk[p]
    BY <1>2, <1>3 DEF DataOK
  <2>2. SameComing(p)
    BY <1>3, WatcherUnchanged, DebounceComesLast DEF Edit, SameComing
  <2> QED
    BY <1>1, <1>2, <2>1, <2>2
       DEF FileInv, SameComing, ScanFollows, Visited, IndexFollows, SymbolsFollow, GraphFits, InSync, Ev, Mid,
       session, index
<1>4. CASE p = q
  <2>1. disk'[p] = c /\ (type \in Removal <=> c = Absent)
    BY <1>2, <1>4 DEF DataOK, Edit, Removal
  <2>2. CASE pc = "loop"
    <3>1. Debounce(p, type) /\ ~KeepsDelete(p, type)
      BY <1>4, <2>2 DEF Edit
    <3>2. Coming(p)' /\ (EndsInRemoval(p)' <=> type \in Removal) /\ (type \in Removal => RemovalComes(p)')
      BY <3>1, DebounceComesLast
    <3>3. IndexFollows(p)' /\ (p \notin unsymbolled => SymbolsFollow(p)')
      BY <1>1, <1>2, <2>1, <2>2, <3>2 DEF FileInv, IndexFollows, SymbolsFollow, Mid, index
    <3>4. pc' = "loop"
      BY <1>2, <2>2 DEF session
    <3>5. ScanFollows(p)'
      BY <3>4 DEF ScanFollows
    <3> QED
      BY <1>1, <1>2, <3>3, <3>4, <3>5 DEF FileInv, GraphFits, Ev, Mid, index
  <2>3. CASE pc = "filter" /\ p \in left
    <3>1. pc' = "filter" /\ p \in left' /\ p \in listed' /\ ~built'
      BY <1>2, <2>3 DEF session, SessionOK, LoopOnly
    <3> QED
      BY <3>1 DEF FileInv, ScanFollows
  <2>4. CASE pc = "down"
    <3>1. pc' = "down" /\ ~built'
      BY <1>2, <2>4 DEF session, LoopOnly
    <3> QED
      BY <3>1 DEF FileInv, ScanFollows
  <2> QED
    BY <1>4, <2>2, <2>3, <2>4 DEF Edit
<1> QED
  BY <1>3, <1>4

(***************************************************************************)
(* The scan                                                                *)
(***************************************************************************)

LEMMA StartFollows ==
  ASSUME BaseInv, BaseInv', StartSession, NEW p \in Paths
  PROVE  FileInv(p)'
<1> USE DEF BaseInv
<1>1. pc' = (IF left' = {} THEN "index" ELSE "filter") /\ left' = listed' /\ ~built'
      /\ listed' = {q \in Paths : disk[q] # Absent}
      /\ gone' = {q \in Paths : doc'[q] # Absent} \ listed' /\ UNCHANGED <<disk, todo>>
  BY DEF StartSession, Restart, tree
<1>2. p \in listed' <=> disk'[p] # Absent
  BY <1>1
<1>3. todo'[p] = Absent
  BY <1>1 DEF StartSession, SessionOK, Read
<1>4. p \notin listed' => Visited(p)'
  <2> SUFFICES ASSUME p \notin listed' PROVE Visited(p)'
    OBVIOUS
  <2>1. p \notin gone' => doc'[p] = Absent /\ chunks'[p] = Absent
    BY <1>1 DEF IndexOK, WellIndexed
  <2> QED
    BY <1>1, <1>2, <1>3, <2>1, ProjectAssumption DEF Visited, InSync, Vectors
<1> QED
  BY <1>1, <1>2, <1>4 DEF FileInv, ScanFollows

LEMMA FilterFollows ==
  ASSUME BaseInv, MirrorInv, NEW q \in Paths, NEW fails \in BOOLEAN, FilterFile(q, fails),
         NEW p \in Paths \ lost'
  PROVE  FileInv(p)'
<1> USE DEF BaseInv, MirrorInv
<1>1. /\ pc = "filter" /\ q \in left /\ left' = left \ {q} /\ pc' = (IF left' = {} THEN "index" ELSE pc)
      /\ todo' = (IF Skipped(q) \/ fails THEN todo ELSE [todo EXCEPT ![q] = disk[q]])
      /\ fails => p # q
      /\ UNCHANGED <<disk, listed, gone, doc, chunks, built, unsymbolled>>
  BY DEF FilterFile, tree, index, rpgVars
<1>2. FileInv(p)
  BY DEF FilterFile
<1>3. p \notin left' => Visited(p)'
  <2>1. CASE p # q
    <3>1. todo'[p] = todo[p]
      BY <1>1, <2>1 DEF SessionOK
    <3>2. p \notin left' => Visited(p)
      BY <1>1, <1>2, <2>1 DEF FileInv, ScanFollows
    <3> QED
      BY <1>1, <3>1, <3>2 DEF Visited, InSync
  <2>2. CASE p = q
    <3>1. p \notin gone /\ todo[p] = Absent
      BY <1>1, <2>2 DEF SessionOK, Read
    <3>2. CASE Skipped(p)
      <4>1. doc[p] # Absent => InSync(p, doc, chunks)
        BY <2>2, <3>2 DEF FilterFile
      <4>2. doc[p] = Absent => InSync(p, doc, chunks)
        BY <3>2, ProjectAssumption DEF Skipped, InSync, Vectors, IndexOK, WellIndexed
      <4> QED
        BY <1>1, <2>2, <3>1, <3>2, <4>1, <4>2 DEF Visited, InSync
    <3>3. CASE ~Skipped(p)
      <4>1. todo'[p] = disk[p] /\ disk[p] # Absent
        BY <1>1, <2>2, <3>3 DEF Skipped, SessionOK
      <4> QED
        BY <1>1, <3>1, <4>1 DEF Visited
    <3> QED
      BY <3>2, <3>3
  <2> QED
    BY <2>1, <2>2
<1>4. ~built'
  BY <1>1 DEF LoopOnly
<1> QED
  BY <1>1, <1>2, <1>3, <1>4 DEF FileInv, ScanFollows

LEMMA RemoveChunksFollows ==
  ASSUME BaseInv, MirrorInv, NEW files \in SUBSET Paths, RemoveOldChunks(files), NEW p \in Paths \ lost'
  PROVE  FileInv(p)'
<1> USE DEF BaseInv, MirrorInv
<1>1. pc = "index" /\ ~built /\ files \subseteq Read /\ FileInv(p)
      /\ UNCHANGED <<disk, pc, left, listed, gone, doc, built, unsymbolled, symbols>>
  BY DEF RemoveOldChunks, tree, history, rpgVars, LoopOnly
<1>2. Visited(p) /\ (p \notin listed => disk[p] = Absent)
  BY <1>1 DEF FileInv, ScanFollows
<1>3. chunks'[p] = (IF p \in files THEN Absent ELSE chunks[p])
      /\ todo'[p] = (IF p \in files /\ todo[p] = Blank THEN Absent ELSE todo[p])
  BY DEF RemoveOldChunks
<1>4. Visited(p)'
  <2>1. CASE p \notin files
    BY <1>1, <1>2, <1>3, <2>1 DEF Visited, InSync
  <2>2. CASE p \in files /\ todo[p] # Blank
    BY <1>1, <1>2, <1>3, <2>2 DEF Visited, Read
  <2>3. CASE p \in files /\ todo[p] = Blank
    BY <1>1, <1>2, <1>3, <2>3, ProjectAssumption DEF Visited, InSync, Read, Vectors
  <2> QED
    BY <2>1, <2>2, <2>3
<1> QED
  BY <1>1, <1>2, <1>4 DEF FileInv, ScanFollows

LEMMA VectorsFollow ==
  ASSUME BaseInv, MirrorInv, SaveVectors, NEW p \in Paths \ lost'
  PROVE  FileInv(p)'
<1> USE DEF BaseInv, MirrorInv
<1>1. pc = "index" /\ ~built /\ FileInv(p) /\ embedding \subseteq {q \in Read : todo[q] # Blank}
      /\ UNCHANGED <<disk, pc, left, listed, gone, built, unsymbolled, symbols>>
  BY DEF SaveVectors, tree, history, rpgVars, LoopOnly, SessionOK
<1>2. Visited(p) /\ (p \notin listed => disk[p] = Absent)
  BY <1>1 DEF FileInv, ScanFollows
<1>3. /\ doc'[p] = (IF p \in embedding THEN todo[p] ELSE doc[p])
      /\ chunks'[p] = (IF p \in embedding THEN todo[p] ELSE chunks[p])
      /\ todo'[p] = (IF p \in embedding THEN Absent ELSE todo[p])
  BY DEF SaveVectors
<1>4. Visited(p)'
  <2>1. CASE p \notin embedding
    BY <1>1, <1>2, <1>3, <2>1 DEF Visited, InSync
  <2>2. CASE p \in embedding
    BY <1>1, <1>2, <1>3, <2>2, ProjectAssumption DEF Visited, InSync, Read, Vectors
  <2> QED
    BY <2>1, <2>2
<1> QED
  BY <1>1, <1>2, <1>4 DEF FileInv, ScanFollows

\* Whatever ends a session leaves nothing to mirror.
LEMMA EndFollows ==
  ASSUME EndSession, NEW p \in Paths
  PROVE  FileInv(p)'
  BY DEF EndSession, Restart, FileInv, ScanFollows

LEMMA FailureFollows ==
  ASSUME BaseInv, MirrorInv, EmbeddingFails, NEW p \in Paths \ lost'
  PROVE  FileInv(p)'
<1> USE DEF BaseInv, MirrorInv
<1>1. CASE setup.batched
  BY <1>1, EndFollows DEF EmbeddingFails
<1>2. CASE ~setup.batched
  <2>1. /\ pc = "index" /\ ~built /\ FileInv(p) /\ p \notin embedding
        /\ UNCHANGED <<disk, pc, left, listed, gone, doc, chunks, built, unsymbolled, symbols>>
    BY <1>2 DEF EmbeddingFails, tree, index, rpgVars, LoopOnly
  <2>2. todo'[p] = todo[p]
    BY <1>2, <2>1 DEF EmbeddingFails
  <2> QED
    BY <2>1, <2>2 DEF FileInv, ScanFollows, Visited, InSync
<1> QED
  BY <1>1, <1>2

LEMMA GoneFollows ==
  ASSUME BaseInv, MirrorInv, NEW kept \in SUBSET Paths, NEW chunkless \in SUBSET Paths,
         RemoveGone(kept, chunkless), NEW p \in Paths \ lost'
  PROVE  FileInv(p)'
<1> USE DEF BaseInv, MirrorInv
<1>1. /\ pc = "index" /\ pc' = "symbols" /\ ~built /\ FileInv(p) /\ Read = {}
      /\ left' = listed /\ (p \in gone => ~setup.shared /\ p \notin kept) /\ p \notin chunkless
      /\ UNCHANGED <<disk, listed, built, unsymbolled, symbols>>
  BY DEF RemoveGone, tree, rpgVars, LoopOnly
<1>2. Visited(p) /\ (p \notin listed => disk[p] = Absent) /\ todo[p] = Absent
  BY <1>1 DEF FileInv, ScanFollows, Read
<1>3. /\ doc'[p] = (IF p \in gone THEN Absent ELSE doc[p])
      /\ chunks'[p] = (IF p \in gone THEN Absent ELSE chunks[p])
  BY <1>1 DEF RemoveGone
<1>4. InSync(p, doc, chunks)'
  BY <1>1, <1>2, <1>3, ProjectAssumption DEF Visited, InSync, Vectors
<1> QED
  BY <1>1, <1>2, <1>4 DEF FileInv, ScanFollows

LEMMA ScanSymbolsFollows ==
  ASSUME BaseInv, MirrorInv, NEW q \in Paths, NEW fails \in BOOLEAN, ScanSymbols(q, fails),
         NEW p \in Paths \ lost'
  PROVE  FileInv(p)'
<1> USE DEF BaseInv, MirrorInv
<1>1. /\ pc = "symbols" /\ ~built /\ FileInv(p) /\ left' = left \ {q}
      /\ unsymbolled \subseteq unsymbolled'
      /\ UNCHANGED <<disk, pc, listed, doc, chunks, built>>
  BY DEF ScanSymbols, SaveSymbols, tree, index, rpgVars, LoopOnly
<1>2. InSync(p, doc, chunks)' /\ (p \notin listed => disk[p] = Absent)
  BY <1>1 DEF FileInv, ScanFollows, InSync
<1>3. p \notin unsymbolled' /\ p \in listed' \ left' => symbols'[p] = disk'[p]
  <2> SUFFICES ASSUME p \notin unsymbolled', p \in listed \ left' PROVE symbols'[p] = disk[p]
    BY <1>1
  <2>1. CASE p # q
    <3>1. symbols[p] = disk[p]
      BY <1>1, <2>1 DEF FileInv, ScanFollows
    <3> QED
      BY <2>1, <3>1 DEF ScanSymbols, SaveSymbols, RpgTypeOK, rpgVars
  <2>2. CASE p = q
    BY <2>2 DEF ScanSymbols, SaveSymbols, RpgTypeOK, rpgVars
  <2> QED
    BY <2>1, <2>2
<1> QED
  BY <1>1, <1>2, <1>3 DEF FileInv, ScanFollows

LEMMA ConfigFollows ==
  ASSUME BaseInv, MirrorInv, SaveConfig, NEW p \in Paths \ lost'
  PROVE  FileInv(p)'
<1> USE DEF BaseInv, MirrorInv
<1>1. /\ pc = "symbols" /\ pc' = "graph" /\ ~built /\ FileInv(p) /\ left = {}
      /\ unsymbolled' = unsymbolled \cup {q \in Paths \ listed : symbols[q] # Absent}
      /\ UNCHANGED <<disk, doc, chunks, built, symbols>>
  BY DEF SaveConfig, tree, index, rpgVars, LoopOnly
<1>2. InSync(p, doc, chunks)' /\ (p \notin listed => disk[p] = Absent)
  BY <1>1 DEF FileInv, ScanFollows, InSync
<1>3. p \notin unsymbolled' => symbols[p] = disk[p]
  BY <1>1, <1>2 DEF FileInv, ScanFollows
<1> QED
  BY <1>1, <1>2, <1>3 DEF FileInv, ScanFollows

LEMMA BuildFollows ==
  ASSUME BaseInv, MirrorInv, NEW outcome \in Outcomes, BuildGraph(outcome), NEW p \in Paths \ lost'
  PROVE  FileInv(p)'
<1> USE DEF BaseInv, MirrorInv
<1>1. /\ pc = "graph" /\ pc' = "persist" /\ FileInv(p) /\ ~built
      /\ UNCHANGED <<disk, setup, doc, chunks, symbols, unsymbolled>>
  BY DEF BuildGraph, BuildFull, tree, index, history, rpgVars, LoopOnly
<1>2. InSync(p, doc, chunks)' /\ (p \notin unsymbolled => symbols'[p] = disk'[p])
  BY <1>1 DEF FileInv, ScanFollows, InSync
<1>3. built' => GraphFits(p)'
  <2>1. CASE setup.rpg
    BY <1>1, <2>1 DEF BuildGraph, BuildFull, GraphFits
  <2>2. CASE ~setup.rpg
    BY <1>1, <2>2 DEF BuildGraph, rpgVars
  <2> QED
    BY <2>1, <2>2
<1> QED
  BY <1>1, <1>2, <1>3 DEF FileInv, ScanFollows

LEMMA WatchFollows ==
  ASSUME BaseInv, MirrorInv, StartWatcher, NEW p \in Paths \ lost'
  PROVE  FileInv(p)'
<1> USE DEF BaseInv, MirrorInv
<1>1. /\ pc = "persist" /\ pc' = "loop" /\ FileInv(p) /\ event' = NoEvent
      /\ UNCHANGED <<disk, setup, doc, chunks, symbols, nodes, built, unbuilt, unsymbolled, watcher>>
  BY DEF StartWatcher, SaveGraph, tree, index, history, graphVars, LoopOnly
<1>2. ~Coming(p)' /\ ~RemovalComes(p)' /\ ~EndsInRemoval(p)'
  BY <1>1, IdleNothingComes, WatcherUnchanged DEF LoopOnly, SameComing
<1>3. InSync(p, doc, chunks) /\ (p \notin unsymbolled => symbols[p] = disk[p])
  BY <1>1 DEF FileInv, ScanFollows
<1>4. event'.step = "none"
  BY <1>1 DEF NoEvent
<1>5. IndexFollows(p)'
  BY <1>1, <1>2, <1>3, <1>4 DEF IndexFollows, InSync, Ev
<1>6. p \notin unsymbolled => SymbolsFollow(p)'
  BY <1>1, <1>2, <1>3, <1>4 DEF SymbolsFollow, InSync, Vectors, Ev, Mid
<1>7. event.step = "none"
  BY <1>1 DEF LoopOnly, NoEvent
<1>8. p \notin unsymbolled /\ built => GraphFits(p)'
  BY <1>1, <1>7 DEF FileInv, GraphFits, Ev, Mid
<1> QED
  BY <1>1, <1>5, <1>6, <1>8 DEF FileInv, ScanFollows

(***************************************************************************)
(* The events on their way                                                 *)
(***************************************************************************)

LEMMA DeliverFollows ==
  ASSUME BaseInv, MirrorInv, DeliverEvent, NEW p \in Paths \ lost'
  PROVE  FileInv(p)'
<1> USE DEF BaseInv, MirrorInv
<1>1. lost \subseteq lost' /\ FileInv(p)
  BY DEF DeliverEvent, FlushEvents, SendEvent, DropEvent, ReceiveEvent, history
<1>2. CASE FlushEvents
  BY <1>1, <1>2, FlushPasses, FileUnchanged DEF FlushEvents, SameComing, tree, history, rpgVars,
     graphVars
<1>3. CASE \E e \in sending : SendEvent(e)
  BY <1>1, <1>3, SendPasses, FileUnchanged DEF SendEvent, SameComing, tree, history, rpgVars,
     graphVars
<1>4. CASE \E e \in sending : DropEvent(e)
  <2>1. PICK e \in sending : DropEvent(e)
    BY <1>4
  <2>2. p # e.path
    BY <2>1 DEF DropEvent
  <2> QED
    BY <1>1, <2>1, <2>2, DropPassesOthers, FileUnchanged DEF DropEvent, SameComing, tree,
       rpgVars, graphVars
<1>5. CASE ReceiveEvent
  <2> DEFINE h == Head(queue)
  <2>1. /\ pc = "loop" /\ event = NoEvent /\ Receive /\ event'.path = h.path
        /\ event'.step = (IF h.type \in {"create", "modify"} THEN "scan" ELSE "remove")
        /\ UNCHANGED <<disk, setup, pc, doc, chunks, symbols, nodes, built, unbuilt, unsymbolled>>
    BY <1>5 DEF ReceiveEvent, tree, session, index, history, rpgVars, graphVars
  <2>2. h \in FileEvent
    BY <2>1 DEF Receive, DataOK
  <2>3. event'.step = (IF h.type \in Removal THEN "remove" ELSE "scan")
    BY <2>1, <2>2 DEF FileEvent, EventTypes, Removal
  <2>4. event.step = "none"
    BY <2>1 DEF NoEvent
  <2>5. /\ h.path # p => SameComing(p)
        /\ h.path = p =>
               /\ Coming(p)
               /\ RemovalComes(p) <=> (RemovalComes(p)' \/ h.type \in Removal)
               /\ EndsInRemoval(p) <=> (IF Coming(p)' THEN EndsInRemoval(p)' ELSE h.type \in Removal)
    BY <2>1, ReceiveTakes DEF SameComing
  <2>6. (RemovalComes(p)' => Coming(p)') /\ (EndsInRemoval(p)' => RemovalComes(p)')
    BY DEF Coming, RemovalComes, EndsInRemoval, InSending, SendingRemoves, InQueue, QueueRemoves,
       QueueEndsInRemoval, Removal
  <2> HIDE DEF h
  <2>7. IndexFollows(p)'
    <3>1. CASE h.path # p
      BY <1>1, <2>1, <2>4, <2>5, <3>1 DEF FileInv, IndexFollows, SameComing, Ev, InSync
    <3>2. CASE h.path = p
      BY <1>1, <2>1, <2>3, <2>4, <2>5, <2>6, <3>2 DEF FileInv, IndexFollows, Ev, InSync
    <3> QED
      BY <3>1, <3>2
  <2>8. p \notin unsymbolled => SymbolsFollow(p)'
    <3>1. CASE h.path # p
      BY <1>1, <2>1, <2>3, <2>4, <2>5, <3>1 DEF FileInv, SymbolsFollow, SameComing, Ev, Mid
    <3>2. CASE h.path = p
      BY <1>1, <2>1, <2>3, <2>4, <2>5, <3>2 DEF FileInv, SymbolsFollow, Ev, Mid
    <3> QED
      BY <3>1, <3>2
  <2> QED
    BY <1>1, <2>1, <2>4, <2>7, <2>8 DEF FileInv, ScanFollows, GraphFits, Ev, Mid
<1> QED
  BY <1>2, <1>3, <1>4, <1>5 DEF DeliverEvent

(***************************************************************************)
(* handleFileEvent                                                         *)
(***************************************************************************)

\* A step of an event leaves the other files alone.
LEMMA OtherFileFollows ==
  ASSUME NEW p \in Paths, FileInv(p), pc = "loop", pc' = "loop", p # event.path,
         UNCHANGED <<disk, setup, watcher, built>>,
         doc'[p] = doc[p], chunks'[p] = chunks[p], symbols'[p] = symbols[p], nodes'[p] = nodes[p],
         p \in unsymbolled' <=> p \in unsymbolled, p \in unbuilt' <=> p \in unbuilt,
         event' = NoEvent \/ event'.path = event.path
  PROVE  FileInv(p)'
<1>1. SameComing(p)
  BY WatcherUnchanged
<1>2. \A step \in Steps : ~Ev(step, p) /\ ~Ev(step, p)'
  BY DEF Ev, NoEvent, Steps
<1>3. ~Mid(p) /\ ~Mid(p)'
  BY DEF Mid, NoEvent
<1>4. /\ ~Ev("scan", p) /\ ~Ev("embed", p) /\ ~Ev("remove", p) /\ ~Ev("graph", p)
      /\ ~Ev("scan", p)' /\ ~Ev("embed", p)' /\ ~Ev("remove", p)' /\ ~Ev("graph", p)'
  BY <1>2 DEF Steps
<1>5. IndexFollows(p)'
  BY <1>1, <1>4 DEF FileInv, IndexFollows, SameComing, InSync
<1>6. p \notin unsymbolled => SymbolsFollow(p)'
  BY <1>1, <1>3, <1>4 DEF FileInv, SymbolsFollow, SameComing
<1>7. built /\ p \notin unsymbolled => GraphFits(p)'
  BY <1>3, <1>4 DEF FileInv, GraphFits
<1> QED
  BY <1>5, <1>6, <1>7 DEF FileInv, ScanFollows

LEMMA ScanEventFollows ==
  ASSUME BaseInv, MirrorInv, NEW fails \in BOOLEAN, ScanEvent(fails), NEW p \in Paths \ lost', p = event.path
  PROVE  FileInv(p)'
<1> USE DEF BaseInv, MirrorInv
<1> DEFINE c == disk[p]
<1>1. /\ event \in [step : Steps, type : EventTypes, path : Paths, read : File]
      /\ event.step = "scan" /\ pc = "loop" /\ pc' = "loop" /\ ~fails
      /\ UNCHANGED <<disk, setup, watcher, doc, symbols, nodes, built, unbuilt, unsymbolled>>
  BY AtEvent DEF ScanEvent, At, Steps, tree, index, rpgVars, graphVars
<1>2. SameComing(p) /\ (RemovalComes(p) => Coming(p)) /\ (EndsInRemoval(p) => RemovalComes(p))
  BY <1>1, WatcherUnchanged, ComingOrder
<1>3. Ev("scan", p) /\ ~Ev("remove", p) /\ ~Ev("embed", p) /\ ~Ev("graph", p) /\ ~Mid(p)
  BY <1>1 DEF Ev, Mid
<1>4. CASE c \in {Absent, doc[p]}
  <2>1. /\ event' = NoEvent /\ UNCHANGED index /\ FileInv(p)
        /\ c # Absent => chunks[p] = Vectors(c)
    BY <1>1, <1>4 DEF ScanEvent
  <2>2. /\ ~Ev("scan", p)' /\ ~Ev("remove", p)' /\ ~Ev("embed", p)' /\ ~Ev("graph", p)' /\ ~Mid(p)'
    BY <2>1 DEF Ev, Mid, NoEvent
  <2>3. c # Absent => InSync(p, doc, chunks) /\ chunks[p] = doc[p] /\ doc[p] # Absent
    BY <1>4, <2>1 DEF InSync, Vectors, IndexOK, WellIndexed
  <2>4. IndexFollows(p)'
    BY <1>1, <1>2, <1>3, <2>1, <2>2, <2>3 DEF FileInv, IndexFollows, SameComing, InSync, index
  <2>5. p \notin unsymbolled => SymbolsFollow(p)'
    BY <1>1, <1>2, <1>3, <1>4, <2>1, <2>2, <2>3 DEF FileInv, SymbolsFollow, SameComing, index
  <2> QED
    BY <1>1, <1>3, <2>1, <2>4, <2>5 DEF FileInv, ScanFollows, GraphFits, index
<1>5. CASE c \notin {Absent, doc[p]}
  <2>1. /\ chunks' = [chunks EXCEPT ![p] = Absent]
        /\ event' = [event EXCEPT !.step = IF c = Blank THEN "config" ELSE "embed", !.read = c]
        /\ p \in lost => c = Blank /\ MadeGood(p, c)
    BY <1>1, <1>5 DEF ScanEvent
  <2>2. /\ event'.step = (IF c = Blank THEN "config" ELSE "embed") /\ event'.path = p /\ event'.read = c
    BY <1>1, <2>1
  <2>3. chunks'[p] = Absent
    BY <2>1 DEF SessionOK
  <2>4. Mid(p)' /\ (Ev("embed", p)' <=> c # Blank) /\ ~Ev("remove", p)' /\ ~Ev("scan", p)'
    BY <2>2 DEF Mid, Ev
  <2>5. ~EndsInRemoval(p)
    <3>1. CASE p \in lost
      BY <1>5, <2>1, <3>1, MadeGoodStays
    <3>2. CASE p \notin lost
      BY <1>1, <1>5, <3>2 DEF FileInv, IndexFollows
    <3> QED
      BY <3>1, <3>2
  <2>6. c = Blank => InSync(p, doc, chunks)'
    BY <1>1, <2>3 DEF InSync, Vectors
  <2>7. IndexFollows(p)'
    BY <1>1, <1>2, <1>5, <2>2, <2>4, <2>5, <2>6 DEF IndexFollows, SameComing
  <2>8. SymbolsFollow(p)'
    BY <1>1, <1>5, <2>2, <2>4 DEF SymbolsFollow
  <2> QED
    BY <1>1, <2>4, <2>7, <2>8 DEF FileInv, ScanFollows
<1> QED
  BY <1>4, <1>5

LEMMA EmbedEventFollows ==
  ASSUME BaseInv, MirrorInv, NEW fails \in BOOLEAN, EmbedEvent(fails), NEW p \in Paths \ lost', p = event.path
  PROVE  FileInv(p)'
<1> USE DEF BaseInv, MirrorInv
<1>1. /\ event \in [step : Steps, type : EventTypes, path : Paths, read : File]
      /\ event.step = "embed" /\ pc = "loop" /\ pc' = "loop" /\ ~fails
      /\ event.read # Absent /\ event.read # Blank
      /\ UNCHANGED <<disk, setup, watcher, symbols, nodes, built, unsymbolled>>
  BY AtEvent DEF EmbedEvent, At, Steps, tree, session, rpgVars, graphVars, EventInv
<1>2. SameComing(p)
  BY <1>1, WatcherUnchanged
<1>3. Ev("embed", p) /\ ~Ev("scan", p) /\ ~Ev("remove", p) /\ Mid(p)
  BY <1>1 DEF Ev, Mid
<1>4. /\ doc' = [doc EXCEPT ![p] = event.read] /\ chunks' = [chunks EXCEPT ![p] = event.read]
      /\ event' = [event EXCEPT !.step = "config"]
      /\ p \in lost => MadeGood(p, event.read)
  BY <1>1 DEF EmbedEvent
<1>5. event'.step = "config" /\ event'.path = p /\ event'.read = event.read
  BY <1>1, <1>4
<1>6. ~Ev("embed", p)' /\ ~Ev("scan", p)' /\ ~Ev("remove", p)' /\ Mid(p)'
  BY <1>5 DEF Ev, Mid
<1>7. event.read = disk[p] => InSync(p, doc, chunks)'
  BY <1>1, <1>4 DEF InSync, Vectors, SessionOK
<1>8. CASE p \in lost
  <2>1. disk[p] = event.read /\ ~RemovalComes(p) /\ ~EndsInRemoval(p)
    BY <1>1, <1>4, <1>8, MadeGoodStays
  <2> QED
    BY <1>1, <1>2, <1>5, <1>6, <1>7, <2>1 DEF FileInv, ScanFollows, IndexFollows, SymbolsFollow,
       SameComing
<1>9. CASE p \notin lost
  <2>1. IndexFollows(p)'
    BY <1>1, <1>2, <1>3, <1>6, <1>7, <1>9 DEF FileInv, IndexFollows, SameComing
  <2>2. p \notin unsymbolled => SymbolsFollow(p)'
    BY <1>1, <1>2, <1>3, <1>5, <1>6, <1>9 DEF FileInv, SymbolsFollow, SameComing
  <2> QED
    BY <1>1, <1>6, <2>1, <2>2 DEF FileInv, ScanFollows
<1> QED
  BY <1>8, <1>9

LEMMA ConfigEventFollows ==
  ASSUME BaseInv, MirrorInv, NEW due \in BOOLEAN, ConfigEvent(due), NEW p \in Paths \ lost', p = event.path
  PROVE  FileInv(p)'
<1> USE DEF BaseInv, MirrorInv
<1>1. /\ event \in [step : Steps, type : EventTypes, path : Paths, read : File]
      /\ event.step = "config" /\ pc = "loop" /\ pc' = "loop" /\ FileInv(p)
      /\ UNCHANGED <<disk, setup, watcher, doc, chunks, symbols, nodes, built, unsymbolled>>
  BY AtEvent DEF ConfigEvent, At, Steps, tree, index, history, rpgVars, graphVars
<1>2. SameComing(p)
  BY <1>1, WatcherUnchanged
<1>3. event'.step = "symbols" /\ event'.path = p /\ event'.read = event.read
  BY <1>1 DEF ConfigEvent
<1>4. /\ Mid(p) /\ ~Ev("embed", p) /\ ~Ev("scan", p) /\ ~Ev("remove", p)
      /\ Mid(p)' /\ ~Ev("embed", p)' /\ ~Ev("scan", p)' /\ ~Ev("remove", p)'
  BY <1>1, <1>3 DEF Ev, Mid
<1> QED
  BY <1>1, <1>2, <1>3, <1>4 DEF FileInv, ScanFollows, IndexFollows, SymbolsFollow, SameComing,
     InSync

LEMMA SymbolsEventFollows ==
  ASSUME BaseInv, MirrorInv, NEW fails \in BOOLEAN, SymbolsEvent(fails), NEW p \in Paths \ lost', p = event.path
  PROVE  FileInv(p)'
<1> USE DEF BaseInv, MirrorInv
<1>1. /\ event \in [step : Steps, type : EventTypes, path : Paths, read : File]
      /\ event.step = "symbols" /\ pc = "loop" /\ pc' = "loop" /\ FileInv(p) /\ event.read # Absent
      /\ UNCHANGED <<disk, setup, watcher, doc, chunks, nodes, built>>
  BY AtEvent DEF SymbolsEvent, SaveSymbols, At, Steps, tree, session, index, rpgVars, graphVars,
     EventInv
<1>2. SameComing(p)
  BY <1>1, WatcherUnchanged
<1>3. Mid(p) /\ ~Ev("embed", p) /\ ~Ev("scan", p) /\ ~Ev("remove", p)
  BY <1>1 DEF Ev, Mid
<1>4. event' = NoEvent \/ (event'.step = "graph" /\ event'.path = p)
  BY <1>1 DEF SymbolsEvent, Then
<1>5. ~Mid(p)' /\ ~Ev("embed", p)' /\ ~Ev("scan", p)' /\ ~Ev("remove", p)'
  BY <1>4 DEF Ev, Mid, NoEvent
<1>6. IndexFollows(p)'
  BY <1>1, <1>2, <1>3, <1>5 DEF FileInv, IndexFollows, SameComing, InSync
<1>7. ASSUME p \notin unsymbolled'
      PROVE  SymbolsFollow(p)' /\ (built' => Ev("graph", p)')
  <2>1. ~fails /\ symbols'[p] = event.read /\ event' = Then("graph")
    BY <1>1, <1>7 DEF SymbolsEvent, SaveSymbols, RpgTypeOK
  <2>2. built => Ev("graph", p)'
    BY <1>1, <2>1 DEF Then, Ev
  <2>3. doc[p] # Absent /\ chunks[p] = doc[p] => symbols'[p] = doc[p]
    BY <1>1, <2>1 DEF EventInv
  <2>4. CASE p \in unsymbolled
    <3>1. MadeGood(p, event.read)
      BY <1>7, <2>1, <2>4 DEF SymbolsEvent
    <3>2. disk[p] = event.read
      BY <1>1, <3>1, MadeGoodStays
    <3> QED
      BY <1>1, <1>5, <2>1, <2>2, <2>3, <3>2 DEF SymbolsFollow
  <2>5. CASE p \notin unsymbolled
    BY <1>1, <1>2, <1>3, <1>5, <2>1, <2>2, <2>3, <2>5 DEF FileInv, SymbolsFollow, SameComing
  <2> QED
    BY <2>4, <2>5
<1> QED
  BY <1>1, <1>6, <1>7 DEF FileInv, ScanFollows

LEMMA RemoveEventFollows ==
  ASSUME BaseInv, MirrorInv, NEW fails \in BOOLEAN, RemoveEvent(fails), NEW p \in Paths \ lost', p = event.path
  PROVE  FileInv(p)'
<1> USE DEF BaseInv, MirrorInv
<1>1. /\ event \in [step : Steps, type : EventTypes, path : Paths, read : File]
      /\ event.step = "remove" /\ pc = "loop" /\ pc' = "loop"
      /\ UNCHANGED <<disk, setup, watcher, built>>
      /\ doc'[p] = Absent /\ chunks'[p] = Absent /\ symbols'[p] = Absent
      /\ event' = Then("graph")
  BY AtEvent DEF RemoveEvent, SaveSymbols, At, Steps, tree, session, SessionOK, RpgTypeOK
<1>2. SameComing(p) /\ (RemovalComes(p) => Coming(p)) /\ (EndsInRemoval(p) => RemovalComes(p))
  BY <1>1, WatcherUnchanged, ComingOrder
<1>3. Ev("remove", p)
  BY <1>1 DEF Ev
<1>4. /\ ~Mid(p)' /\ ~Ev("embed", p)' /\ ~Ev("scan", p)' /\ ~Ev("remove", p)'
      /\ built' => Ev("graph", p)'
  BY <1>1 DEF Ev, Mid, NoEvent, Then
<1>5. disk[p] = Absent => InSync(p, doc, chunks)'
  BY <1>1, ProjectAssumption DEF InSync, Vectors
<1>6. disk[p] # Absent => Coming(p) /\ ~EndsInRemoval(p)
  <2> SUFFICES ASSUME disk[p] # Absent PROVE Coming(p) /\ ~EndsInRemoval(p)
    OBVIOUS
  <2>1. p \notin lost
    BY DEF RemoveEvent
  <2> QED
    BY <1>1, <1>3, <2>1 DEF FileInv, IndexFollows
<1>7. IndexFollows(p)' /\ SymbolsFollow(p)'
  BY <1>1, <1>2, <1>4, <1>5, <1>6 DEF IndexFollows, SymbolsFollow, SameComing
<1> QED
  BY <1>1, <1>4, <1>7 DEF FileInv, ScanFollows

LEMMA GraphEventFollows ==
  ASSUME BaseInv, MirrorInv, GraphEvent \/ MarkEvent, NEW p \in Paths \ lost', p = event.path
  PROVE  FileInv(p)'
<1> USE DEF BaseInv, MirrorInv
<1>1. /\ event \in [step : Steps, type : EventTypes, path : Paths, read : File]
      /\ event.step \in {"graph", "mark"} /\ pc = "loop" /\ pc' = "loop" /\ FileInv(p)
      /\ UNCHANGED <<disk, setup, watcher, doc, chunks, symbols, unsymbolled>> /\ built /\ built'
      /\ event' = NoEvent \/ (event'.step = "mark" /\ event'.path = p)
  BY AtEvent DEF GraphEvent, MarkEvent, HandleFileEvent, MarkFileDirty, At, Steps, tree,
     session, index, history, Then
<1>2. SameComing(p)
  BY <1>1, WatcherUnchanged
<1>3. /\ ~Mid(p) /\ ~Ev("embed", p) /\ ~Ev("scan", p) /\ ~Ev("remove", p)
      /\ ~Mid(p)' /\ ~Ev("embed", p)' /\ ~Ev("scan", p)' /\ ~Ev("remove", p)'
  BY <1>1 DEF Ev, Mid, NoEvent
<1>4. p \notin unsymbolled => GraphFits(p)'
  <2>1. CASE GraphEvent
    <3>1. symbols[p] # Absent => symbols[p] \in nodes'[p]
      BY <1>1, <2>1 DEF GraphEvent, HandleFileEvent, EventInv, RpgTypeOK, EventTypes, At
    <3>2. symbols[p] = Absent => nodes'[p] = {}
      BY <1>1, <2>1 DEF GraphEvent, HandleFileEvent, RpgTypeOK, EventTypes
    <3> QED
      BY <1>1, <3>1, <3>2 DEF GraphFits
  <2>2. CASE MarkEvent
    <3>1. symbols[p] \in nodes[p] \cup {Absent} /\ UNCHANGED nodes /\ ~Ev("graph", p)
      BY <2>2 DEF MarkEvent, MarkFileDirty, EventInv, At, Ev, graphVars
    <3> QED
      BY <1>1, <1>3, <3>1 DEF FileInv, GraphFits
  <2> QED
    BY <2>1, <2>2
<1> QED
  BY <1>1, <1>2, <1>3, <1>4 DEF FileInv, ScanFollows, IndexFollows, SymbolsFollow, SameComing,
     InSync

LEMMA HandlerFollows ==
  ASSUME BaseInv, MirrorInv, HandlerStep, NEW p \in Paths \ lost'
  PROVE  FileInv(p)'
<1> USE DEF BaseInv, MirrorInv
<1>1. CASE p = event.path
  BY <1>1, ScanEventFollows, EmbedEventFollows, ConfigEventFollows, SymbolsEventFollows,
     RemoveEventFollows, GraphEventFollows DEF HandlerStep
<1>2. CASE p # event.path
  <2>1. /\ event \in [step : Steps, type : EventTypes, path : Paths, read : File] /\ pc = "loop"
    BY AtEvent DEF HandlerStep, ScanEvent, EmbedEvent, ConfigEvent, SymbolsEvent, RemoveEvent,
       GraphEvent,
       MarkEvent, Steps
  <2>2. pc' = "loop" /\ UNCHANGED <<disk, setup, watcher, built>>
    BY <2>1 DEF HandlerStep, ScanEvent, EmbedEvent, ConfigEvent, SymbolsEvent, RemoveEvent,
       GraphEvent,
       MarkEvent, tree, session, SaveSymbols, HandleFileEvent, MarkFileDirty, rpgVars
  <2>3. p \notin lost /\ (p \in unsymbolled' <=> p \in unsymbolled)
    BY <1>2 DEF HandlerStep, ScanEvent, EmbedEvent, ConfigEvent, SymbolsEvent, RemoveEvent,
       GraphEvent,
       MarkEvent, history
  <2>4. doc'[p] = doc[p] /\ chunks'[p] = chunks[p]
    BY <1>2 DEF HandlerStep, ScanEvent, EmbedEvent, ConfigEvent, SymbolsEvent, RemoveEvent,
       GraphEvent,
       MarkEvent, index, SessionOK
  <2>5. symbols'[p] = symbols[p] /\ nodes'[p] = nodes[p] /\ (p \in unbuilt' <=> p \in unbuilt)
    BY <1>2 DEF HandlerStep, ScanEvent, EmbedEvent, ConfigEvent, SymbolsEvent, RemoveEvent,
       GraphEvent,
       MarkEvent, SaveSymbols, HandleFileEvent, MarkFileDirty, rpgVars, graphVars, RpgTypeOK
  <2>6. event' = NoEvent \/ event'.path = event.path
    BY <2>1 DEF HandlerStep, ScanEvent, EmbedEvent, ConfigEvent, SymbolsEvent, RemoveEvent,
       GraphEvent,
       MarkEvent, Then
  <2> QED
    BY <1>2, <2>1, <2>2, <2>3, <2>4, <2>5, <2>6, OtherFileFollows
<1> QED
  BY <1>1, <1>2

(***************************************************************************)
(* The invariant and what follows from it                                  *)
(***************************************************************************)

LEMMA WatcherStep ==
  ASSUME BaseInv, WatcherOK, [ProjectNext]_projectVars
  PROVE  WatcherOK'
<1> USE DEF BaseInv
<1>1. CASE \E q \in Paths, c \in File, type \in EventTypes : Edit(q, c, type)
  <2>1. PICK q \in Paths, c \in File, type \in EventTypes : Edit(q, c, type)
    BY <1>1
  <2>2. UNCHANGED sending /\ disk' = [disk EXCEPT ![q] = c] /\ (type = "rename" => c = Absent)
    BY <2>1 DEF Edit, Debounce, watcher
  <2>3. UNCHANGED pending \/ Debounce(q, type)
    BY <2>1 DEF Edit, watcher
  <2>4. ASSUME NEW p \in Paths, pending'[p] = "rename" PROVE disk'[p] = Absent
    <3>1. pending[p] = "rename" => pc = "loop" /\ Debounce(q, type)
      BY <2>1 DEF Edit, LoopOnly, WatcherIdle
    <3>2. CASE p # q
      BY <2>2, <2>3, <2>4, <3>2 DEF WatcherOK, Debounce, DataOK
    <3>3. CASE p = q
      BY <2>2, <2>3, <2>4, <3>1, <3>3 DEF Debounce, DataOK, KeepsDelete
    <3> QED
      BY <3>2, <3>3
  <2> QED
    BY <2>2, <2>4 DEF WatcherOK
<1>2. CASE FlushEvents
  <2>1. \A p \in Paths : pending'[p] = "none"
    BY <1>2 DEF FlushEvents, Flush
  <2>2. \A d, e \in sending' : d.path = e.path => d = e
    BY <1>2 DEF FlushEvents, Flush
  <2> QED
    BY <2>1, <2>2 DEF WatcherOK
<1>3. CASE EndSession /\ UNCHANGED tree
  BY <1>3 DEF EndSession, CloseWatcher, WatcherOK
<1>4. CASE UNCHANGED <<disk, pending>> /\ sending' \subseteq sending
  BY <1>4 DEF WatcherOK
<1>5. ScanStep => (EndSession /\ UNCHANGED tree) \/ (UNCHANGED <<disk, pending>> /\ sending' \subseteq sending)
  BY DEF ScanStep, StartSession, FilterFile, ScanSymbols, RemoveOldChunks, SaveVectors,
     EmbeddingFails, RemoveGone, SaveConfig, BuildGraph, StartWatcher, tree, watcher
<1>6. HandlerStep => UNCHANGED <<disk, pending>> /\ sending' \subseteq sending
  BY DEF HandlerStep, ScanEvent, EmbedEvent, ConfigEvent, SymbolsEvent, RemoveEvent, GraphEvent,
     MarkEvent, tree, watcher
<1>7. DeliverEvent => FlushEvents \/ (UNCHANGED <<disk, pending>> /\ sending' \subseteq sending)
  BY DEF DeliverEvent, SendEvent, Send, DropEvent, Drop, ReceiveEvent, Receive, tree
<1>8. WorkerStep \/ PersistTicker \/ UNCHANGED projectVars => UNCHANGED <<disk, pending>> /\ sending' \subseteq sending
  BY DEF WorkerStep, PersistTicker, projectVars, tree, watcher
<1>9. Stop \/ Crash \/ CrashInPersist => EndSession /\ UNCHANGED tree
  BY DEF Stop, Crash, CrashInPersist
<1> QED
  BY <1>1, <1>2, <1>3, <1>4, <1>5, <1>6, <1>7, <1>8, <1>9 DEF ProjectNext

LEMMA WorkerFollows ==
  ASSUME BaseInv, MirrorInv, WorkerStep \/ PersistTicker \/ UNCHANGED projectVars, NEW p \in Paths \ lost'
  PROVE  FileInv(p)'
<1>1. FileInv(p)
  BY DEF MirrorInv, WorkerStep, PersistTicker, projectVars, history
<1>2. UNCHANGED <<disk, setup, session, index, event, symbols, nodes, built, unbuilt, watcher, unsymbolled>>
  BY DEF WorkerStep, ScheduleFullReconcile, NextDerivedBatch, RefreshDerivedEdges, PersistTick,
     MarkPersisted, RefreshFails, PersistTicker, SaveGraph, projectVars, rpgVars, graphVars, tree, history
<1> QED
  BY <1>1, <1>2, WatcherUnchanged, FileUnchanged

LEMMA MirrorStep ==
  ASSUME BaseInv, MirrorInv, [ProjectNext]_projectVars
  PROVE  MirrorInv'
<1>1. WatcherOK'
  BY WatcherStep DEF MirrorInv
<1>2. BaseInv'
  BY BaseStep
<1>3. ASSUME NEW p \in Paths \ lost' PROVE FileInv(p)'
  <2>1. CASE ScanStep
    BY <1>2, <2>1, StartFollows, FilterFollows, RemoveChunksFollows, VectorsFollow,
       FailureFollows,
       GoneFollows, ScanSymbolsFollows, ConfigFollows, BuildFollows, WatchFollows DEF ScanStep
  <2>2. CASE Stop \/ Crash \/ CrashInPersist
    BY <2>2, EndFollows DEF Stop, Crash, CrashInPersist
  <2> QED
    BY <2>1, <2>2, EditFollows, DeliverFollows, HandlerFollows, WorkerFollows DEF ProjectNext
<1> QED
  BY <1>1, <1>3 DEF MirrorInv

LEMMA MirrorInit == ProjectInit => MirrorInv
  BY DEF ProjectInit, WatcherInit, RpgInit, MirrorInv, WatcherOK, FileInv, ScanFollows

LEMMA MirrorAlways == ProjectSpec => [](BaseInv /\ MirrorInv)
<1>1. BaseInv /\ MirrorInv /\ [ProjectNext]_projectVars => (BaseInv /\ MirrorInv)'
  BY BaseStep, MirrorStep
<1> QED
  BY BaseInit, MirrorInit, <1>1, PTL DEF ProjectSpec

\* For any tree, any edits, failures, crashes and setup: once the watch has
\* come to rest, the index, the symbols and the graph mirror the tree, except
\* for the files an update of which was lost in one of the ways named at the
\* properties (runInitialScan, handleFileEvent, Watcher.flush).
THEOREM StoresMirror == ProjectSpec => []StoresMirrorTree
<1>1. BaseInv => ProjectTypeOK
  BY DEF BaseInv, ProjectTypeOK, DataOK, SessionOK, Phases
<1>2. ASSUME BaseInv, MirrorInv, Idle, NEW p \in Paths \ lost
      PROVE  /\ InSync(p, doc, chunks)
             /\ p \notin unsymbolled => symbols[p] = disk[p] /\ (built => GraphFits(p))
  <2>1. pc = "loop" /\ event.step = "none" /\ ~Coming(p) /\ FileInv(p)
    BY <1>2, IdleNothingComes DEF Idle, NoEvent, MirrorInv
  <2> QED
    BY <2>1 DEF FileInv, IndexFollows, SymbolsFollow, Ev, Mid
<1>3. BaseInv /\ MirrorInv => StoresMirrorTree
  BY <1>1, <1>2 DEF StoresMirrorTree, IndexMirrorsTree, SymbolsMirrorTree, GraphMirrorsSymbols,
     GraphFits
<1> QED
  BY MirrorAlways, <1>3, PTL
=============================================================================
