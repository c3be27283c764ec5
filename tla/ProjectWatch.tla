---------------------------- MODULE ProjectWatch ----------------------------
(***************************************************************************)
(* The first engine, "grepai watch", on one project.  A session scans the  *)
(* tree, embeds what changed, extracts symbols, builds the RPG graph, and  *)
(* only then starts the watcher and follows it.  Three stores mirror the   *)
(* tree: the index (documents and their chunks), the symbols and the       *)
(* graph (module RpgManager), each in memory and persisted now and then.   *)
(*                                                                         *)
(* A project of a workspace goes through projectPrefixStore to a database  *)
(* it shares with others; a single project has a GOB file.                 *)
(***************************************************************************)
EXTENDS RpgManager, Sequences

CONSTANTS
    Blank,         \* a content no chunk comes from
    EventCap,
    Setups,        \* the setups checked
    Bounds         \* for each, how often the environment does what, and
                   \* what it writes to files

ASSUME ProjectAssumption ==
    /\ Blank # Absent
    /\ EventCap \in Nat \ {0}
    /\ Setups \subseteq [shared : BOOLEAN, batched : BOOLEAN, rpg : BOOLEAN]
    /\ Bounds \in [Setups -> [edits : Nat, stops : Nat, faults : Nat,
                            contents : SUBSET Contents]]

VARIABLES
    disk,          \* what each file holds
    newer,         \* files whose modification time is after last_index_time
    timed,         \* the config file has a last_index_time
    setup,
    pc,            \* where the session is
    left,          \* files the phase under way has still to visit
    listed, old,   \* files of ScanMetadata; those of them not newer
    gone,          \* documents without a file
    todo,          \* the content read of each file that is to be indexed
    embedding,     \* files whose chunks are removed and whose vectors are awaited
    indexed,       \* in the scan: something was indexed; in the loop:
                   \* last_index_time has been saved
    doc, chunks,   \* the content a document, and its chunks, come from
    saved,         \* the index and the symbols on disk
    pending, sending, queue,    \* the watcher
    event,         \* what handleFileEvent is at
    used,          \* how much of the bounds is used
    lost,          \* history: files with an update the index has overlooked
    unsymbolled    \* history: the same for the symbols

INSTANCE DebouncedWatcher

tree == <<disk, newer, timed>>
session == <<pc, left, listed, old, gone, todo, embedding, indexed>>
index == <<doc, chunks>>
watcher == <<pending, sending, queue>>
history == <<lost, unsymbolled>>
projectVars == <<tree, setup, session, index, saved, watcher, event, used, history, rpgVars>>

Nothing == [p \in Paths |-> Absent]
Empty == [torn |-> FALSE, doc |-> Nothing, chunks |-> Nothing]
Torn == [Empty EXCEPT !.torn = TRUE]
NoEvent == [step |-> "none"]

\* What GOBStore.Persist writes; a database has nothing to persist.
Index == IF setup.shared THEN Empty ELSE [torn |-> FALSE, doc |-> doc, chunks |-> chunks]
PersistStores == saved' = [index |-> Index, symbols |-> symbols]

\* What the graph's own Persist writes, when there is a graph.
SaveGraph ==
    /\ savedGraph' = IF built THEN graph ELSE savedGraph
    /\ UNCHANGED <<symbols, graphVars, managerVars, workerVars, built, touched, unbuilt>>

\* What a file can come to.
Writable == Bounds[setup].contents \cup {Absent}

ProjectInit ==
    /\ setup \in Setups
    /\ disk \in [Paths -> Writable] /\ newer = {} /\ timed = FALSE
    /\ pc = "down" /\ left = {} /\ listed = {} /\ old = {} /\ gone = {}
    /\ todo = Nothing /\ embedding = {} /\ indexed = FALSE
    /\ doc = Nothing /\ chunks = Nothing
    /\ saved = [index |-> Empty, symbols |-> Nothing]
    /\ WatcherInit
    /\ event = NoEvent
    /\ used = [edits |-> 0, stops |-> 0, faults |-> 0]
    /\ lost = {} /\ unsymbolled = {}
    /\ RpgInit

Fault == used.faults < Bounds[setup].faults /\ used' = [used EXCEPT !.faults = @ + 1]
FaultIf(fails) == IF fails THEN Fault ELSE UNCHANGED used

Vectors(c) == IF c = Blank THEN Absent ELSE c

\* What search finds of a file is what the file holds.
InSync(p, d, c) ==
    /\ c[p] = Vectors(disk[p])
    /\ disk[p] # Blank => d[p] = disk[p]

(***************************************************************************)
(* The tree                                                                *)
(***************************************************************************)

\* A file can keep or get an old modification time: it changes in the second
\* of last_index_time, or an old file is moved in.
Edit(p, c, type) ==
    /\ used.edits < Bounds[setup].edits /\ used' = [used EXCEPT !.edits = @ + 1]
    /\ c \in Writable \ {disk[p]}
    /\ type \in IF c = Absent THEN {"delete", "rename"} ELSE {"create", "modify"}
    /\ disk' = [disk EXCEPT ![p] = c]
    /\ IF c = Absent THEN newer' = newer \ {p}
                     ELSE newer' = newer \cup {p} \/ (timed /\ newer' = newer)
    /\ CASE pc = "down" -> UNCHANGED <<watcher, lost>>
         [] pc = "loop" -> /\ Debounce(p, type)
                           /\ lost' = IF KeepsDelete(p, type) THEN lost \cup {p} ELSE lost
         [] OTHER -> /\ lost' = IF pc = "filter" /\ p \in left THEN lost ELSE lost \cup {p}
                     /\ UNCHANGED watcher
    /\ UNCHANGED <<timed, setup, session, index, saved, event, unsymbolled, rpgVars>>

EndKeepsManager ==                                              \* mutant
    /\ pc' = "down"
    /\ left' = {} /\ listed' = {} /\ old' = {} /\ gone' = {}
    /\ todo' = Nothing /\ embedding' = {} /\ indexed' = FALSE
    /\ IF setup.shared THEN UNCHANGED index ELSE doc' = Nothing /\ chunks' = Nothing
    /\ CloseWatcher
    /\ event' = NoEvent
    /\ symbols' = Nothing /\ built' = FALSE
    /\ UNCHANGED <<graphVars, managerVars, workerVars, touched, savedGraph, unbuilt>>

\* The process or its session ends; a database keeps what it has.
EndSession ==
    /\ pc' = "down"
    /\ left' = {} /\ listed' = {} /\ old' = {} /\ gone' = {}
    /\ todo' = Nothing /\ embedding' = {} /\ indexed' = FALSE
    /\ IF setup.shared THEN UNCHANGED index ELSE doc' = Nothing /\ chunks' = Nothing
    /\ CloseWatcher
    /\ event' = NoEvent
    /\ Restart(Nothing)

(***************************************************************************)
(* The initial scan                                                        *)
(***************************************************************************)

\* initializeStore, the symbols' Load, ScanMetadata and ListDocuments.  A
\* torn index ends the session.  Paths of a shared database never match.
StartSession ==
    /\ pc = "down" /\ ~saved.index.torn
    /\ Restart(saved.symbols)
    /\ IF setup.shared THEN UNCHANGED index ELSE doc' = saved.index.doc /\ chunks' = saved.index.chunks
    /\ listed' = {p \in Paths : disk[p] # Absent}
    /\ old' = IF timed THEN listed' \ newer ELSE {}
    /\ gone' = {p \in Paths : doc'[p] # Absent} \ listed'
    /\ left' = listed'
    /\ pc' = IF left' = {} THEN "index" ELSE "filter"
    /\ lost' = {} /\ unsymbolled' = {}
    /\ UNCHANGED <<tree, setup, todo, embedding, indexed, saved, watcher, event, used>>

GateForgetsChunks(p) == p \in old \/ disk[p] \in {Absent, doc[p]}     \* mutant

\* A file is read unless it is old and has a document with chunk ids, and is
\* indexed unless its content is the document's.
Skipped(p) ==
    \/ p \in old /\ doc[p] # Absent
    \/ disk[p] \in {Absent, doc[p]}

\* A file that cannot be read, or that is binary, minified or too large by
\* now, stays as it was indexed.
FilterFile(p, fails) ==
    /\ pc = "filter" /\ p \in left
    /\ fails => ~Skipped(p)
    /\ left' = left \ {p}
    /\ todo' = IF Skipped(p) \/ fails THEN todo ELSE [todo EXCEPT ![p] = disk[p]]
    /\ lost' = IF fails \/ (Skipped(p) /\ doc[p] # Absent /\ ~InSync(p, doc, chunks))
               THEN lost \cup {p} ELSE lost
    /\ pc' = IF left' = {} THEN "index" ELSE pc
    /\ FaultIf(fails)
    /\ UNCHANGED <<tree, setup, listed, old, gone, embedding, indexed, index, saved, watcher,
                   event, unsymbolled, rpgVars>>

Read == {p \in Paths : todo[p] # Absent}

\* Both ways to index first remove the chunks a file has: IndexFile one file
\* at a time, indexFilesBatched all of them before the first vector arrives.
RemoveOldChunks(files) ==
    /\ pc = "index" /\ embedding = {}
    /\ files # {} /\ IF setup.batched THEN files = Read ELSE \E p \in Read : files = {p}
    /\ chunks' = [p \in Paths |-> IF p \in files THEN Absent ELSE chunks[p]]
    /\ embedding' = {p \in files : todo[p] # Blank}
    /\ todo' = [p \in Paths |-> IF p \in embedding' THEN todo[p]
                                ELSE IF p \in files THEN Absent ELSE todo[p]]
    /\ indexed' = (indexed \/ (~setup.batched /\ embedding' = {}))
    /\ UNCHANGED <<tree, setup, pc, left, listed, old, gone, doc, saved, watcher, event, used,
                   history, rpgVars>>

SaveVectors ==
    /\ pc = "index" /\ embedding # {}
    /\ doc' = [p \in Paths |-> IF p \in embedding THEN todo[p] ELSE doc[p]]
    /\ chunks' = [p \in Paths |-> IF p \in embedding THEN todo[p] ELSE chunks[p]]
    /\ todo' = [p \in Paths |-> IF p \in embedding THEN Absent ELSE todo[p]]
    /\ embedding' = {} /\ indexed' = TRUE
    /\ UNCHANGED <<tree, setup, pc, left, listed, old, gone, saved, watcher, event, used,
                   history, rpgVars>>

\* A batch that fails ends the session: its stores are closed, which persists
\* them.  One file that fails alone is logged and passed over.
EmbeddingFails ==
    /\ pc = "index" /\ embedding # {} /\ Fault
    /\ IF setup.batched
       THEN /\ PersistStores
            /\ EndSession
            /\ UNCHANGED history
       ELSE /\ todo' = [p \in Paths |-> IF p \in embedding THEN Absent ELSE todo[p]]
            /\ embedding' = {}
            /\ lost' = lost \cup embedding
            /\ UNCHANGED <<pc, left, listed, old, gone, indexed, index, saved, watcher, event,
                           unsymbolled, rpgVars>>
    /\ UNCHANGED <<tree, setup>>

\* RemoveFile for each document without a file.  The prefix of a shared
\* database is put before a path that has it already, so nothing matches.  One
\* that fails is logged and passed over, its chunks gone or not.
RemoveGone(kept, chunkless) ==
    LET removed == IF setup.shared THEN {} ELSE gone \ kept
    IN  /\ pc = "index" /\ Read = {} /\ embedding = {}
        /\ kept \subseteq gone /\ chunkless \subseteq kept /\ (kept # {} => ~setup.shared)
        /\ doc' = [p \in Paths |-> IF p \in removed THEN Absent ELSE doc[p]]
        /\ chunks' = [p \in Paths |-> IF p \in removed \cup chunkless THEN Absent ELSE chunks[p]]
        /\ lost' = lost \cup (gone \ removed)
        /\ gone' = {}
        /\ left' = listed /\ pc' = "symbols"
        /\ FaultIf(kept # {})
        /\ UNCHANGED <<tree, setup, listed, old, todo, embedding, indexed, saved, watcher, event,
                       unsymbolled, rpgVars>>

\* The file is read again; a failed extraction is logged and passed over.
ScanSymbols(p, fails) ==
    LET skipped == \/ symbols[p] # Absent /\ p \in old
                   \/ disk[p] \in {Absent, symbols[p]}
    IN  /\ pc = "symbols" /\ p \in left
        /\ left' = left \ {p}
        /\ (fails => ~skipped) /\ FaultIf(fails)
        /\ IF skipped \/ fails THEN UNCHANGED rpgVars ELSE SaveSymbols(p, disk[p])
        /\ unsymbolled' = IF fails \/ (skipped /\ symbols[p] \notin {Absent, disk[p]})
                          THEN unsymbolled \cup {p} ELSE unsymbolled
        /\ UNCHANGED <<tree, setup, pc, listed, old, gone, todo, embedding, indexed, index, saved,
                       watcher, event, lost>>

\* The symbols are persisted, then last_index_time is saved, before the graph
\* is built and the index is persisted.
SaveConfig ==
    /\ pc = "symbols" /\ left = {}
    /\ saved' = [index |-> saved.index, symbols |-> symbols]
    /\ IF indexed THEN timed' = TRUE /\ newer' = {} ELSE UNCHANGED <<timed, newer>>
    /\ indexed' = FALSE
    /\ pc' = "graph"
    /\ unsymbolled' = unsymbolled \cup {p \in Paths \ listed : symbols[p] # Absent}
    /\ UNCHANGED <<disk, setup, left, listed, old, gone, todo, embedding, index, watcher, event,
                   used, lost, rpgVars>>

\* The documents of a shared database have no symbols under their long paths.
\* A build that fails is logged; the session, its manager and its workers go on.
BuildGraph(outcome) ==
    /\ pc = "graph"
    /\ IF setup.rpg
       THEN BuildFull(IF setup.shared THEN {} ELSE {p \in Paths : doc[p] # Absent}, outcome)
       ELSE outcome = "done" /\ UNCHANGED rpgVars
    /\ pc' = "persist"
    /\ FaultIf(outcome # "done")
    /\ UNCHANGED <<tree, setup, left, listed, old, gone, todo, embedding, indexed, index, saved,
                   watcher, event, history>>

\* The index and the graph are persisted and the watcher starts.
StartWatcher ==
    /\ pc = "persist"
    /\ saved' = [index |-> Index, symbols |-> saved.symbols]
    /\ SaveGraph
    /\ pc' = "loop" /\ listed' = {} /\ old' = {}
    /\ UNCHANGED <<tree, setup, left, gone, todo, embedding, indexed, index, watcher, event, used,
                   history>>

(***************************************************************************)
(* The watch loop: handleFileEvent, step by step                           *)
(***************************************************************************)

ReceiveEvent ==
    /\ pc = "loop" /\ event = NoEvent
    /\ Receive
    /\ event' = [step |-> IF Head(queue).type \in {"create", "modify"} THEN "scan" ELSE "remove",
                 type |-> Head(queue).type, path |-> Head(queue).path, read |-> Absent]
    /\ UNCHANGED <<tree, setup, session, index, saved, used, history, rpgVars>>

\* An update is made good when the file is read as it is and no removal of
\* it is on its way.
MadeGood(p, read) ==
    /\ read = disk[p]
    /\ pending[p] # "delete"
    /\ ~\E e \in sending \cup {queue[i] : i \in DOMAIN queue} : e.path = p /\ e.type \in {"delete", "rename"}

At(step) == pc = "loop" /\ event.step = step

\* A file that has vanished, or has the content its document has a hash of,
\* needs nothing.  One that cannot be read or is not to be indexed any more,
\* whose hash cannot be compared or whose chunks cannot be removed, stays as it
\* was indexed.  Otherwise IndexFile first removes the chunks there are; a file
\* that gives no chunk ends there, its document unchanged.
ScanEvent(fails) ==
    LET p == event.path
        c == disk[p]
    IN  /\ At("scan")
        /\ (fails => c \notin {Absent, doc[p]}) /\ FaultIf(fails)
        /\ IF fails \/ c \in {Absent, doc[p]}
           THEN /\ event' = NoEvent
                /\ lost' = IF fails \/ (c # Absent /\ chunks[p] # Vectors(c)) THEN lost \cup {p} ELSE lost
                /\ UNCHANGED <<index, indexed>>
           ELSE /\ chunks' = [chunks EXCEPT ![p] = Absent]
                /\ event' = [event EXCEPT !.step = IF c = Blank THEN "config" ELSE "embed", !.read = c]
                /\ lost' = IF c = Blank /\ MadeGood(p, c) THEN lost \ {p} ELSE lost
                /\ UNCHANGED <<doc, indexed>>
        /\ UNCHANGED <<tree, setup, pc, left, listed, old, gone, todo, embedding, saved, watcher,
                       unsymbolled, rpgVars>>

\* A failure leaves a document whose chunks are gone.
EmbedEvent(fails) ==
    LET p == event.path
    IN  /\ At("embed")
        /\ IF fails
           THEN /\ Fault
                /\ event' = NoEvent
                /\ lost' = lost \cup {p}
                /\ UNCHANGED index
           ELSE /\ doc' = [doc EXCEPT ![p] = event.read]
                /\ chunks' = [chunks EXCEPT ![p] = event.read]
                /\ event' = [event EXCEPT !.step = "config"]
                /\ lost' = IF MadeGood(p, event.read) THEN lost \ {p} ELSE lost
                /\ UNCHANGED used
        /\ UNCHANGED <<tree, setup, session, saved, watcher, unsymbolled, rpgVars>>

\* last_index_time is saved at once the first time, then every 30 s at most.
ConfigEvent(due) ==
    /\ At("config") /\ (due \/ indexed)
    /\ IF due THEN timed' = TRUE /\ newer' = {} ELSE UNCHANGED <<timed, newer>>
    /\ indexed' = TRUE
    /\ event' = [event EXCEPT !.step = "symbols"]
    /\ UNCHANGED <<disk, setup, pc, left, listed, old, gone, todo, embedding, index, saved, watcher,
                   used, history, rpgVars>>

Then(step) == IF built THEN [event EXCEPT !.step = step] ELSE NoEvent

SymbolsEvent(fails) ==
    LET p == event.path
    IN  /\ At("symbols")
        /\ IF fails
           THEN /\ Fault
                /\ event' = NoEvent
                /\ unsymbolled' = unsymbolled \cup {p}
                /\ UNCHANGED rpgVars
           ELSE /\ SaveSymbols(p, event.read)
                /\ event' = Then("graph")
                /\ unsymbolled' = IF MadeGood(p, event.read) THEN unsymbolled \ {p} ELSE unsymbolled
                /\ UNCHANGED used
        /\ UNCHANGED <<tree, setup, session, index, saved, watcher, lost>>

\* RemoveFile, then DeleteFile of the symbols, whose store is in memory and
\* refuses nothing.  When the document or already its chunks cannot be removed
\* the event ends there.
RemoveEvent(fails) ==
    LET p == event.path
    IN  /\ At("remove") /\ FaultIf(fails)
        /\ IF fails
           THEN /\ chunks' \in {chunks, [chunks EXCEPT ![p] = Absent]}
                /\ event' = NoEvent
                /\ lost' = lost \cup {p}
                /\ UNCHANGED <<doc, unsymbolled, rpgVars>>
           ELSE /\ doc' = [doc EXCEPT ![p] = Absent]
                /\ chunks' = [chunks EXCEPT ![p] = Absent]
                /\ SaveSymbols(p, Absent)
                /\ event' = Then("graph")
                /\ lost' = IF disk[p] = Absent THEN lost \ {p} ELSE lost
                /\ unsymbolled' = IF disk[p] = Absent THEN unsymbolled \ {p} ELSE unsymbolled
        /\ UNCHANGED <<tree, setup, session, saved, watcher>>

DeleteUnmarked ==                                               \* mutant
    /\ At("graph")
    /\ HandleFileEvent(IF event.type = "rename" THEN "delete" ELSE event.type, event.path)
    /\ event' = IF event.type = "delete" THEN NoEvent ELSE Then("mark")
    /\ UNCHANGED <<tree, setup, session, index, saved, watcher, used, history>>

GraphEvent ==
    /\ At("graph")
    /\ HandleFileEvent(IF event.type = "rename" THEN "delete" ELSE event.type, event.path)
    /\ event' = Then("mark")
    /\ UNCHANGED <<tree, setup, session, index, saved, watcher, used, history>>

MarkEvent ==
    /\ At("mark")
    /\ MarkFileDirty(event.path)
    /\ event' = NoEvent
    /\ UNCHANGED <<tree, setup, session, index, saved, watcher, used, history>>

HandlerStep ==
    \/ \E fails \in BOOLEAN :
          ScanEvent(fails) \/ EmbedEvent(fails) \/ SymbolsEvent(fails) \/ RemoveEvent(fails)
    \/ \E due \in BOOLEAN : ConfigEvent(due)
    \/ GraphEvent
    \/ MarkEvent

(***************************************************************************)
(* Timers, the worker, the end of a session                                *)
(***************************************************************************)

SendEvent(e) ==
    /\ Send(e)
    /\ UNCHANGED <<tree, setup, session, index, saved, event, used, history, rpgVars>>

DropEvent(e) ==
    /\ Drop(e)
    /\ lost' = lost \cup {e.path}
    /\ UNCHANGED <<tree, setup, session, index, saved, event, used, unsymbolled, rpgVars>>

FlushEvents ==
    /\ Flush
    /\ UNCHANGED <<tree, setup, session, index, saved, event, used, history, rpgVars>>

WorkerStep ==
    /\ pc = "loop"
    /\ \/ (ScheduleFullReconcile \/ NextDerivedBatch \/ RefreshDerivedEdges) /\ UNCHANGED used
       \/ (PersistTick \/ MarkPersisted) /\ UNCHANGED used
       \/ RefreshFails /\ Fault
    /\ UNCHANGED <<tree, setup, session, index, saved, watcher, event, history>>

\* The loop's ticker and its ctx.Done branch persist all three stores.
PersistTicker ==
    /\ pc = "loop" /\ event = NoEvent
    /\ PersistStores /\ SaveGraph
    /\ UNCHANGED <<tree, setup, session, index, watcher, event, used, history>>

Ending == used.stops < Bounds[setup].stops /\ used' = [used EXCEPT !.stops = @ + 1]

Stop ==
    /\ pc = "loop" /\ event = NoEvent /\ Ending
    /\ PersistStores
    /\ EndSession
    /\ UNCHANGED <<tree, setup, history>>

Crash ==
    /\ pc # "down" /\ Ending
    /\ EndSession
    /\ UNCHANGED <<tree, setup, saved, history>>

\* The index file is written in place, the symbols after it and into a new
\* file: a crash in between leaves half an index, or a new one and old symbols.
CrashInPersist ==
    /\ pc = "loop" /\ event = NoEvent /\ Ending
    /\ ~setup.shared
    /\ \E file \in {Torn, Index} : saved' = [index |-> file, symbols |-> saved.symbols]
    /\ EndSession
    /\ UNCHANGED <<tree, setup, history>>

ScanStep ==
    \/ StartSession
    \/ \E p \in Paths, fails \in BOOLEAN : FilterFile(p, fails) \/ ScanSymbols(p, fails)
    \/ \E files \in SUBSET Paths : RemoveOldChunks(files)
    \/ SaveVectors \/ EmbeddingFails
    \/ \E kept, chunkless \in SUBSET Paths : RemoveGone(kept, chunkless)
    \/ SaveConfig
    \/ \E outcome \in Outcomes : BuildGraph(outcome)
    \/ StartWatcher

DeliverEvent ==
    \/ FlushEvents
    \/ \E e \in sending : SendEvent(e) \/ DropEvent(e)
    \/ ReceiveEvent

ProjectNext ==
    \/ \E p \in Paths, c \in File, type \in EventTypes : Edit(p, c, type)
    \/ ScanStep
    \/ DeliverEvent
    \/ HandlerStep
    \/ WorkerStep
    \/ PersistTicker
    \/ Stop \/ Crash \/ CrashInPersist

ProjectSpec == ProjectInit /\ [][ProjectNext]_projectVars

(***************************************************************************)
(* Properties                                                              *)
(***************************************************************************)

Idle == pc = "loop" /\ event = NoEvent /\ WatcherIdle

ProjectTypeOK ==
    /\ RpgTypeOK
    /\ disk \in [Paths -> File] /\ doc \in [Paths -> File] /\ chunks \in [Paths -> File]
    /\ newer \subseteq Paths /\ timed \in BOOLEAN
    /\ pc \in {"down", "filter", "index", "symbols", "graph", "persist", "loop"}
    /\ old \subseteq listed /\ embedding \subseteq Read
    /\ pending \in [Paths -> EventTypes \cup {"none"}]
    /\ sending \subseteq FileEvent /\ Len(queue) <= EventCap
    /\ lost \subseteq Paths /\ unsymbolled \subseteq Paths

\* Once the watch has come to rest, search finds of every file exactly what
\* the file holds.  Where the code promises less, the file is in lost until an
\* event reads it as it is or the next session starts: an edit between the
\* scan of a file and the start of the watcher, a full event channel, a file
\* that came back while its delete waited, an edit the gate of last_index_time
\* took for old, a document of a shared database whose file went away while
\* nobody watched, and a failure to read, embed or remove this file, which is
\* logged and not tried again (runInitialScan, handleFileEvent).
IndexMirrorsTree == Idle => \A p \in Paths \ lost : InSync(p, doc, chunks)

\* And the symbols are those of the file, except after a failed extraction,
\* an edit the gate took for old, or a file that went away unwatched.
SymbolsMirrorTree == Idle => \A p \in Paths \ (lost \cup unsymbolled) : symbols[p] = disk[p]

\* The event loop never ends an event with a changed and unmarked file: what
\* waits to be marked is what handleFileEvent is at.
ChangedIsMarked ==
    \A p \in touched : event.step \in {"graph", "mark"} /\ event.path = p

\* The graph shows the symbols of every indexed file, and none of a file that
\* has none (HandleFileEvent, BuildFull).  After a build that could not list
\* the documents it shows a file from its next event on.
GraphMirrorsSymbols ==
    built /\ Idle => \A p \in Paths \ (lost \cup unsymbolled) :
        IF symbols[p] = Absent THEN nodes[p] = {}
        ELSE doc[p] # Absent /\ ~setup.shared =>
                symbols[p] \in nodes[p] \/ (p \in unbuilt /\ nodes[p] = {})

\* The three stores of a project mirror the tree together, and are well-formed.
StoresMirrorTree ==
    ProjectTypeOK /\ IndexMirrorsTree /\ SymbolsMirrorTree /\ GraphMirrorsSymbols
=============================================================================
