-------------------------- MODULE DebouncedWatcher --------------------------
(***************************************************************************)
(* watcher.Watcher: raw file events are merged per path while a timer runs *)
(* and are then sent, in the arbitrary order of a map, to a channel of     *)
(* bounded capacity that the watch loop reads.  A full channel drops.      *)
(***************************************************************************)
EXTENDS Naturals, Sequences, FiniteSets

CONSTANTS
    Paths,
    EventCap       \* places of Watcher.events, 100 in the code

VARIABLES
    pending,       \* Watcher.pending: the event of a path that waits for the timer
    sending,       \* the events flush has taken and not yet sent
    queue          \* Watcher.events

watcherVars == <<pending, sending, queue>>

EventTypes == {"create", "modify", "delete", "rename"}
FileEvent == [type : EventTypes, path : Paths]

WatcherInit ==
    /\ pending = [p \in Paths |-> "none"]
    /\ sending = {}
    /\ queue = <<>>

\* A delete that waits is kept when the file comes back.
KeepsDelete(p, type) == pending[p] = "delete" /\ type # "delete"

\* handleEvent and debounceEvent, which also start the timer anew.
Debounce(p, type) ==
    /\ pending' = [pending EXCEPT ![p] = IF KeepsDelete(p, type) THEN @ ELSE type]
    /\ UNCHANGED <<sending, queue>>

\* The timer's goroutine takes all that waits.  Its sends never block, so it
\* is through long before the timer can fire again.
Flush ==
    LET waiting == {p \in Paths : pending[p] # "none"}
    IN  /\ waiting # {} /\ sending = {}
        /\ sending' = {[type |-> pending[p], path |-> p] : p \in waiting}
        /\ pending' = [p \in Paths |-> "none"]
        /\ UNCHANGED queue

Send(e) ==
    /\ e \in sending /\ Len(queue) < EventCap
    /\ sending' = sending \ {e}
    /\ queue' = Append(queue, e)
    /\ UNCHANGED pending

Drop(e) ==
    /\ e \in sending /\ Len(queue) = EventCap
    /\ sending' = sending \ {e}
    /\ UNCHANGED <<pending, queue>>

Receive ==
    /\ queue # <<>>
    /\ queue' = Tail(queue)
    /\ UNCHANGED <<pending, sending>>

\* The session ends; a timer that still runs finds nobody listening.
CloseWatcher ==
    /\ pending' = [p \in Paths |-> "none"] /\ sending' = {} /\ queue' = <<>>

WatcherIdle == sending = {} /\ queue = <<>> /\ \A p \in Paths : pending[p] = "none"
=============================================================================
