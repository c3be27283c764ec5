------------------------------ MODULE Background ------------------------------
(***************************************************************************)
(* `grepai watch` in the background: the process that runs the supervisor, *)
(* the PID file and the ready file it keeps for its worktree, and the      *)
(* commands --background, --status and --stop, given one after another by  *)
(* one operator.  A process may be killed at any point.                    *)
(*                                                                         *)
(* Assumed: a process has written its PID before the operator gives the    *)
(* next command, and it is gone once its PID file is removed.              *)
(***************************************************************************)
EXTENDS Supervisor

CONSTANTS
    MaxStarts,       \* bound on the processes spawned
    MaxKills         \* bound on the processes killed

ASSUME BackgroundAssumption == MaxStarts \in Nat /\ MaxKills \in Nat

VARIABLES
    proc,            \* "none", "spawned", "setup", "running", "leaving"
    pidFile,         \* "none", "own" (of the process that lives), "stale"
    readyFile,       \* the same
    command,         \* "idle", "starting", "stopping"
    starts, kills    \* what has happened, for the bounds

processVars == <<proc, pidFile, readyFile, command, starts, kills>>
backgroundVars == <<supervisorVars, processVars>>

BackgroundInit ==
    /\ SupervisorOff
    /\ proc = "none" /\ pidFile = "none" /\ readyFile = "none"
    /\ command = "idle" /\ starts = 0 /\ kills = 0

(***************************************************************************)
(* The process: runWatchForeground as a background child                   *)
(***************************************************************************)

\* Goroutines die with their process; mainReady is remembered for its starter.
Gone ==
    /\ proc' = "none"
    /\ phase' = "off" /\ cancelled' = FALSE
    /\ desired' = {}
    /\ handle' = [r \in Roots |-> NoHandle]
    /\ generation' = [r \in Roots |-> 0]
    /\ attempts' = [r \in Roots |-> 0] /\ scheduled' = [r \in Roots |-> 0]
    /\ sessions' = {} /\ readies' = {} /\ results' = {} /\ signals' = {}
    /\ UNCHANGED mainReady

Left(file) == IF file = "own" THEN "stale" ELSE file

\* WriteWorktreePIDFile, the first thing it does.
WritePID ==
    /\ proc = "spawned" /\ proc' = "setup"
    /\ pidFile' = "own"
    /\ UNCHANGED <<supervisorVars, readyFile, command, starts, kills>>

\* No project, configuration or embedder: the deferred removal of the PID file
\* is all there is to undo.
SetupFails ==
    /\ proc = "setup" /\ Gone
    /\ pidFile' = "none"
    /\ UNCHANGED <<readyFile, command, starts, kills>>

SetupDone(linked) ==
    /\ proc = "setup" /\ proc' = "running"
    /\ Serve(linked)
    /\ UNCHANGED <<pidFile, readyFile, command, starts, kills>>

ReadyOnAny(m) ==                                                \* mutant
    /\ ReceiveReady(m)
    /\ readyFile' \in {"own", readyFile}
    /\ UNCHANGED <<proc, pidFile, command, starts, kills>>

\* initialReadyObserver: of a background process only the main worktree counts.
\* The file may fail to be written, which is logged.
Ready(m) ==
    /\ ReceiveReady(m)
    /\ readyFile' \in IF m.root = Main /\ Current(m) THEN {"own", readyFile} ELSE {readyFile}
    /\ UNCHANGED <<proc, pidFile, command, starts, kills>>

Supervise == SupervisorStep /\ UNCHANGED processVars

Finish == (SeeDone \/ Return) /\ UNCHANGED processVars

\* The deferred calls, last first: RemoveWorktreeReadyFile, whoever wrote it ...
Leave ==
    /\ proc = "running" /\ phase = "returned" /\ proc' = "leaving"
    /\ readyFile' = "none"
    /\ UNCHANGED <<supervisorVars, pidFile, command, starts, kills>>

\* ... and RemoveWorktreePIDFile.
Exit ==
    /\ proc = "leaving" /\ Gone
    /\ pidFile' = "none" /\ readyFile' = Left(readyFile)
    /\ UNCHANGED <<command, starts, kills>>

Killed ==
    /\ proc # "none" /\ kills < MaxKills /\ kills' = kills + 1
    /\ Gone
    /\ pidFile' = Left(pidFile) /\ readyFile' = Left(readyFile)
    /\ UNCHANGED <<command, starts>>

(***************************************************************************)
(* The operator's commands                                                 *)
(***************************************************************************)

\* GetRunningWorktreePID removes a PID file whose process is gone.
Checked == IF pidFile = "stale" THEN "none" ELSE pidFile

\* startBackgroundWatch, refused while a process runs.
Start ==
    /\ command = "idle" /\ proc # "spawned" /\ Checked = "none" /\ starts < MaxStarts
    /\ command' = "starting" /\ starts' = starts + 1
    /\ proc' = "spawned" /\ pidFile' = "none"
    /\ mainReady' = FALSE
    /\ UNCHANGED <<phase, cancelled, desired, handle, generation, attempts, scheduled, sessions, readies,
                   results, signals, readyFile, kills>>

\* Its poll finds the ready file, whoever wrote it, and reports success.
Started ==
    /\ command = "starting" /\ readyFile # "none"
    /\ command' = "idle"
    /\ UNCHANGED <<supervisorVars, proc, pidFile, readyFile, starts, kills>>

\* The child has exited, or 30 seconds have passed.
NotStarted ==
    /\ command = "starting" /\ readyFile = "none"
    /\ command' = "idle"
    /\ UNCHANGED <<supervisorVars, proc, pidFile, readyFile, starts, kills>>

\* showWatchStatus, and stopWatchDaemon when nothing runs.
Status ==
    /\ command = "idle" /\ proc # "spawned" /\ pidFile' = Checked
    /\ UNCHANGED <<supervisorVars, proc, readyFile, command, starts, kills>>

\* stopWatchDaemon: SIGINT, which kills a process that does not yet, or no
\* longer, asks to be notified of it.
Stop ==
    /\ command = "idle" /\ pidFile = "own" /\ command' = "stopping"
    /\ \/ /\ proc = "running" /\ cancelled' = TRUE
          /\ UNCHANGED <<phase, desired, handle, generation, attempts, scheduled, sessions, readies,
                         results, signals, mainReady, proc, pidFile, readyFile>>
       \/ /\ proc \in {"setup", "leaving"} /\ Gone
          /\ pidFile' = "stale" /\ readyFile' = Left(readyFile)
    /\ UNCHANGED <<starts, kills>>

Stopped ==
    /\ command = "stopping" /\ proc = "none"
    /\ command' = "idle" /\ pidFile' = "none"
    /\ UNCHANGED <<supervisorVars, proc, readyFile, starts, kills>>

\* 30 seconds have passed: the operator is told, and the file stays.
NotStopped ==
    /\ command = "stopping" /\ proc # "none"
    /\ command' = "idle"
    /\ UNCHANGED <<supervisorVars, proc, pidFile, readyFile, starts, kills>>

Command == Start \/ Started \/ NotStarted \/ Status \/ Stop \/ Stopped \/ NotStopped

BackgroundNext ==
    \/ WritePID \/ SetupFails \/ Leave \/ Exit \/ Killed
    \/ \E linked \in SUBSET Linked : SetupDone(linked)
    \/ \E m \in readies : Ready(m)
    \/ Supervise
    \/ Command

\* Only the main goroutine is sure to move: the select sees the context done in
\* the end and the timer of the shutdown fires.  Sessions need not end, nor the
\* operator act.
BackgroundSpec ==
    /\ BackgroundInit /\ [][BackgroundNext]_backgroundVars
    /\ WF_backgroundVars(Finish)
    /\ WF_backgroundVars(Leave) /\ WF_backgroundVars(Exit)

(***************************************************************************)
(* Properties                                                              *)
(***************************************************************************)

BackgroundTypeOK ==
    /\ SupervisorTypeOK
    /\ proc \in {"none", "spawned", "setup", "running", "leaving"}
    /\ proc \in {"running", "leaving"} <=> phase # "off"
    /\ {pidFile, readyFile} \subseteq {"none", "own", "stale"}
    /\ proc = "none" => "own" \notin {pidFile, readyFile}
    /\ starts \in 0..MaxStarts /\ kills \in 0..MaxKills

\* A process past its first step is named by the PID file until it is gone, so
\* that --stop and --status find it and --background is refused.
Tracked ==
    proc \in {"setup", "running", "leaving"} => pidFile = "own"

\* A process writes the ready file only when its main worktree's first scan is
\* done, whatever its linked worktrees report and how often they are retried.
ReadyIsMain ==
    readyFile = "own" => mainReady

\* Only a kill leaves a ready file behind (the deferred RemoveWorktreeReadyFile).
OnlyKillsLeaveReady ==
    readyFile = "stale" => kills > 0

\* The ready file never says more than happened.
ReadyFileTrue == ReadyIsMain /\ OnlyKillsLeaveReady

\* What the commands read of the process is true, in both of its files.
FilesTellTheTruth == Tracked /\ ReadyFileTrue

\* --background reports success only when the process it spawned is ready.
StartedMeansReady == [][Started => mainReady]_backgroundVars

\* A process told to stop exits, though its sessions may never end.
StopIsServed ==
    cancelled ~> proc = "none"
=============================================================================
