----------------------------- MODULE DaemonControl -----------------------------
(***************************************************************************)
(* The host's single grepaid: clients that dial its socket and start it    *)
(* when nobody answers, the lock that lets one process at a time open the  *)
(* catalogs and bind the socket, the shutdown, and `grepai daemon stop`,   *)
(* which probes the same lock.  One socket path; a process's number is     *)
(* never used again.                                                       *)
(***************************************************************************)
EXTENDS Integers

CONSTANTS
    Client,          \* commands and MCP servers
    Daemon,          \* the processes that may be spawned, a bound on their number
    NoOne,
    MaxCrashes       \* bound on the daemons killed

ASSUME DaemonAssumption ==
    /\ NoOne \notin Client \union Daemon /\ Client \intersect Daemon = {}
    /\ MaxCrashes \in Nat

VARIABLES
    stage,           \* how far a process is on its way
    lock,            \* the holder of the flock: a process, a stop command, or nobody
    stamp,           \* whose number the lock file holds
    socket,          \* the process that bound the socket file
    listening,       \* processes with an open listener
    catalogs,        \* processes with open catalogs
    scheduling,      \* processes whose run loop runs
    sigterm,         \* processes with a SIGTERM to see
    accepts,         \* per process: connections whose far end is open
    serves,          \* per process: connections with a handler
    at,              \* what a client is doing
    link,            \* the process a client is connected to
    disturbed,       \* history: a stop was asked for, or a process failed
    crashes          \* what has happened, for the bound

procVars == <<stage, lock, stamp, socket, listening, catalogs, scheduling, sigterm>>
serverVars == <<accepts, serves>>
clientVars == <<at, link>>
historyVars == <<disturbed, crashes>>
daemonVars == <<procVars, serverVars, clientVars, historyVars>>

DaemonInit ==
    /\ stage = [p \in Daemon |-> "unborn"]
    /\ lock = NoOne /\ stamp = NoOne /\ socket = NoOne
    /\ listening = {} /\ catalogs = {} /\ scheduling = {} /\ sigterm = {}
    /\ accepts = [p \in Daemon |-> {}] /\ serves = [p \in Daemon |-> {}]
    /\ at = [c \in Client |-> "idle"] /\ link = [c \in Client |-> NoOne]
    /\ disturbed = FALSE /\ crashes = 0

(***************************************************************************)
(* The daemon process: main and run                                        *)
(***************************************************************************)

Moves(p, from, to) == stage[p] = from /\ stage' = [stage EXCEPT ![p] = to]

Take(p) ==
    /\ Moves(p, "new", "locked")
    /\ lock = NoOne /\ lock' = p
    /\ UNCHANGED <<stamp, socket, listening, catalogs, scheduling, sigterm, serverVars,
                   clientVars, historyVars>>

\* ErrAlreadyRunning: a clean exit.
Lose(p) ==
    /\ Moves(p, "new", "gone")
    /\ lock # NoOne
    /\ UNCHANGED <<lock, stamp, socket, listening, catalogs, scheduling, sigterm, serverVars,
                   clientVars, historyVars>>

Stamp(p) ==
    /\ Moves(p, "locked", "stamped")
    /\ stamp' = p
    /\ UNCHANGED <<lock, socket, listening, catalogs, scheduling, sigterm, serverVars,
                   clientVars, historyVars>>

\* NotifyContext: from here on a SIGTERM no longer ends the process at once.
Catch(p) ==
    /\ Moves(p, "stamped", "setup")
    /\ UNCHANGED <<lock, stamp, socket, listening, catalogs, scheduling, sigterm, serverVars,
                   clientVars, historyVars>>

\* Rehydration: every registered repository's catalog.
OpenCatalogs(p) ==
    /\ Moves(p, "setup", "opened")
    /\ catalogs' = catalogs \union {p}
    /\ UNCHANGED <<lock, stamp, socket, listening, scheduling, sigterm, serverVars,
                   clientVars, historyVars>>

\* Holding the lock makes it safe to remove what a dead process left.
Unlink(p) ==
    /\ Moves(p, "opened", "bare")
    /\ socket' = NoOne
    /\ UNCHANGED <<lock, stamp, listening, catalogs, scheduling, sigterm, serverVars,
                   clientVars, historyVars>>

Listen(p) ==
    /\ Moves(p, "bare", "serving")
    /\ socket = NoOne /\ socket' = p
    /\ listening' = listening \union {p}
    /\ scheduling' = scheduling \union {p}
    /\ UNCHANGED <<lock, stamp, catalogs, sigterm, serverVars, clientVars, historyVars>>

\* An error before the daemon serves: the deferred calls close what is open.
StartFails(p) ==
    /\ \/ Moves(p, "stamped", "closing") \/ Moves(p, "setup", "closing")
       \/ Moves(p, "opened", "closing") \/ Moves(p, "bare", "closing")
    /\ disturbed' = TRUE
    /\ UNCHANGED <<lock, stamp, socket, listening, catalogs, scheduling, sigterm, serverVars,
                   clientVars, crashes>>

Cancel(p) ==
    /\ Moves(p, "serving", "draining")
    /\ p \in sigterm
    /\ UNCHANGED <<lock, stamp, socket, listening, catalogs, scheduling, sigterm, serverVars,
                   clientVars, historyVars>>

\* Accept fails: Serve winds down, and run with it.
ServeFails(p) ==
    /\ Moves(p, "serving", "draining")
    /\ disturbed' = TRUE
    /\ UNCHANGED <<lock, stamp, socket, listening, catalogs, scheduling, sigterm, serverVars,
                   clientVars, crashes>>

\* Serve's goroutine closes the listener, which removes the socket file, and
\* sweeps the connections.
CloseListener(p) ==
    /\ stage[p] = "draining" /\ p \in listening
    /\ listening' = listening \ {p}
    /\ socket' = NoOne
    /\ accepts' = [accepts EXCEPT ![p] = {}]
    /\ UNCHANGED <<stage, lock, stamp, catalogs, scheduling, sigterm, serves, clientVars, historyVars>>

SchedulerReturns(p) ==
    /\ stage[p] = "draining" /\ p \in scheduling
    /\ scheduling' = scheduling \ {p}
    /\ UNCHANGED <<stage, lock, stamp, socket, listening, catalogs, sigterm, serverVars,
                   clientVars, historyVars>>

\* Both loops have returned, or 30 s are over, by when the listener is closed.
Drained(p) ==
    /\ Moves(p, "draining", "drained")
    /\ p \notin listening
    /\ UNCHANGED <<lock, stamp, socket, listening, catalogs, scheduling, sigterm, serverVars,
                   clientVars, historyVars>>

RemoveSocket(p) ==
    /\ Moves(p, "drained", "closing")
    /\ socket' = NoOne
    /\ UNCHANGED <<lock, stamp, listening, catalogs, scheduling, sigterm, serverVars,
                   clientVars, historyVars>>

CloseCatalogs(p) ==
    /\ Moves(p, "closing", "closed")
    /\ catalogs' = catalogs \ {p}
    /\ UNCHANGED <<lock, stamp, socket, listening, scheduling, sigterm, serverVars,
                   clientVars, historyVars>>

ReleaseEarly(p) ==                                                     \* mutant
    /\ \/ Moves(p, "closing", "left")
       \/ Moves(p, "closed", "left")
    /\ lock' = NoOne
    /\ UNCHANGED <<stamp, socket, listening, catalogs, scheduling, sigterm, serverVars,
                   clientVars, historyVars>>

Release(p) ==
    /\ Moves(p, "closed", "left")
    /\ lock' = NoOne
    /\ UNCHANGED <<stamp, socket, listening, catalogs, scheduling, sigterm, serverVars,
                   clientVars, historyVars>>

\* What the end of a process frees; the socket file stays where it is.
Ends(p) ==
    /\ stage' = [stage EXCEPT ![p] = "gone"]
    /\ lock' = IF lock = p THEN NoOne ELSE lock
    /\ listening' = listening \ {p} /\ catalogs' = catalogs \ {p}
    /\ scheduling' = scheduling \ {p} /\ sigterm' = sigterm \ {p}
    /\ accepts' = [accepts EXCEPT ![p] = {}] /\ serves' = [serves EXCEPT ![p] = {}]
    /\ UNCHANGED <<stamp, socket>>

Exit(p) ==
    /\ stage[p] = "left"
    /\ Ends(p)
    /\ UNCHANGED <<clientVars, historyVars>>

Alive(p) == stage[p] \notin {"unborn", "gone"}

Crash(p) ==
    /\ Alive(p) /\ crashes < MaxCrashes /\ crashes' = crashes + 1
    /\ Ends(p)
    /\ disturbed' = TRUE
    /\ UNCHANGED <<clientVars>>

(***************************************************************************)
(* A connection's handler                                                  *)
(***************************************************************************)

\* Accept and the goroutine; a connection swept before that is gone.
Accept(p, c) ==
    /\ p \in listening /\ stage[p] = "serving"
    /\ c \in accepts[p] \ serves[p]
    /\ serves' = [serves EXCEPT ![p] = @ \union {c}]
    /\ UNCHANGED <<procVars, accepts, clientVars, historyVars>>

\* Reading or writing on a closed connection ends the goroutine.
HandlerEnds(p, c) ==
    /\ c \in serves[p] \ accepts[p]
    /\ serves' = [serves EXCEPT ![p] = @ \ {c}]
    /\ UNCHANGED <<procVars, accepts, clientVars, historyVars>>

(***************************************************************************)
(* A client: Connect, EnsureDaemon, Call                                   *)
(***************************************************************************)

\* A connect succeeds when the file's listener is open, accepted or not.
Reachable == socket \in listening

Connects(c) ==
    /\ Reachable
    /\ at' = [at EXCEPT ![c] = "connected"]
    /\ link' = [link EXCEPT ![c] = socket]
    /\ accepts' = [accepts EXCEPT ![socket] = @ \union {c}]
    /\ UNCHANGED <<procVars, serves, historyVars>>

\* One connection of a client at a time: its last handler has ended.
Unserved(c) == \A p \in Daemon : c \notin serves[p]

Dial(c) == at[c] \in {"idle", "polling"} /\ Unserved(c) /\ Connects(c)

\* ErrDaemonDown: no file, or a file nobody listens on.
Spawn(c, p) ==
    /\ at[c] = "idle" /\ ~Reachable
    /\ Moves(p, "unborn", "new")
    /\ at' = [at EXCEPT ![c] = "polling"]
    /\ UNCHANGED <<lock, stamp, socket, listening, catalogs, scheduling, sigterm, serverVars,
                   link, historyVars>>

\* The deadline, or the caller's context.
GiveUp(c) ==
    /\ at[c] = "polling"
    /\ at' = [at EXCEPT ![c] = "idle"]
    /\ UNCHANGED <<procVars, serverVars, link, historyVars>>

Hangup(c) ==
    /\ at[c] = "connected"
    /\ at' = [at EXCEPT ![c] = "idle"] /\ link' = [link EXCEPT ![c] = NoOne]
    /\ accepts' = [accepts EXCEPT ![link[c]] = @ \ {c}]
    /\ UNCHANGED <<procVars, serves, historyVars>>

(***************************************************************************)
(* grepai daemon stop                                                      *)
(***************************************************************************)

\* The lock is free: nobody runs.  The command holds it until it has stamped it.
Probe(c) ==
    /\ at[c] \in {"idle", "waiting"} /\ lock = NoOne
    /\ lock' = c
    /\ at' = [at EXCEPT ![c] = "probing"]
    /\ disturbed' = TRUE
    /\ UNCHANGED <<stage, stamp, socket, listening, catalogs, scheduling, sigterm, serverVars,
                   link, crashes>>

Stopped(c) ==
    /\ at[c] = "probing"
    /\ lock' = NoOne /\ stamp' = c
    /\ at' = [at EXCEPT ![c] = "idle"]
    /\ UNCHANGED <<stage, socket, listening, catalogs, scheduling, sigterm, serverVars,
                   link, historyVars>>

Held(c) ==
    /\ at[c] = "idle" /\ lock # NoOne
    /\ at' = [at EXCEPT ![c] = "stopping"]
    /\ disturbed' = TRUE
    /\ UNCHANGED <<procVars, serverVars, link, crashes>>

\* ReadPID: what the file says now.  A process that does not catch signals yet
\* ends at once.
Signal(c) ==
    /\ at[c] = "stopping" /\ stamp \in Daemon /\ Alive(stamp)
    /\ at' = [at EXCEPT ![c] = "waiting"]
    /\ IF stage[stamp] = "stamped" THEN Ends(stamp)
       ELSE /\ sigterm' = sigterm \union {stamp}
            /\ UNCHANGED <<stage, lock, stamp, socket, listening, catalogs, scheduling, serverVars>>
    /\ UNCHANGED <<link, historyVars>>

\* No number, a dead process or one that is no grepaid; a file that is being
\* stamped reads as empty; the wait is over without the lock.
StopFails(c) ==
    /\ \/ at[c] = "stopping" /\ ~(stamp \in Daemon /\ Alive(stamp))
       \/ at[c] = "stopping" /\ \E p \in Daemon : stage[p] = "locked"
       \/ at[c] = "waiting" /\ lock # NoOne
    /\ at' = [at EXCEPT ![c] = "idle"]
    /\ UNCHANGED <<procVars, serverVars, link, historyVars>>

(***************************************************************************)

ProcessStep(p) ==
    \/ Take(p) \/ Lose(p) \/ Stamp(p) \/ Catch(p) \/ OpenCatalogs(p) \/ Unlink(p) \/ Listen(p)
    \/ StartFails(p) \/ Cancel(p) \/ ServeFails(p) \/ CloseListener(p) \/ SchedulerReturns(p)
    \/ Drained(p) \/ RemoveSocket(p) \/ CloseCatalogs(p) \/ Release(p) \/ Exit(p) \/ Crash(p)

HandlerStep(p, c) ==
    Accept(p, c) \/ HandlerEnds(p, c)

ClientStep(c) ==
    \/ Dial(c) \/ GiveUp(c) \/ Hangup(c)
    \/ Probe(c) \/ Stopped(c) \/ Held(c) \/ Signal(c) \/ StopFails(c)
    \/ \E p \in Daemon : Spawn(c, p)

DaemonNext ==
    \/ \E p \in Daemon : ProcessStep(p)
    \/ \E p \in Daemon, c \in Client : HandlerStep(p, c)
    \/ \E c \in Client : ClientStep(c)

DaemonSpec == DaemonInit /\ [][DaemonNext]_daemonVars

(***************************************************************************)
(* Properties                                                              *)
(***************************************************************************)

Rising == {"new", "locked", "stamped", "setup", "opened", "bare", "serving"}

\* The lock does what its comments promise of it (main.go:51-52, daemon.go:142):
\* catalogs are open and the socket is bound in its holder only, a daemon that
\* serves is the one the socket file leads to, whatever other processes have
\* tidied up, and while a stop command holds the lock nobody serves.
OneDaemon ==
    /\ \A p \in catalogs \union listening : lock = p
    /\ \A p \in Daemon : stage[p] = "serving" => socket = p

\* A client that has spawned a daemon and waits does not wait in vain: as long
\* as nobody asked for a stop and no process failed, a daemon is on its way to
\* the socket or serves there, whoever won the race (ensure.go:20-23).
WaitersHaveHope ==
    ~disturbed => \A c \in Client :
        at[c] = "polling" => \E p \in Daemon :
            stage[p] \in Rising /\ (stage[p] = "serving" => socket = p)

\* Both: one daemon serves, and who waits for one waits with reason.
OneDaemonServes == OneDaemon /\ WaitersHaveHope
============================================================================
