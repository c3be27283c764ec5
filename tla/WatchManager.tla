----------------------------- MODULE WatchManager -----------------------------
(***************************************************************************)
(* watch.Manager and its fsnotify backend for one worktree of the daemon.  *)
(* Registrations race to own the watch; a backend's goroutine turns kernel *)
(* events into hints and errors, both dropped when their channel is full;  *)
(* the owner's loop debounces them and runs reconcile passes inline.       *)
(***************************************************************************)
EXTENDS Naturals, Sequences, FiniteSets

CONSTANTS
    Calls,         \* registrations of the worktree, each one call of Watch
    Nobody,
    ErrCap         \* places of fsBackend.errs, 4 in the code

ASSUME WatchAssumption == Nobody \notin Calls /\ ErrCap \in Nat \ {0}

VARIABLES
    root,          \* the worktree's directory is there
    unseen,        \* the tree has a change that no pass has read
    early,         \* history: that change came while nobody watched
    closed,        \* Manager.closed
    owner,         \* Manager.repos: the call whose loop watches
    call,          \* where each call is
    backend,       \* its backend: "none", "open", "closed"
    listening,     \* backends whose run() goroutine reads the kernel's events
    kernel,        \* what the kernel holds for each: see Held
    hints, errs,   \* its channels
    loop,          \* where its loop is
    dirty, quiet, maxLt, poll,     \* locals of loop
    dropped        \* history: backends that lost an error or the root's event

tree == <<root, unseen, early>>
calls == <<closed, owner, call>>
backends == <<backend, listening, kernel, hints, errs, dropped>>
timers == <<dirty, quiet, maxLt, poll>>
vars == <<tree, calls, backends, loop, timers>>

Timer == {"off", "armed", "due"}
Error == {"overflow", "exhausted", "gone", "other"}

WatchInit ==
    /\ root = TRUE /\ unseen = FALSE /\ early = FALSE
    /\ closed = FALSE /\ owner = Nobody
    /\ call = [c \in Calls |-> "idle"]
    /\ backend = [c \in Calls |-> "none"]
    /\ listening = {} /\ dropped = {}
    /\ kernel = [c \in Calls |-> "nothing"]
    /\ hints = [c \in Calls |-> FALSE] /\ errs = [c \in Calls |-> <<>>]
    /\ loop = [c \in Calls |-> "none"]
    /\ dirty = [c \in Calls |-> FALSE]
    /\ quiet = [c \in Calls |-> "off"] /\ maxLt = [c \in Calls |-> "off"]
    /\ poll = [c \in Calls |-> "off"]

Set(f, c, v) == [f EXCEPT ![c] = v]

(***************************************************************************)
(* The tree and the kernel                                                 *)
(***************************************************************************)

\* The kernel's queue holds what comes, or overflows and loses it.
Held == {"nothing", "event", "gone", "overflow"}
Queues(e, k) ==
    \A c \in Calls : IF c \in listening THEN k[c] = "overflow" \/ (k[c] = e /\ kernel[c] # "overflow")
                                        ELSE k[c] = kernel[c]

\* A change where a backend has its watches.  Below what it skips or ignores, and in a
\* directory whose watch failed for another reason than exhaustion, nobody is told
\* (addTree); what happens there is the safety net's and no part of this tree.
Change ==
    /\ root /\ unseen' = TRUE
    /\ early' = ((early /\ unseen) \/ owner = Nobody)
    /\ kernel' \in {k \in [Calls -> Held] : Queues("event", k)}
    /\ UNCHANGED <<root, closed, owner, call, backend, listening, hints, errs, dropped, loop, timers>>

RemoveRoot ==
    /\ root /\ root' = FALSE
    /\ kernel' \in {k \in [Calls -> Held] : Queues("gone", k)}
    /\ dropped' = dropped \cup {c \in listening : kernel'[c] = "overflow"}
    /\ UNCHANGED <<unseen, early, calls, backend, listening, hints, errs, loop, timers>>

(***************************************************************************)
(* fsBackend.run                                                           *)
(***************************************************************************)

\* sendErr; the send that finds no place is given up.
SendErr(c, e) ==
    IF Len(errs[c]) < ErrCap THEN errs' = [errs EXCEPT ![c] = Append(@, e)] /\ UNCHANGED dropped
                             ELSE dropped' = dropped \cup {c} /\ UNCHANGED errs

StopsListening(c) == listening' = listening \ {c} /\ kernel' = Set(kernel, c, "nothing")

\* An event becomes a hint; a new directory may exhaust the watches instead.
Translate(c) ==
    /\ c \in listening /\ kernel[c] = "event"
    /\ \/ hints' = Set(hints, c, TRUE) /\ kernel' = Set(kernel, c, "nothing")
          /\ UNCHANGED <<errs, dropped, listening>>
       \/ SendErr(c, "exhausted") /\ StopsListening(c) /\ UNCHANGED hints
    /\ UNCHANGED <<tree, calls, backend, loop, timers>>

TranslateOverflow(c) ==
    /\ c \in listening /\ kernel[c] = "overflow"
    /\ SendErr(c, "overflow") /\ kernel' = Set(kernel, c, "nothing")
    /\ UNCHANGED <<tree, calls, backend, listening, hints, loop, timers>>

GoneIsAnEvent(c) ==                                             \* mutant
    /\ c \in listening /\ kernel[c] = "gone"
    /\ hints' = Set(hints, c, TRUE) /\ kernel' = Set(kernel, c, "nothing")
    /\ UNCHANGED <<tree, calls, backend, listening, errs, dropped, loop, timers>>

\* The event of the root itself.
NoticeGone(c) ==
    /\ c \in listening /\ kernel[c] = "gone"
    /\ SendErr(c, "gone") /\ StopsListening(c)
    /\ UNCHANGED <<tree, calls, backend, hints, loop, timers>>

OtherError(c) ==
    /\ c \in listening
    /\ \/ root /\ SendErr(c, "other") /\ UNCHANGED <<listening, kernel>>
       \/ ~root /\ SendErr(c, "gone") /\ StopsListening(c)
    /\ UNCHANGED <<tree, calls, backend, hints, loop, timers>>

\* Nobody reads the channels of a backend that is closed.
CloseBackend(c) ==
    /\ backend' = IF backend[c] = "open" THEN Set(backend, c, "closed") ELSE backend
    /\ hints' = Set(hints, c, FALSE) /\ errs' = Set(errs, c, <<>>)
    /\ StopsListening(c)

(***************************************************************************)
(* Watch and Close                                                         *)
(***************************************************************************)

CheckFirst(c) ==
    /\ call[c] = "idle"
    /\ call' = Set(call, c, IF closed \/ owner # Nobody THEN "returned" ELSE "checked")
    /\ UNCHANGED <<tree, closed, owner, backends, loop, timers>>

\* The factory and Start, without the lock; too few watches mean polling.
StartBackend(c) ==
    /\ call[c] = "checked"
    /\ \/ /\ root
          /\ backend' = Set(backend, c, "open") /\ listening' = listening \cup {c}
          /\ call' = Set(call, c, "started")
       \/ /\ root
          /\ backend' = Set(backend, c, "closed") /\ call' = Set(call, c, "exhausted")
          /\ UNCHANGED listening
       \/ /\ backend' = Set(backend, c, "closed") /\ call' = Set(call, c, "returned")
          /\ UNCHANGED listening
    /\ UNCHANGED <<tree, closed, owner, kernel, hints, errs, dropped, loop, timers>>

Register(c) ==
    /\ call[c] \in {"started", "exhausted"} /\ ~closed /\ owner = Nobody
    /\ owner' = c
    /\ loop' = Set(loop, c, "select")
    /\ poll' = IF call[c] = "exhausted" THEN Set(poll, c, "armed") ELSE poll
    /\ call' = Set(call, c, "returned")
    /\ UNCHANGED <<tree, closed, backends, dirty, quiet, maxLt>>

LoserKeepsBackend(c) ==                                         \* mutant
    /\ call[c] \in {"started", "exhausted"} /\ (closed \/ owner # Nobody)
    /\ call' = Set(call, c, "returned")
    /\ IF closed THEN CloseBackend(c) ELSE UNCHANGED <<backend, listening, kernel, hints, errs>>
    /\ UNCHANGED <<tree, closed, owner, dropped, loop, timers>>

\* Closed meanwhile, or another registration was first.
RegisterLost(c) ==
    /\ call[c] \in {"started", "exhausted"} /\ (closed \/ owner # Nobody)
    /\ call' = Set(call, c, "returned")
    /\ CloseBackend(c)
    /\ UNCHANGED <<tree, closed, owner, dropped, loop, timers>>

CloseManager ==
    /\ ~closed /\ closed' = TRUE
    /\ UNCHANGED <<tree, owner, call, backends, loop, timers>>

(***************************************************************************)
(* The loop                                                                *)
(***************************************************************************)

Selecting(c) == loop[c] = "select"

ArmOnlyQuiet(c) ==                                              \* mutant
    /\ dirty' = Set(dirty, c, TRUE) /\ quiet' = Set(quiet, c, "armed")
    /\ UNCHANGED <<maxLt, poll>>

\* A hint puts the quiet window off, the maximal latency stays.
Arm(c) ==
    /\ dirty' = Set(dirty, c, TRUE) /\ quiet' = Set(quiet, c, "armed")
    /\ maxLt' = IF maxLt[c] = "off" THEN Set(maxLt, c, "armed") ELSE maxLt
    /\ UNCHANGED poll

ReceiveHint(c) ==
    /\ Selecting(c) /\ backend[c] = "open" /\ hints[c]
    /\ hints' = Set(hints, c, FALSE) /\ Arm(c)
    /\ UNCHANGED <<tree, calls, backend, listening, kernel, errs, dropped, loop>>

\* fire: what was dirty is left to the pass that begins.
Fire(c) ==
    /\ dirty' = Set(dirty, c, FALSE)
    /\ quiet' = Set(quiet, c, "off") /\ maxLt' = Set(maxLt, c, "off")
    /\ loop' = Set(loop, c, "pass")

DebounceFires(c) ==
    /\ Selecting(c) /\ (quiet[c] = "due" \/ maxLt[c] = "due") /\ dirty[c]
    /\ Fire(c)
    /\ UNCHANGED <<tree, calls, backends, poll>>

\* The safety net makes dirty what fire then passes on.
SafetyFires(c) ==
    /\ Selecting(c) /\ Fire(c)
    /\ UNCHANGED <<tree, calls, backends, poll>>

PollFires(c) ==
    /\ Selecting(c) /\ poll[c] = "due" /\ Fire(c)
    /\ poll' = Set(poll, c, "armed")
    /\ UNCHANGED <<tree, calls, backends>>

PassReads(c) ==
    /\ loop[c] = "pass" /\ root
    /\ loop' = Set(loop, c, "read")
    /\ unseen' = FALSE /\ early' = FALSE
    /\ UNCHANGED <<root, calls, backends, timers>>

PassEnds(c) ==
    /\ loop[c] = "read"
    /\ loop' = Set(loop, c, "select")
    /\ UNCHANGED <<tree, calls, backends, timers>>

FailureForgotten(c) ==                                          \* mutant
    /\ loop[c] \in {"pass", "read"}
    /\ loop' = Set(loop, c, "select") /\ unseen' = TRUE
    /\ UNCHANGED <<root, early, calls, backends, timers>>

\* What it has read is unseen again.  When the manager closes there is no retry.
PassFails(c) ==
    /\ loop[c] \in {"pass", "read"}
    /\ loop' = Set(loop, c, "select") /\ unseen' = TRUE
    /\ IF closed THEN UNCHANGED <<dirty, quiet>>
                 ELSE dirty' = Set(dirty, c, TRUE) /\ quiet' = Set(quiet, c, "armed")
    /\ UNCHANGED <<root, early, calls, backends, maxLt, poll>>

\* The loop returns, its locals with it, and the deferred Close runs.
End(c) ==
    /\ loop' = Set(loop, c, "ended") /\ CloseBackend(c)
    /\ dirty' = Set(dirty, c, FALSE)
    /\ quiet' = Set(quiet, c, "off") /\ maxLt' = Set(maxLt, c, "off") /\ poll' = Set(poll, c, "off")

ReceiveError(c) ==
    LET e == Head(errs[c])
        Received == errs' = [errs EXCEPT ![c] = Tail(@)]
    IN  /\ Selecting(c) /\ backend[c] = "open" /\ errs[c] # <<>>
        /\ \/ /\ e = "overflow" /\ Received /\ Arm(c)
              /\ UNCHANGED <<owner, loop, backend, listening, kernel, hints>>
           \/ /\ e = "exhausted" /\ CloseBackend(c)
              /\ poll' = Set(poll, c, "armed")
              /\ UNCHANGED <<owner, loop, dirty, quiet, maxLt>>
           \/ /\ e = "gone" /\ owner' = Nobody /\ End(c)
           \/ /\ e = "other" /\ Received
              /\ UNCHANGED <<owner, loop, backend, listening, kernel, hints, timers>>
        /\ UNCHANGED <<tree, closed, call, dropped>>

LoopEnds(c) ==
    /\ Selecting(c) /\ closed /\ End(c)
    /\ UNCHANGED <<tree, calls, dropped>>

\* A timer that has fired holds its tick until the loop selects it.
Elapse(c, timer) ==
    /\ loop[c] \notin {"none", "ended"}
    /\ \/ timer = "quiet" /\ quiet[c] = "armed" /\ quiet' = Set(quiet, c, "due")
          /\ UNCHANGED <<maxLt, poll>>
       \/ timer = "maxLt" /\ maxLt[c] = "armed" /\ maxLt' = Set(maxLt, c, "due")
          /\ UNCHANGED <<quiet, poll>>
       \/ timer = "poll" /\ poll[c] = "armed" /\ poll' = Set(poll, c, "due")
          /\ UNCHANGED <<quiet, maxLt>>
    /\ UNCHANGED <<tree, calls, backends, loop, dirty>>

BackendStep(c) == Translate(c) \/ TranslateOverflow(c) \/ NoticeGone(c)
CallStep(c) == CheckFirst(c) \/ StartBackend(c) \/ Register(c) \/ RegisterLost(c)
LoopStep(c) ==
    \/ ReceiveHint(c) \/ ReceiveError(c) \/ DebounceFires(c) \/ PollFires(c)
    \/ PassReads(c) \/ PassEnds(c) \/ LoopEnds(c)

\* What keeps coming from outside, and what may come once.
Disturbance == Change \/ \E c \in Calls : OtherError(c) \/ SafetyFires(c) \/ PassFails(c)
Work ==
    \/ RemoveRoot \/ CloseManager
    \/ \E c \in Calls :
          \/ BackendStep(c) \/ CallStep(c) \/ LoopStep(c)
          \/ \E timer \in {"quiet", "maxLt", "poll"} : Elapse(c, timer)

WatchNext == Disturbance \/ Work

\* A quiet window elapses when nothing that puts it off is ready.
Calm(c) ==
    backend[c] = "open" => ~hints[c] /\ \A i \in DOMAIN errs[c] : errs[c][i] # "overflow"

\* Goroutines run and a select is fair to what is ready.  Nothing is assumed
\* of the safety net, which an hour apart would hide what else goes wrong.
WatchFairness ==
    \A c \in Calls :
        /\ WF_vars(BackendStep(c))
        /\ SF_vars(ReceiveHint(c)) /\ SF_vars(ReceiveError(c))
        /\ SF_vars(DebounceFires(c)) /\ SF_vars(LoopEnds(c))
        /\ WF_vars(PassEnds(c) \/ PassFails(c))
        /\ WF_vars(Elapse(c, "maxLt")) /\ WF_vars(Calm(c) /\ Elapse(c, "quiet"))

WatchSpec == WatchInit /\ [][WatchNext]_vars /\ WatchFairness

(***************************************************************************)
(* Properties                                                              *)
(***************************************************************************)

WatchTypeOK ==
    /\ owner \in Calls \cup {Nobody} /\ listening \subseteq Calls
    /\ \A c \in Calls :
          /\ Len(errs[c]) <= ErrCap
          /\ c \in listening => backend[c] = "open"
          /\ kernel[c] \in Held /\ {quiet[c], maxLt[c], poll[c]} \subseteq Timer
          /\ (quiet[c] # "off" \/ maxLt[c] # "off") => dirty[c]

Alive(c) == loop[c] \in {"select", "pass", "read"}

\* Passes of the watch never run beside each other: however registrations
\* race, one loop at most is alive, and it is the registered one (Watch).
OneLoop == \A c \in Calls : Alive(c) => owner = c

\* A backend that watches has a loop, or a call that will give it one or close
\* it: descriptors do not leak when a registration loses (Watch, Close).
NoBackendLeaks ==
    \A c \in Calls : backend[c] = "open" => call[c] = "started" \/ Alive(c)

\* However registrations race, the loser leaves nothing behind it, and channels and
\* timers stay within their bounds (Watch).
RacesLeaveOneLoop == WatchTypeOK /\ OneLoop /\ NoBackendLeaks

PollMode(c) == poll[c] # "off"

\* A change no pass has read is on its way to one, through all of the kernel's
\* queue, the coalescing channel, a pass under way, a failed pass, an overflow
\* or exhausted watches.  An error that found no place is lost, and with it this
\* promise (loop, fsBackend.run).
ChangeSignalled ==
    unseen /\ root /\ ~early /\ ~closed /\ owner # Nobody =>
        \/ kernel[owner] # "nothing" \/ hints[owner] \/ dirty[owner] \/ loop[owner] = "pass"
        \/ PollMode(owner) \/ owner \in dropped
        \/ \E i \in DOMAIN errs[owner] : errs[owner][i] # "other"

\* What is dirty is passed on, also when hints or overflows never stop coming.
DirtyIsServed ==
    \A c \in Calls : dirty[c] ~> (~dirty[c] \/ ~Alive(c))

\* A watch whose root has gone ends, unless the root's event was lost, its error
\* found no place or it had come down to polling (NoticeGone, ReceiveError).
GoneEnds ==
    \A c \in Calls : (~root /\ owner = c /\ c \in listening) ~>
        (owner # c \/ c \in dropped \/ backend[c] # "open")
=============================================================================
