------------------------------ MODULE Supervisor ------------------------------
(***************************************************************************)
(* runDynamicWatchSupervisor: one goroutine that keeps a watch session per *)
(* desired root, the main worktree and those linked to it.  Sessions       *)
(* report by channels that they are ready and that they have ended; a      *)
(* session that fails is retried after a delay; one whose worktree is      *)
(* removed is cancelled, and started anew if it is wanted again by then.   *)
(*                                                                         *)
(* A message is in its channel from when it may be sent: the senders'      *)
(* order is arbitrary.  So is the length of a retry's delay.               *)
(***************************************************************************)
EXTENDS Naturals, FiniteSets

CONSTANTS
    Main, Linked,
    MaxSessions      \* bound on the sessions of one root: the last is left alone

ASSUME SupervisorAssumption == Main \notin Linked /\ MaxSessions \in Nat \ {0}

VARIABLES
    phase,           \* "off", "serve", "drain" (shutdownSessions), "returned"
    cancelled,       \* its context
    desired,
    handle,          \* managed: the generation, ready, markedClose of a root's session
    generation,      \* how many sessions of each root have started
    attempts, scheduled,        \* retryAttempts, scheduledRetry; 0 is none
    sessions,        \* the goroutines
    readies, results, signals,  \* what is sent and not received
    mainReady        \* history: the main session got ready

supervisorVars == <<phase, cancelled, desired, handle, generation, attempts, scheduled, sessions,
                    readies, results, signals, mainReady>>

Roots == {Main} \cup Linked
Handle == [gen : Nat, ready : BOOLEAN, closing : BOOLEAN]
Session == [root : Roots, gen : Nat, ready : BOOLEAN, cancelled : BOOLEAN]
NoHandle == [gen |-> 0, ready |-> FALSE, closing |-> FALSE]
Managed(r) == handle[r] # NoHandle
Current(m) == Managed(m.root) /\ handle[m.root].gen = m.gen
AtBound(r) == generation[r] >= MaxSessions

NewHandle(r) == [gen |-> generation[r] + 1, ready |-> FALSE, closing |-> FALSE]
NewSession(r) == [root |-> r, gen |-> generation[r] + 1, ready |-> FALSE, cancelled |-> FALSE]
Cancelled(ss) == {[s EXCEPT !.cancelled = TRUE] : s \in ss}
Closing(r) == IF Managed(r) THEN [handle[r] EXCEPT !.closing = TRUE] ELSE NoHandle
Counted(new) == generation' = [r \in Roots |-> IF r \in new THEN generation[r] + 1 ELSE generation[r]]

SupervisorOff ==
    /\ phase = "off" /\ cancelled = FALSE
    /\ desired = {}
    /\ handle = [r \in Roots |-> NoHandle]
    /\ generation = [r \in Roots |-> 0]
    /\ attempts = [r \in Roots |-> 0] /\ scheduled = [r \in Roots |-> 0]
    /\ sessions = {} /\ readies = {} /\ results = {} /\ signals = {}
    /\ mainReady = FALSE

\* startSession of every root that git lists at the start.
Serve(linked) ==
    LET new == {Main} \cup linked
    IN  /\ phase = "off" /\ phase' = "serve"
        /\ desired' = new
        /\ handle' = [r \in Roots |-> IF r \in new THEN NewHandle(r) ELSE NoHandle]
        /\ sessions' = {NewSession(r) : r \in new}
        /\ Counted(new)
        /\ UNCHANGED <<cancelled, attempts, scheduled, readies, results, signals, mainReady>>

\* applyDesired: git may list more or fewer linked worktrees, or fail and list
\* none.  A root wanted again while its session closes is not started here.
Reconcile(linked) ==
    LET next == {Main} \cup linked
        removed == desired \ next
        new == {r \in next \ desired : ~Managed(r)}
    IN  /\ phase = "serve" /\ \A r \in removed : ~AtBound(r)
        /\ desired' = next
        /\ scheduled' = [r \in Roots |-> IF r \in removed THEN 0 ELSE scheduled[r]]
        /\ handle' = [r \in Roots |-> IF r \in removed THEN Closing(r)
                                      ELSE IF r \in new THEN NewHandle(r) ELSE handle[r]]
        /\ sessions' = {s \in sessions : s.root \notin removed}
                       \cup Cancelled({s \in sessions : s.root \in removed})
                       \cup {NewSession(r) : r \in new}
        /\ Counted(new)
        /\ UNCHANGED <<phase, cancelled, attempts, readies, results, signals, mainReady>>

(***************************************************************************)
(* A session: watchProjectWithEventObserver                                *)
(***************************************************************************)

\* onReady; its sender has the session's root and generation.
SessionReady(s) ==
    /\ ~s.ready
    /\ sessions' = (sessions \ {s}) \cup {[s EXCEPT !.ready = TRUE]}
    /\ readies' = readies \cup {[root |-> s.root, gen |-> s.gen]}
    /\ mainReady' = (mainReady \/ s.root = Main)
    /\ UNCHANGED <<phase, cancelled, desired, handle, generation, attempts, scheduled, results, signals>>

\* It ends well only when it is cancelled, and may fail at any time.
SessionEnds(s, well) ==
    /\ IF well THEN s.cancelled \/ cancelled ELSE s.cancelled \/ ~AtBound(s.root)
    /\ sessions' = sessions \ {s}
    /\ results' = results \cup {[root |-> s.root, gen |-> s.gen, well |-> well]}
    /\ UNCHANGED <<phase, cancelled, desired, handle, generation, attempts, scheduled, readies, signals,
                   mainReady>>

(***************************************************************************)
(* The supervisor's select                                                 *)
(***************************************************************************)

\* A session of an earlier generation has nothing to say any more.
ReceiveReady(m) ==
    /\ phase = "serve" /\ readies' = readies \ {m}
    /\ IF Current(m)
       THEN /\ handle' = [handle EXCEPT ![m.root].ready = TRUE]
            /\ attempts' = [attempts EXCEPT ![m.root] = 0]
            /\ scheduled' = [scheduled EXCEPT ![m.root] = 0]
       ELSE UNCHANGED <<handle, attempts, scheduled>>
    /\ UNCHANGED <<phase, cancelled, desired, generation, sessions, results, signals, mainReady>>

\* shutdownSessions begins, with the sessions of roots: every one is cancelled.
Drain(roots) ==
    /\ phase' = "drain" /\ cancelled' = TRUE
    /\ handle' = [r \in Roots |-> IF r \in roots THEN Closing(r) ELSE NoHandle]
    /\ sessions' = Cancelled(sessions)
    /\ UNCHANGED <<desired, generation, attempts, scheduled, readies, signals, mainReady>>

\* What a root without a session may do: start one, wait for one, nothing.
Restart(r) ==
    /\ handle' = [handle EXCEPT ![r] = NewHandle(r)]
    /\ sessions' = sessions \cup {NewSession(r)}
    /\ Counted({r})

Release(r) == handle' = [handle EXCEPT ![r] = NoHandle] /\ UNCHANGED <<sessions, generation>>

\* The signal of the retry; the generation tells it from other retries' signals.
ScheduleRetry(m) ==
    /\ attempts' = [attempts EXCEPT ![m.root] = @ + 1]
    /\ scheduled' = [scheduled EXCEPT ![m.root] = attempts[m.root] + 1]
    /\ signals' = signals \cup {[root |-> m.root, attempt |-> attempts[m.root] + 1, gen |-> m.gen]}

AlwaysBack(m) ==                                                \* mutant
    /\ Restart(m.root)
    /\ UNCHANGED <<attempts, scheduled, signals>>

\* The session was to close: it comes back if its root is wanted again.
Closed(m) ==
    /\ IF m.root \in desired THEN Restart(m.root) ELSE Release(m.root)
    /\ UNCHANGED <<attempts, scheduled, signals>>

\* The end of the main session ends the supervisor, any other is retried.
ReceiveResult(m) ==
    /\ phase = "serve" /\ results' = results \ {m}
    /\ \/ /\ ~Current(m)
          /\ UNCHANGED <<phase, cancelled, desired, handle, generation, attempts, scheduled, sessions,
                         readies, signals, mainReady>>
       \/ /\ Current(m) /\ handle[m.root].closing
          /\ Closed(m)
          /\ UNCHANGED <<phase, cancelled, desired, readies, mainReady>>
       \/ /\ Current(m) /\ ~handle[m.root].closing /\ m.root = Main
          /\ Drain(Linked)
       \/ /\ Current(m) /\ ~handle[m.root].closing /\ m.root # Main
          /\ Release(m.root)
          /\ IF m.root \notin desired \/ (cancelled /\ m.well)
             THEN UNCHANGED <<attempts, scheduled, signals>>
             ELSE ScheduleRetry(m)
          /\ UNCHANGED <<phase, cancelled, desired, readies, mainReady>>

\* A signal that is not the one scheduled last, or comes too late, is dropped.
ReceiveSignal(m) ==
    /\ phase = "serve" /\ signals' = signals \ {m}
    /\ IF m.root \in desired /\ scheduled[m.root] = m.attempt /\ ~Managed(m.root)
       THEN Restart(m.root) /\ scheduled' = [scheduled EXCEPT ![m.root] = 0]
       ELSE UNCHANGED <<handle, sessions, generation, scheduled>>
    /\ UNCHANGED <<phase, cancelled, desired, attempts, readies, results, mainReady>>

SeeDone ==
    /\ phase = "serve" /\ cancelled
    /\ Drain(Roots) /\ UNCHANGED results

DrainResult(m) ==
    /\ phase = "drain" /\ results' = results \ {m}
    /\ IF Current(m) THEN handle' = [handle EXCEPT ![m.root] = NoHandle] ELSE UNCHANGED handle
    /\ UNCHANGED <<phase, cancelled, desired, generation, attempts, scheduled, sessions, readies,
                   signals, mainReady>>

WaitsForAll ==                                                  \* mutant
    /\ phase = "drain" /\ \A r \in Roots : ~Managed(r)
    /\ phase' = "returned"
    /\ UNCHANGED <<cancelled, desired, handle, generation, attempts, scheduled, sessions, readies,
                   results, signals, mainReady>>

\* All sessions have ended, or two seconds have passed.
Return ==
    /\ phase = "drain"
    /\ phase' = "returned"
    /\ UNCHANGED <<cancelled, desired, handle, generation, attempts, scheduled, sessions, readies,
                   results, signals, mainReady>>

Receive ==
    \/ \E m \in results : ReceiveResult(m) \/ DrainResult(m)
    \/ \E m \in signals : ReceiveSignal(m)
    \/ SeeDone \/ Return

SessionStep ==
    \E s \in sessions : SessionReady(s) \/ \E well \in BOOLEAN : SessionEnds(s, well)

SupervisorStep ==
    \/ \E linked \in SUBSET Linked : Reconcile(linked)
    \/ SessionStep
    \/ Receive

(***************************************************************************)
(* Properties                                                              *)
(***************************************************************************)

SupervisorTypeOK ==
    /\ phase \in {"off", "serve", "drain", "returned"}
    /\ cancelled \in BOOLEAN /\ mainReady \in BOOLEAN
    /\ desired \subseteq Roots /\ (phase # "off" => Main \in desired)
    /\ handle \in [Roots -> Handle]
    /\ generation \in [Roots -> Nat] /\ attempts \in [Roots -> Nat] /\ scheduled \in [Roots -> Nat]
    /\ sessions \subseteq Session
    /\ readies \subseteq [root : Roots, gen : Nat]
    /\ results \subseteq [root : Roots, gen : Nat, well : BOOLEAN]
    /\ signals \subseteq [root : Roots, gen : Nat, attempt : Nat]

\* Two sessions of one root never run beside each other, which would write the
\* same index, whatever is removed, wanted again, retried or late.
OneSession ==
    \A s, t \in sessions : s.root = t.root => s = t

\* While the supervisor serves, every root it should watch has a session, or a
\* result that will be taken for its end, or the signal that starts it again.
Heard(r) == \E m \in sessions \cup results : m.root = r /\ Current(m)
Awaited(r) == ~Managed(r) /\ \E m \in signals : m.root = r /\ scheduled[r] = m.attempt
DesiredIsTended ==
    phase = "serve" /\ ~cancelled => \A r \in desired : Heard(r) \/ Awaited(r)

\* No session goes on for a root that is not to be watched (applyDesired).
StrayIsCancelled ==
    phase = "serve" => \A s \in sessions : s.root \in desired \/ s.cancelled

\* What is watched is what is desired: nothing forgotten, nothing gone astray.
SessionsFollowRoots == DesiredIsTended /\ StrayIsCancelled

\* And by one session each.
SessionsAreRight == OneSession /\ SessionsFollowRoots
=============================================================================
