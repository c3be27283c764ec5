------------------------------- MODULE Scheduler -------------------------------
(***************************************************************************)
(* scheduler.Engine, the host-wide pacing of all repositories' jobs: one   *)
(* loop claims jobs round-robin, each in an index slot and admitted by the *)
(* circuit breaker, and dispatches them to goroutines, which retry, give   *)
(* up or finish.  The durable queue holds one row per path, which a newer  *)
(* intent of the path replaces.                                            *)
(*                                                                         *)
(* Callers of the breaker are the loop and the goroutines.  A delay ends   *)
(* at any time, so the wake signal, which only shortens delays, is left    *)
(* out: that somebody else takes it changes nothing here.                  *)
(***************************************************************************)
EXTENDS CircuitBreaker, FiniteSets

CONSTANTS
    Repos,              \* identities, ordered as numbers
    Jobs,               \* intents, the keys of Engine.attempts
    RepoOf, PathOf,     \* a path is one of a repository's tree
    Loop,               \* the caller that is Engine.Run
    Tasks,              \* bound: goroutines at a time
    MaxIndexInflight, MaxJobAttempts,
    MaxBroken           \* bound on the catalogs that fail

ASSUME SchedulerAssumption ==
    /\ Repos \subseteq Nat /\ IsFiniteSet(Repos) /\ IsFiniteSet(Tasks)
    /\ "none" \notin Jobs /\ \A j \in Jobs : RepoOf[j] \in Repos
    /\ \A j, k \in Jobs : PathOf[j] = PathOf[k] => RepoOf[j] = RepoOf[k]
    /\ Callers = Tasks \cup {Loop} /\ Loop \notin Tasks
    /\ MaxIndexInflight \in Nat \ {0} /\ MaxJobAttempts \in Nat \ {0} /\ MaxBroken \in Nat

VARIABLES
    row,           \* the queue: for each path no job, or a job and its claim
    broken,        \* repositories whose catalog fails
    loop,          \* where Run is
    visit,         \* the repositories claimRoundRobin has still to ask
    lastRepo,
    task,          \* what each goroutine is at, for which job
    slots,         \* index slots taken
    wg,            \* Engine.wg
    attempts,
    cancelled,     \* the context is cancelled
    waited         \* history: claims from other repositories while a job of
                   \* this one waits and it is not asked

queueVars == <<row, broken>>
loopVars == <<loop, visit, lastRepo>>
vars == <<breakerVars, queueVars, loopVars, task, slots, wg, attempts, cancelled, waited>>

Paths == {PathOf[j] : j \in Jobs}
NoRow == [job |-> "none", claimed |-> FALSE]
Row == {NoRow} \cup [job : Jobs, claimed : BOOLEAN]
Free == [pc |-> "free", job |-> "none", done |-> 0]

Pending(r) == \E p \in Paths : row[p] # NoRow /\ ~row[p].claimed /\ RepoOf[row[p].job] = r
\* The wait of a repository ends when none of its jobs waits any more.
KeepWaiting == waited' = [r \in Repos |-> IF Pending(r)' THEN waited[r] ELSE 0]
Matching(j) == row[PathOf[j]].job = j

SchedulerInit ==
    /\ BreakerInit
    /\ row = [p \in Paths |-> NoRow]
    /\ broken \in SUBSET Repos /\ Cardinality(broken) <= MaxBroken
    /\ loop = "acquire" /\ visit = {} /\ lastRepo = 0
    /\ task = [t \in Tasks |-> Free]
    /\ slots = 0 /\ wg = 0
    /\ attempts = [j \in Jobs |-> 0]
    /\ cancelled = FALSE
    /\ waited = [r \in Repos |-> 0]

(***************************************************************************)
(* The queue's other users                                                 *)
(***************************************************************************)

\* Submit: the row of a path is replaced, unless it holds this very intent.
Submit(j) ==
    /\ ~cancelled /\ ~Matching(j)
    /\ row' = [row EXCEPT ![PathOf[j]] = [job |-> j, claimed |-> FALSE]]
    /\ UNCHANGED <<breakerVars, broken, loopVars, task, slots, wg, attempts, cancelled, waited>>

\* catalogset.Set leaves a catalog that fails out of every list and claim.
RepairCatalog ==
    /\ broken # {} /\ broken' = {}
    /\ UNCHANGED <<breakerVars, row, loopVars, task, slots, wg, attempts, cancelled, waited>>

Cancel ==
    /\ ~cancelled /\ cancelled' = TRUE
    /\ UNCHANGED <<breakerVars, queueVars, loopVars, task, slots, wg, attempts, waited>>

(***************************************************************************)
(* Run                                                                     *)
(***************************************************************************)

Acquire == slots < MaxIndexInflight /\ slots' = slots + 1
Release == slots' = slots - 1

Denied(c) == ~adm[c].ok /\ (state = "half-open" \/ (state = "open" /\ ~elapsed))

FreeTask(t) == task[t] = Free

LoopAcquire ==
    /\ loop = "acquire" /\ (\E t \in Tasks : FreeTask(t))
    /\ Acquire /\ loop' = "gate"
    /\ UNCHANGED <<breakerVars, queueVars, visit, lastRepo, task, wg, attempts, cancelled, waited>>

LoopAllowed ==
    /\ loop = "gate" /\ Allow(Loop) /\ loop' = "list"
    /\ UNCHANGED <<queueVars, visit, lastRepo, task, slots, wg, attempts, cancelled, waited>>

LoopDenied ==
    /\ loop = "gate" /\ Denied(Loop)
    /\ Release /\ loop' = "wait"
    /\ UNCHANGED <<breakerVars, queueVars, visit, lastRepo, task, wg, attempts, cancelled, waited>>

SmallerFirst(r, q) == r < q                                     \* mutant

\* The repositories after the last one served come before those up to it.
Sooner(r, q) == IF (r > lastRepo) = (q > lastRepo) THEN r < q ELSE r > lastRepo

Asked == CHOOSE r \in visit : \A q \in visit \ {r} : Sooner(r, q)

\* RepositoriesWithPendingJobs.
ListRepos ==
    /\ loop = "list"
    /\ visit' = {r \in Repos \ broken : Pending(r)}
    /\ loop' = "claim"
    /\ UNCHANGED <<breakerVars, queueVars, lastRepo, task, slots, wg, attempts, cancelled, waited>>

\* A read that fails, as it does once the context is cancelled, or nothing to
\* claim: the admission is given back.
GiveUp ==
    /\ Record(Loop, "abort")
    /\ Release /\ loop' = "wait" /\ visit' = {}

ListFails ==
    /\ loop = "list" /\ cancelled
    /\ GiveUp
    /\ UNCHANGED <<queueVars, lastRepo, task, wg, attempts, cancelled, waited>>

NothingToClaim ==
    /\ loop = "claim" /\ visit = {}
    /\ GiveUp
    /\ UNCHANGED <<queueVars, lastRepo, task, wg, attempts, cancelled, waited>>

\* Somebody replaced or removed the job, or the catalog of the repository fails.
ClaimNone ==
    /\ loop = "claim" /\ visit # {}
    /\ cancelled \/ Asked \in broken \/ ~Pending(Asked)
    /\ visit' = visit \ {Asked}
    /\ waited' = [waited EXCEPT ![Asked] = 0]
    /\ UNCHANGED <<breakerVars, queueVars, loop, lastRepo, task, slots, wg, attempts, cancelled>>

\* The admission and the slot go on to the goroutine.
Claim ==
    LET r == Asked
        t == CHOOSE free \in Tasks : FreeTask(free)
    IN  /\ loop = "claim" /\ visit # {}
        /\ r \notin broken
        /\ \E p \in Paths :
              /\ row[p] # NoRow /\ ~row[p].claimed /\ RepoOf[row[p].job] = r
              /\ row' = [row EXCEPT ![p].claimed = TRUE]
              /\ task' = [task EXCEPT ![t] = [pc |-> "work", job |-> row[p].job, done |-> 1]]
        /\ HandOver(Loop, t)
        /\ lastRepo' = r /\ visit' = {} /\ loop' = "acquire"
        /\ wg' = wg + 1
        /\ waited' = [q \in Repos |-> IF q = r \/ q \in broken \/ ~Pending(q) THEN 0 ELSE waited[q] + 1]
        /\ UNCHANGED <<broken, slots, attempts, cancelled>>

\* waitBackoff and waitForWork end: a signal or a timer.
LoopWakes ==
    /\ loop = "wait" /\ ~cancelled /\ loop' = "acquire"
    /\ UNCHANGED <<breakerVars, queueVars, visit, lastRepo, task, slots, wg, attempts, cancelled, waited>>

\* Run's deferred wg.Wait begins, and is over when no goroutine is counted.
LoopStops ==
    /\ loop \in {"acquire", "wait"} /\ cancelled
    /\ loop' = "drain"
    /\ UNCHANGED <<breakerVars, queueVars, visit, lastRepo, task, slots, wg, attempts, cancelled, waited>>

RunReturns ==
    /\ loop = "drain" /\ wg = 0
    /\ loop' = "returned"
    /\ UNCHANGED <<breakerVars, queueVars, visit, lastRepo, task, slots, wg, attempts, cancelled, waited>>

LoopStep ==
    \/ LoopAcquire \/ LoopAllowed \/ LoopDenied
    \/ ListRepos \/ ListFails \/ NothingToClaim \/ ClaimNone
    \/ Claim
    \/ LoopWakes \/ LoopStops \/ RunReturns

(***************************************************************************)
(* A goroutine: dispatch, retry, dead letter                               *)
(***************************************************************************)

At(t, pc) == task[t].pc = pc
GoOn(t, pc) == task' = [task EXCEPT ![t].pc = pc]

\* What ProcessClaimed may answer of the endpoint with each outcome.
Endpoints(outcome) ==
    IF outcome = "transient" THEN {"success", "failure", "abort"} ELSE {"success", "abort"}

\* The end of dispatch: slot, wake, and one or two wg.Done.
Ends(t) ==
    /\ task' = [task EXCEPT ![t] = Free]
    /\ wg' = wg - task[t].done

\* The dispatch ends, a goroutine that waits out a delay is counted anew.
Delays(t, pc) ==
    /\ task' = [task EXCEPT ![t] = [pc |-> pc, job |-> task[t].job, done |-> 1]]
    /\ wg' = wg + 1 - task[t].done

Removed(j) == IF Matching(j) THEN [row EXCEPT ![PathOf[j]] = NoRow] ELSE row
Cleared(j) == [attempts EXCEPT ![j] = 0]

TerminateOnce(t, j, counted) ==                                 \* mutant
    \/ row' = Removed(j) /\ attempts' = Cleared(j) /\ Ends(t)
    \/ attempts' = counted /\ Ends(t) /\ UNCHANGED row

\* terminate: the dead letter is written, or its writing is put off.
Terminate(t, j, counted) ==
    \/ row' = Removed(j) /\ attempts' = Cleared(j) /\ Ends(t)
    \/ attempts' = counted /\ Delays(t, "terminate") /\ UNCHANGED row

\* ProcessClaimed and account.
Finish(t, outcome, endpoint) ==
    LET j == task[t].job
        tried == [attempts EXCEPT ![j] = @ + 1]
    IN  /\ At(t, "work") /\ endpoint \in Endpoints(outcome)
        /\ Record(t, endpoint)
        /\ \/ /\ outcome = "committed"
              /\ row' = Removed(j) /\ attempts' = Cleared(j) /\ Ends(t)
           \/ /\ outcome = "superseded" /\ ~Matching(j)
              /\ attempts' = Cleared(j) /\ Ends(t) /\ UNCHANGED row
           \/ /\ outcome = "permanent"
              /\ Terminate(t, j, attempts)
           \/ /\ outcome = "transient" /\ tried[j] >= MaxJobAttempts
              /\ Terminate(t, j, tried)
           \/ /\ outcome = "transient" /\ tried[j] < MaxJobAttempts
              /\ attempts' = tried /\ Delays(t, "delay") /\ UNCHANGED row
        /\ Release /\ KeepWaiting
        /\ UNCHANGED <<broken, loopVars, cancelled>>

\* scheduleTerminate; a write that fails changes nothing but the next delay.
TaskTerminates(t) ==
    /\ At(t, "terminate")
    /\ row' = Removed(task[t].job) /\ attempts' = Cleared(task[t].job) /\ Ends(t)
    /\ KeepWaiting
    /\ UNCHANGED <<breakerVars, broken, loopVars, slots, cancelled>>

\* scheduleRetry and dispatchWhenReady.
TaskDelayed(t) ==
    /\ At(t, "delay") /\ ~cancelled /\ GoOn(t, "acquire")
    /\ UNCHANGED <<breakerVars, queueVars, loopVars, slots, wg, attempts, cancelled, waited>>

TaskAcquires(t) ==
    /\ At(t, "acquire") /\ Acquire /\ GoOn(t, "gate")
    /\ UNCHANGED <<breakerVars, queueVars, loopVars, wg, attempts, cancelled, waited>>

UncountedRetry(t) ==                                            \* mutant
    /\ At(t, "gate") /\ Allow(t)
    /\ task' = [task EXCEPT ![t].pc = "work", ![t].done = 2]
    /\ UNCHANGED <<queueVars, loopVars, slots, wg, attempts, cancelled, waited>>

UngatedRetry(t) ==                                              \* mutant
    /\ At(t, "gate") /\ Grant(t, FALSE) /\ UNCHANGED <<state, failures, epoch, elapsed>>
    /\ task' = [task EXCEPT ![t].pc = "work", ![t].done = 2]
    /\ wg' = wg + 1
    /\ UNCHANGED <<queueVars, loopVars, slots, attempts, cancelled, waited>>

\* dispatch, called in the goroutine of the retry, counts itself once more.
TaskAllowed(t) ==
    /\ At(t, "gate") /\ Allow(t)
    /\ task' = [task EXCEPT ![t].pc = "work", ![t].done = 2]
    /\ wg' = wg + 1
    /\ UNCHANGED <<queueVars, loopVars, slots, attempts, cancelled, waited>>

TaskDenied(t) ==
    /\ At(t, "gate") /\ Denied(t)
    /\ Release /\ GoOn(t, "wait")
    /\ UNCHANGED <<breakerVars, queueVars, loopVars, wg, attempts, cancelled, waited>>

TaskWakes(t) ==
    /\ At(t, "wait") /\ ~cancelled /\ GoOn(t, "acquire")
    /\ UNCHANGED <<breakerVars, queueVars, loopVars, slots, wg, attempts, cancelled, waited>>

TaskStops(t) ==
    /\ cancelled /\ task[t].pc \in {"delay", "acquire", "wait", "terminate"}
    /\ Ends(t)
    /\ UNCHANGED <<breakerVars, queueVars, loopVars, slots, attempts, cancelled, waited>>

Finishes(t) ==
    \E outcome \in {"committed", "superseded", "permanent", "transient"},
       endpoint \in {"success", "failure", "abort"} : Finish(t, outcome, endpoint)

TaskStep(t) ==
    \/ Finishes(t) \/ TaskTerminates(t)
    \/ TaskDelayed(t) \/ TaskAcquires(t) \/ TaskAllowed(t) \/ TaskDenied(t)
    \/ TaskWakes(t) \/ TaskStops(t)

ElapseStep ==
    /\ Elapse
    /\ UNCHANGED <<queueVars, loopVars, task, slots, wg, attempts, cancelled, waited>>

SchedulerNext ==
    \/ \E j \in Jobs : Submit(j)
    \/ RepairCatalog
    \/ Cancel
    \/ ElapseStep
    \/ LoopStep
    \/ \E t \in Tasks : TaskStep(t)

\* Goroutines run, time passes, the embedder and the catalog answer in the
\* end.  Who waits for a slot gets it: a Go channel serves its senders in order.
SchedulerFairness ==
    /\ WF_vars(ElapseStep)
    /\ WF_vars(LoopAllowed \/ LoopDenied \/ ListRepos \/ ClaimNone \/ NothingToClaim \/ Claim
               \/ LoopWakes \/ RunReturns)
    /\ SF_vars(LoopAcquire \/ LoopStops)
    /\ \A t \in Tasks :
          /\ WF_vars(Finishes(t) \/ TaskTerminates(t) \/ TaskDelayed(t) \/ TaskAllowed(t)
                     \/ TaskDenied(t) \/ TaskWakes(t))
          /\ SF_vars(TaskAcquires(t) \/ TaskStops(t))

SchedulerSpec == SchedulerInit /\ [][SchedulerNext]_vars /\ SchedulerFairness

(***************************************************************************)
(* Properties, besides those of the breaker                                *)
(***************************************************************************)

Holding == {"work", "gate"}

\* Types; and slots and the wait group count what they stand for.
SchedulerTypeOK ==
    /\ BreakerTypeOK
    /\ row \in [Paths -> Row] /\ broken \subseteq Repos
    /\ loop \in {"acquire", "gate", "list", "claim", "wait", "drain", "returned"}
    /\ slots = Cardinality({t \in Tasks : task[t].pc \in Holding})
               + (IF loop \in {"gate", "list", "claim"} THEN 1 ELSE 0)
    /\ slots <= MaxIndexInflight

\* Run returns only when no goroutine of the engine is left, whatever retries
\* start goroutines of their own while it waits: the daemon closes the
\* catalogs after it (Run's deferred wg.Wait, scheduleRetry, dispatchWhenReady).
ReturnedMeansQuiet ==
    loop = "returned" => \A t \in Tasks : task[t] = Free /\ ~adm[t].ok

\* Slots and goroutines are both accounted for: none is held by nobody, none
\* is left when Run has returned.
RunIsAccounted == SchedulerTypeOK /\ ReturnedMeansQuiet

\* Whoever talks to the endpoint has an admission to resolve, nobody else but
\* the loop while it looks for a job, so that no admission is lost and no call
\* goes past the breaker (dispatch, account).
AdmittedAtWork ==
    /\ \A t \in Tasks : adm[t].ok <=> task[t].pc = "work"
    /\ adm[Loop].ok <=> loop \in {"list", "claim"}

\* The breaker of the running engine: one probe at a time, no late answer opens or
\* closes it (circuit.go), and each admission is where the call is.
BreakerIsKept == BreakerSafe /\ AdmittedAtWork

\* claimRoundRobin starves no repository: while one of its jobs waits, every
\* other repository is served at most once before it is asked, however
\* repositories come and go in the list.
FairTurn == \A r \in Repos : waited[r] < Cardinality(Repos)

BoundReached == epoch = MaxEpoch

\* Every intent is committed, dead-lettered or replaced in the end, with any
\* number of failing calls, probes and retries, and while the catalogs
\* of other repositories fail.
Drains ==
    \A j \in Jobs : Matching(j) ~>
        (~Matching(j) \/ RepoOf[j] \in broken \/ cancelled \/ BoundReached)

\* A cancelled engine returns.
ShutsDown == cancelled ~> (loop = "returned" \/ BoundReached)

\* The engine comes to its end with its work and with its shutdown.
Settles == Drains /\ ShutsDown
=============================================================================
