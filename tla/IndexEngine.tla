---------------------------- MODULE IndexEngine ----------------------------
(***************************************************************************)
(* The daemon at work on one worktree: it registers the worktree, rolls it *)
(* to its own fingerprint, reconciles it with the files on disk, and runs  *)
(* the scheduler's dispatches, each of which takes one claimed job through *)
(* the worker.  Every access to the catalog is a step of its own, so       *)
(* edits, passes, dispatches and a stop of the daemon fall between any two *)
(* of them.                                                                *)
(*                                                                         *)
(* A file is a sequence of versions, Script[p], and an edit moves to the   *)
(* next one.  The circuit breaker (CircuitBreaker.tla) and priorities only *)
(* delay a dispatch or choose among queued jobs; here any is next.         *)
(***************************************************************************)
EXTENDS Catalog, Sequences

CONSTANTS
    Workers,           \* bound: the jobs dispatches and retries can hold at once
    Passes,            \* reconcile passes that can run at once
    Watcher,           \* the pass of Register and then of the watch loop
    NoPath,
    Script,            \* [Paths -> Seq(Desired)], NoHash where the file is absent
    MaxIndexInflight,  \* index slots, daemon.json's max_index_inflight
    MaxJobAttempts,
    MaxStops,          \* bound on how often the daemon stops or crashes
    MaxFaults,         \* bound on failing catalog, disk and endpoint calls
    Restraints         \* what the environment refrains from, see Edit

ASSUME EngineAssumption ==
    /\ Watcher \in Passes
    /\ NoPath \notin Paths
    /\ Script \in [Paths -> Seq(Desired) \ {<<>>}]
    /\ {MaxIndexInflight, MaxJobAttempts} \subseteq Nat \ {0}
    /\ {MaxStops, MaxFaults} \subseteq Nat
    /\ Restraints \subseteq {"calm deletes"}

VARIABLES
    ver,       \* Disk(p) = Script[p][ver[p]]
    daemonFp,  \* the running daemon's fingerprint, NoFingerprint when down
    reg,       \* how far Register has come
    sched,     \* the scheduler: "off", "on", or "unrecovered" if Recover failed
    dirty,     \* a watch hint no pass has taken up
    pass,      \* what each reconcile pass has read
    work,      \* what each dispatch or retry goroutine holds
    attempts,  \* transient failures per intent (Engine.attempts), in memory
    stops, faults,  \* how much of the bounds is used
    seen,      \* history: the version on disk when the last pass to enqueue
               \* its plan began, 0 if none since a roll
    shown,     \* history: the version the view shows, 0 if none since a roll
    missed     \* history: the paths whose last change no hint stands for: made
               \* while no watch ran, or the hint or its pass was lost in a stop

daemonVars == <<daemonFp, reg, sched, dirty>>
workVars == <<work, attempts>>
history == <<seen, shown, missed>>
engineVars == <<catalogVars, daemonVars, workVars, pass, ver, stops, faults, history>>

Disk(p) == Script[p][ver[p]]
Up == daemonFp # NoFingerprint
Refrains(what) == what \in Restraints

\* The version whose content h is, the newest one if it came back.
VersionOf(p, h) == CHOOSE v \in 1..ver[p] :
                      /\ Script[p][v] = h
                      /\ \A u \in 1..ver[p] : Script[p][u] = h => u <= v

\* Where a worker stands in ProcessClaimed and in account.  "bury" is the
\* dead-letter write, "rebury" its retry after a store error.
Slotted == {"precheck", "load", "build", "check", "commit", "bury"}
WorkerPC == Slotted \cup {"idle", "backoff", "rebury"}
Work == [pc : WorkerPC, path : Paths \cup {NoPath}, hash : Desired, gen : 0..MaxGen]
NoWork == [pc |-> "idle", path |-> NoPath, hash |-> NoHash, gen |-> 0]

\* began is history: the versions on disk when the pass began.
Pass == [pc : {"idle", "index", "truth"}, gen : 0..MaxGen, began : [Paths -> Nat],
         indexed : [Paths -> Desired], truth : [Paths -> Nat]]
NoPass == [pc |-> "idle", gen |-> 0, began |-> [p \in Paths |-> 0],
           indexed |-> [p \in Paths |-> NoHash], truth |-> [p \in Paths |-> 0]]

Intents == Paths \X Desired \X Gens
NoAttempts == [i \in Intents |-> 0]

Fault == faults < MaxFaults /\ faults' = faults + 1

EngineInit ==
    /\ CatalogInit
    /\ ver = [p \in Paths |-> 1]
    /\ daemonFp = NoFingerprint /\ reg = "absent" /\ sched = "off" /\ dirty = FALSE
    /\ pass = [r \in Passes |-> NoPass]
    /\ work = [w \in Workers |-> NoWork]
    /\ attempts = NoAttempts
    /\ stops = 0 /\ faults = 0
    /\ seen = [p \in Paths |-> 0]
    /\ shown = [p \in Paths |-> 0]
    /\ missed = {}

(***************************************************************************)
(* The environment                                                         *)
(***************************************************************************)

\* The backend turns a change of a watched tree into a hint.  The restraint
\* "calm deletes" deletes only files that are indexed and not queued.
Edit(p) ==
    /\ ver[p] < Len(Script[p])
    /\ (Refrains("calm deletes") /\ Script[p][ver[p] + 1] = NoHash)
          => view[p].hash = Disk(p) /\ ~Queued(p)
    /\ ver' = [ver EXCEPT ![p] = @ + 1]
    /\ dirty' = (dirty \/ reg = "done")
    /\ missed' = IF reg = "done" THEN missed ELSE missed \cup {p}
    /\ UNCHANGED <<catalogVars, daemonFp, reg, sched, workVars, pass, stops, faults, seen, shown>>

\* A shutdown or a crash: all that is not in the catalog is gone.  A shutdown
\* leaves jobs claimed as a crash does.
Stop ==
    /\ Up /\ stops < MaxStops
    /\ daemonFp' = NoFingerprint /\ reg' = "absent" /\ sched' = "off" /\ dirty' = FALSE
    /\ pass' = [r \in Passes |-> NoPass]
    /\ work' = [w \in Workers |-> NoWork]
    /\ attempts' = NoAttempts
    /\ stops' = stops + 1
    /\ missed' = IF dirty \/ pass[Watcher] # NoPass
                 THEN missed \cup {p \in Paths : seen[p] < ver[p]} ELSE missed
    /\ UNCHANGED <<catalogVars, ver, faults, seen, shown>>

(***************************************************************************)
(* The daemon: start, Register, Recover                                    *)
(***************************************************************************)

Start(f) ==
    /\ ~Up
    /\ daemonFp' = f /\ reg' = "ensure"
    /\ UNCHANGED <<catalogVars, sched, dirty, workVars, pass, ver, stops, faults, history>>

Register ==
    /\ reg = "ensure" /\ reg' = "scan"
    /\ EnsureActiveGeneration(daemonFp)
    /\ UNCHANGED <<daemonFp, sched, dirty, workVars, pass, ver, stops, faults, history>>

SlotAnywhere(g) ==                                              \* mutant
    g # ActiveGen /\ (status[g] = "none" \/ genFp[g] = daemonFp)

\* rollIfMismatch's scan: the first generation above the active one that is
\* free or already carries the daemon's fingerprint.
IsSlot(g) == g > ActiveGen /\ (status[g] = "none" \/ genFp[g] = daemonFp)
NextSlot == CHOOSE g \in Gens : IsSlot(g) /\ \A h \in Gens : IsSlot(h) => g <= h

FingerprintMatches ==
    /\ reg = "scan" /\ genFp[ActiveGen] = daemonFp
    /\ reg' = "check"
    /\ UNCHANGED <<catalogVars, daemonFp, sched, dirty, workVars, pass, ver, stops, faults, history>>

FindSlot ==
    /\ reg = "scan" /\ genFp[ActiveGen] # daemonFp
    /\ \E g \in Gens : IsSlot(g)
    /\ IF status[NextSlot] = "none" THEN CreateGeneration(NextSlot, daemonFp)
                                    ELSE UNCHANGED catalogVars
    /\ reg' = "roll"
    /\ UNCHANGED <<daemonFp, sched, dirty, workVars, pass, ver, stops, faults, history>>

Roll ==
    /\ reg = "roll" /\ reg' = "check"
    /\ RollWorktreeGeneration(NextSlot)
    /\ seen' = [p \in Paths |-> 0]
    /\ shown' = [p \in Paths |-> 0]
    /\ UNCHANGED <<daemonFp, sched, dirty, workVars, pass, ver, stops, faults, missed>>

\* Only an empty view is reconciled; then the watch starts, not dirty.
CheckView ==
    /\ reg = "check"
    /\ reg' = IF ViewEmpty THEN "pass" ELSE "done"
    /\ UNCHANGED <<catalogVars, daemonFp, sched, dirty, workVars, pass, ver, stops, faults, history>>

\* The error is logged and the repository skipped, until a client registers
\* it again; its catalog stays open and the scheduler serves its queue.
RegisterFails ==
    /\ reg \in {"ensure", "scan", "roll", "check"} /\ reg' = "failed"
    /\ Fault
    /\ UNCHANGED <<catalogVars, daemonFp, sched, dirty, workVars, pass, ver, stops, history>>

RegisterAgain ==
    /\ reg = "failed" /\ sched # "off" /\ reg' = "ensure"
    /\ UNCHANGED <<catalogVars, daemonFp, sched, dirty, workVars, pass, ver, stops, faults, history>>

\* Between the rehydration of the registry and the start of the scheduler.
Recover ==
    /\ Up /\ sched = "off" /\ reg \in {"done", "failed"}
    /\ RequeueClaimedJobs
    /\ sched' = "on"
    /\ UNCHANGED <<daemonFp, reg, dirty, workVars, pass, ver, stops, faults, history>>

RecoverFails ==
    /\ Up /\ sched = "off" /\ reg \in {"done", "failed"}
    /\ Fault
    /\ sched' = "unrecovered"
    /\ UNCHANGED <<catalogVars, daemonFp, reg, dirty, workVars, pass, ver, stops, history>>

(***************************************************************************)
(* A reconcile pass                                                        *)
(***************************************************************************)

\* The watch loop runs a pass for a hint and, hint or not, for its safety net;
\* the others are Reconcile calls of clients.
BeginPass(r) ==
    /\ Up /\ pass[r].pc = "idle" /\ ~NoneActive
    /\ IF r = Watcher THEN reg \in {"pass", "done"} ELSE sched # "off"
    /\ pass' = [pass EXCEPT ![r].pc = "index", ![r].gen = ActiveGen,
                            ![r].began = ver]
    /\ dirty' = (dirty /\ r # Watcher)
    /\ UNCHANGED <<catalogVars, daemonFp, reg, sched, workVars, ver, stops, faults, history>>

ReadIndex(r) ==
    /\ pass[r].pc = "index"
    /\ pass' = [pass EXCEPT ![r].pc = "truth",
                            ![r].indexed = [p \in Paths |-> view[p].hash]]
    /\ UNCHANGED <<catalogVars, daemonVars, workVars, ver, stops, faults, history>>

\* The walk of the tree reads the files one after the other.
ReadTruth(r, p) ==
    /\ pass[r].pc = "truth" /\ pass[r].truth[p] = 0
    /\ pass' = [pass EXCEPT ![r].truth[p] = ver[p]]
    /\ UNCHANGED <<catalogVars, daemonVars, workVars, ver, stops, faults, history>>

Truth(r, p) == Script[p][pass[r].truth[p]]

\* A path whose content differs is upserted, one indexed and absent deleted.
PlanOf(r) == [p \in {q \in Paths : pass[r].indexed[q] # Truth(r, q)}
                |-> [hash |-> Truth(r, p), gen |-> pass[r].gen]]

EnqueuePlan(r) ==
    /\ pass[r].pc = "truth" /\ \A p \in Paths : pass[r].truth[p] > 0
    /\ UpsertJobs(PlanOf(r))
    /\ seen' = IF IsActive(pass[r].gen) THEN pass[r].began ELSE seen
    /\ missed' = {p \in missed : seen'[p] < ver[p]}
    /\ pass' = [pass EXCEPT ![r] = NoPass]
    /\ reg' = IF r = Watcher /\ reg = "pass" THEN "done" ELSE reg
    /\ UNCHANGED <<daemonFp, sched, dirty, workVars, ver, stops, faults, shown>>

AbortForgetsHint(r) ==                                          \* mutant
    /\ pass[r].pc # "idle"
    /\ Fault
    /\ pass' = [pass EXCEPT ![r] = NoPass]
    /\ reg' = IF r = Watcher /\ reg = "pass" THEN "failed" ELSE reg
    /\ UNCHANGED <<catalogVars, daemonFp, sched, dirty, workVars, ver, stops, history>>

\* The watch loop re-arms itself, a registration fails.
AbortPass(r) ==
    /\ pass[r].pc # "idle"
    /\ Fault
    /\ pass' = [pass EXCEPT ![r] = NoPass]
    /\ dirty' = (dirty \/ (r = Watcher /\ reg = "done"))
    /\ reg' = IF r = Watcher /\ reg = "pass" THEN "failed" ELSE reg
    /\ UNCHANGED <<catalogVars, daemonFp, sched, workVars, ver, stops, history>>

(***************************************************************************)
(* A dispatch                                                              *)
(***************************************************************************)

SlotOffByOne ==                                                 \* mutant
    Cardinality({w \in Workers : work[w].pc \in Slotted}) <= MaxIndexInflight

SlotFree == Cardinality({w \in Workers : work[w].pc \in Slotted}) < MaxIndexInflight
GoTo(w, pc) == work' = [work EXCEPT ![w].pc = pc]
Key(w) == <<work[w].path, work[w].hash, work[w].gen>>

Finish(w) == /\ work' = [work EXCEPT ![w] = NoWork]
             /\ attempts' = [attempts EXCEPT ![Key(w)] = 0]

Superseded(w) ==
    LET held == work[w]
        job == jobs[held.path]
    IN  \/ ~Queued(held.path)
        \/ job.gen > held.gen
        \/ job.gen = held.gen /\ job.hash # held.hash

Claim(w, p) ==
    /\ sched # "off" /\ work[w].pc = "idle" /\ SlotFree
    /\ ClaimNextJob(p)
    /\ work' = [work EXCEPT ![w] = [pc |-> "precheck", path |-> p,
                                    hash |-> jobs[p].hash, gen |-> jobs[p].gen]]
    /\ UNCHANGED <<daemonVars, attempts, pass, ver, stops, faults, history>>

\* dispatchWhenReady: the job is still claimed, only a slot is needed.
Redispatch(w) ==
    /\ work[w].pc = "backoff" /\ SlotFree
    /\ GoTo(w, "precheck")
    /\ UNCHANGED <<catalogVars, daemonVars, attempts, pass, ver, stops, faults, history>>

PreCheck(w) ==
    /\ work[w].pc = "precheck"
    /\ IF Superseded(w) THEN Finish(w)
       ELSE /\ GoTo(w, IF work[w].hash = NoHash THEN "commit" ELSE "load")
            /\ UNCHANGED attempts
    /\ UNCHANGED <<catalogVars, daemonVars, pass, ver, stops, faults, history>>

\* The loader hands out the bytes of the desired hash or none.
Load(w) ==
    /\ work[w].pc = "load" /\ Disk(work[w].path) = work[w].hash
    /\ GoTo(w, "build")
    /\ UNCHANGED <<catalogVars, daemonVars, attempts, pass, ver, stops, faults, history>>

Build(w) ==
    /\ work[w].pc = "build"
    /\ GoTo(w, "check")
    /\ UNCHANGED <<catalogVars, daemonVars, attempts, pass, ver, stops, faults, history>>

PostCheck(w) ==
    /\ work[w].pc = "check"
    /\ IF Superseded(w) THEN Finish(w) ELSE GoTo(w, "commit") /\ UNCHANGED attempts
    /\ UNCHANGED <<catalogVars, daemonVars, pass, ver, stops, faults, history>>

Commit(w) ==
    /\ work[w].pc = "commit"
    /\ LET p == work[w].path IN
          /\ IF work[w].hash = NoHash THEN CommitDelete(p, NoHash, work[w].gen)
                                      ELSE CommitUpdate(p, work[w].hash, work[w].gen)
          /\ shown' = IF view'[p] = view[p] THEN shown
                      ELSE [shown EXCEPT ![p] = VersionOf(p, work[w].hash)]
    /\ Finish(w)
    /\ UNCHANGED <<daemonVars, pass, ver, stops, faults, seen, missed>>

\* A read or write fails, the endpoint does not answer, or the file is no
\* longer the desired version.
Transient(w) ==
    /\ work[w].pc \in Slotted \ {"bury"}
    /\ \/ Fault
       \/ /\ work[w].pc = "load" /\ Disk(work[w].path) # work[w].hash
          /\ UNCHANGED faults
    /\ LET n == attempts[Key(w)] + 1 IN
          /\ attempts' = [attempts EXCEPT ![Key(w)] = n]
          /\ GoTo(w, IF n >= MaxJobAttempts THEN "bury" ELSE "backoff")
    /\ UNCHANGED <<catalogVars, daemonVars, pass, ver, stops, history>>

Permanent(w) ==
    /\ work[w].pc = "build"
    /\ Fault
    /\ GoTo(w, "bury")
    /\ UNCHANGED <<catalogVars, daemonVars, attempts, pass, ver, stops, history>>

Terminate(w) ==
    /\ work[w].pc \in {"bury", "rebury"}
    /\ DeadLetterJob(work[w].path, work[w].hash, work[w].gen)
    /\ Finish(w)
    /\ UNCHANGED <<daemonVars, pass, ver, stops, faults, history>>

TerminateForgotten(w) ==                                        \* mutant
    /\ work[w].pc = "bury"
    /\ Fault
    /\ Finish(w)
    /\ UNCHANGED <<catalogVars, daemonVars, pass, ver, stops, history>>

\* The slot is released and only the write is retried.
TerminateFails(w) ==
    /\ work[w].pc = "bury"
    /\ Fault
    /\ GoTo(w, "rebury")
    /\ UNCHANGED <<catalogVars, daemonVars, attempts, pass, ver, stops, history>>

(***************************************************************************)
(* Specifications                                                          *)
(***************************************************************************)

WorkerStep(w) ==
    PreCheck(w) \/ Load(w) \/ Build(w) \/ PostCheck(w) \/ Commit(w)
       \/ Transient(w) \/ Permanent(w) \/ Terminate(w) \/ TerminateFails(w)

PassStep(r) ==
    ReadIndex(r) \/ (\E p \in Paths : ReadTruth(r, p)) \/ EnqueuePlan(r) \/ AbortPass(r)

RegisterStep ==
    Register \/ FingerprintMatches \/ FindSlot \/ Roll \/ CheckView \/ RegisterFails

EngineNext ==
    \/ \E p \in Paths : Edit(p)
    \/ Stop
    \/ \E f \in Fingerprints : Start(f)
    \/ RegisterStep \/ RegisterAgain \/ Recover \/ RecoverFails
    \/ \E r \in Passes : BeginPass(r) \/ PassStep(r)
    \/ \E w \in Workers : WorkerStep(w) \/ Redispatch(w) \/ \E p \in Paths : Claim(w, p)

EngineSpec == EngineInit /\ [][EngineNext]_engineVars

\* A goroutine that can run does.  Waiters on the slot channel are served in
\* order, and the loop claims every queued job in its turn, hence the strong
\* fairness; the safety net is a timer.  Nothing is assumed of edits, stops,
\* starts, client calls or repeated registration.
EngineFairness ==
    /\ WF_engineVars(RegisterStep) /\ WF_engineVars(Recover)
    /\ WF_engineVars(BeginPass(Watcher))
    /\ \A r \in Passes : WF_engineVars(PassStep(r))
    /\ \A w \in Workers : WF_engineVars(WorkerStep(w)) /\ SF_engineVars(Redispatch(w))
    /\ \A p \in Paths : SF_engineVars(\E w \in Workers : Claim(w, p))

EngineLiveSpec == EngineSpec /\ EngineFairness

(***************************************************************************)
(* Properties                                                              *)
(***************************************************************************)

Held(w) == work[w].pc # "idle"

\* No job is left behind claimed: while a recovered scheduler runs, a claimed
\* row is the intent some goroutine holds and will commit, retry or
\* dead-letter.  A claimed row nobody holds is invisible to every later claim.
NoOrphanClaim ==
    sched = "on" => \A p \in Paths : jobs[p].claimed =>
        \E w \in Workers : Held(w) /\ Key(w) = <<p, jobs[p].hash, jobs[p].gen>>

\* No save is lost: content that a reconcile pass had from its beginning to
\* look at, if it still is on disk, is what the view shows, or it is queued
\* under the active generation, or the path was dead-lettered.
SeenIsShownOrQueued ==
    \A p \in Paths : seen[p] = ver[p] =>
        \/ view[p].hash = Disk(p)
        \/ Queued(p) /\ jobs[p].hash = Disk(p) /\ IsActive(jobs[p].gen)
        \/ p \in dead

\* The empty-view check is a sound substitute for a registered-before flag: a
\* registered worktree has had every path planned since the last roll, though
\* the daemon may have stopped anywhere between the roll, the pass and the
\* first commits.
DoneMeansPlanned ==
    reg = "done" => \A p \in Paths : seen[p] > 0

\* Idle means fresh: with no hint pending, no pass under way, nothing queued,
\* held or dead-lettered, the view is the tree, but for changes no hint was
\* left of: those made while no watch ran or forgotten in a stop, until the
\* next pass.
Idle ==
    /\ reg = "done" /\ ~dirty /\ dead = {}
    /\ \A r \in Passes : pass[r].pc = "idle"
    /\ \A w \in Workers : ~Held(w)
    /\ \A p \in Paths : ~Queued(p)

IdleMeansFresh ==
    Idle => \A p \in Paths \ missed : view[p].hash = Disk(p)

\* The retry budget of an intent lives as long as a goroutine holds it: a later
\* save that desires the same content again starts from zero.
AttemptsOfHeld ==
    \A i \in Intents : attempts[i] > 0 => \E w \in Workers : Held(w) /\ Key(w) = i

\* Both: a claimed row and a spent budget stand for a goroutine that is there.
ClaimsAreHeld == NoOrphanClaim /\ AttemptsOfHeld

\* A delete removes a mapping only if the file has been absent since the last
\* reconcile pass began: a pass that finds it present again stops the delete.
\* A roll, which drops every mapping, is the other way to lose one.
DeleteConfirmed ==
    [][\A p \in Paths : (Indexed(p) /\ view'[p] = NoRow /\ status' = status)
          => \E v \in seen[p]..ver[p] : v > 0 /\ Script[p][v] = NoHash]_engineVars

\* The engine keeps what a search relies on (MonotoneView): never a version of
\* the future, never back to an older one.
Promise == INSTANCE MonotoneView WITH saved <- ver, shown <- shown
NeverRegresses == Promise!ViewSpec

\* Whatever went wrong before, a daemon that stays up and keeps the worktree
\* registered brings the view to the tree and holds it there: passes repair
\* what races of edits, passes and dispatches left behind.
Converges ==
    <>[](reg = "done") => <>[](\A p \in Paths : view[p].hash = Disk(p))
=============================================================================
