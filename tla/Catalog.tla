------------------------------ MODULE Catalog ------------------------------
(***************************************************************************)
(* The durable state of one repository with one worktree, as the SQLite    *)
(* catalog keeps it: the file view (worktree_files), the desired-state     *)
(* queue (index_jobs), the dead letters and the index generations.  Each   *)
(* action is one write transaction; withWriteTx serialises them, so an     *)
(* action is atomic and a crash falls between two actions.                 *)
(*                                                                         *)
(* The module says nothing of who calls.  CatalogNext lets any client run  *)
(* any transaction with any argument a caller can hold, so what is proved  *)
(* of CatalogSpec holds whatever the workers, reconcilers and processes    *)
(* that share the file do.                                                 *)
(***************************************************************************)
EXTENDS Naturals, FiniteSets

CONSTANTS
    Paths,          \* relative paths of the worktree
    Hashes,         \* content hashes a file can have
    NoHash,         \* the empty desired_hash of an OpDelete; also "not indexed"
    Fingerprints,   \* indexing fingerprints (embedder, chunker, dimensions)
    NoFingerprint,  \* of a generation that has no row
    MaxGen          \* bound: generations are 1..MaxGen

ASSUME CatalogAssumption ==
    /\ NoHash \notin Hashes
    /\ NoFingerprint \notin Fingerprints
    /\ MaxGen \in Nat \ {0}

VARIABLES
    view,     \* worktree_files: what each path resolves to
    jobs,     \* index_jobs, UNIQUE(worktree_id, relative_path)
    dead,     \* the paths that have a row in dead_letter_jobs
    status,   \* index_generations.status
    genFp     \* index_generations.fingerprint, never updated once inserted

catalogVars == <<view, jobs, dead, status, genFp>>

Gens == 1..MaxGen
Desired == Hashes \cup {NoHash}

\* A row with generation 0 is no row: generation numbers start at 1.
Row == [hash : Desired, fp : Fingerprints \cup {NoFingerprint}, gen : 0..MaxGen]
NoRow == [hash |-> NoHash, fp |-> NoFingerprint, gen |-> 0]
Job == [hash : Desired, gen : 0..MaxGen, claimed : BOOLEAN]
NoJob == [hash |-> NoHash, gen |-> 0, claimed |-> FALSE]

Indexed(p) == view[p].gen > 0
Queued(p) == jobs[p].gen > 0
ViewEmpty == \A p \in Paths : ~Indexed(p)
IsActive(g) == status[g] = "active"
NoneActive == \A g \in Gens : ~IsActive(g)

\* ActiveGeneration: the generation whose status is 'active', 0 if none is.
ActiveGen == IF NoneActive THEN 0 ELSE CHOOSE g \in Gens : IsActive(g)

CatalogInit ==
    /\ view = [p \in Paths |-> NoRow]
    /\ jobs = [p \in Paths |-> NoJob]
    /\ dead = {}
    /\ status = [g \in Gens |-> "none"]
    /\ genFp = [g \in Gens |-> NoFingerprint]

(***************************************************************************)
(* The queue                                                               *)
(***************************************************************************)

\* ON CONFLICT ... WHERE excluded.generation >= index_jobs.generation
Accepts(p, g) == g >= jobs[p].gen

UpsertKeepsClaim(plan) ==                                       \* mutant
    /\ jobs' = [p \in Paths |->
                  IF p \in DOMAIN plan /\ Accepts(p, plan[p].gen)
                  THEN [hash |-> plan[p].hash, gen |-> plan[p].gen,
                        claimed |-> jobs[p].claimed]
                  ELSE jobs[p]]
    /\ UNCHANGED <<view, dead, status, genFp>>

\* A whole reconcile plan in one transaction; plan maps some paths to the
\* intent wanted for them.  An accepted upsert replaces the row and resets
\* its claim; a plan of one path is UpsertJob.
UpsertJobs(plan) ==
    /\ jobs' = [p \in Paths |->
                  IF p \in DOMAIN plan /\ Accepts(p, plan[p].gen)
                  THEN [hash |-> plan[p].hash, gen |-> plan[p].gen, claimed |-> FALSE]
                  ELSE jobs[p]]
    /\ UNCHANGED <<view, dead, status, genFp>>

ClaimNextJob(p) ==
    /\ Queued(p)
    /\ ~jobs[p].claimed
    /\ jobs' = [jobs EXCEPT ![p].claimed = TRUE]
    /\ UNCHANGED <<view, dead, status, genFp>>

RequeueClaimedJobs ==
    /\ jobs' = [p \in Paths |-> [hash |-> jobs[p].hash, gen |-> jobs[p].gen,
                                claimed |-> FALSE]]
    /\ UNCHANGED <<view, dead, status, genFp>>

MatchesAnyHash(p, h, g) == Queued(p) /\ jobs[p].gen <= g        \* mutant

\* DELETE FROM index_jobs WHERE ... generation <= ? AND desired_hash = ?
Matches(p, h, g) == /\ Queued(p)
                    /\ jobs[p].gen <= g
                    /\ jobs[p].hash = h

\* The row is deleted only if it still is the intent that was carried out.
Complete(p, h, g) ==
    jobs' = IF Matches(p, h, g) THEN [jobs EXCEPT ![p] = NoJob] ELSE jobs

DeadLetterJob(p, h, g) ==
    /\ Complete(p, h, g)
    /\ dead' = IF Matches(p, h, g) THEN dead \cup {p} ELSE dead
    /\ UNCHANGED <<view, status, genFp>>

(***************************************************************************)
(* The view                                                                *)
(***************************************************************************)

TouchesAnyView(g) == TRUE                                       \* mutant

\* A commit switches the view only under the active generation, or before
\* any generation is active.
TouchesActiveView(g) == IsActive(g) \/ NoneActive

\* The worker read the generation's fingerprint before it built; the column
\* never changes, so the artifact carries genFp[g].
CommitUpdate(p, h, g) ==
    /\ view' = IF TouchesActiveView(g) /\ g >= view[p].gen
               THEN [view EXCEPT ![p] = [hash |-> h, fp |-> genFp[g], gen |-> g]]
               ELSE view
    /\ Complete(p, h, g)
    /\ UNCHANGED <<dead, status, genFp>>

DeleteUnguarded(p, h, g) ==                                     \* mutant
    /\ view' = IF TouchesActiveView(g) /\ view[p].gen <= g
               THEN [view EXCEPT ![p] = NoRow]
               ELSE view
    /\ Complete(p, h, g)
    /\ UNCHANGED <<dead, status, genFp>>

CommitDelete(p, h, g) ==
    /\ view' = IF Matches(p, h, g) /\ TouchesActiveView(g) /\ view[p].gen <= g
               THEN [view EXCEPT ![p] = NoRow]
               ELSE view
    /\ Complete(p, h, g)
    /\ UNCHANGED <<dead, status, genFp>>

(***************************************************************************)
(* Generations                                                             *)
(***************************************************************************)

\* INSERT OR IGNORE generation 1, then activate it if nothing is active.
EnsureActiveGeneration(f) ==
    /\ status' = [status EXCEPT ![1] = IF NoneActive THEN "active"
                                       ELSE IF @ = "none" THEN "building"
                                       ELSE @]
    /\ genFp' = [genFp EXCEPT ![1] = IF status[1] = "none" THEN f ELSE @]
    /\ UNCHANGED <<view, jobs, dead>>

\* Its callers (rollIfMismatch, Rebuild) first read the active generation's
\* fingerprint and return when there is none; the key is unique.
CreateGeneration(g, f) ==
    /\ ~NoneActive
    /\ status[g] = "none"
    /\ status' = [status EXCEPT ![g] = "building"]
    /\ genFp' = [genFp EXCEPT ![g] = f]
    /\ UNCHANGED <<view, jobs, dead>>

RollKeepsView(g) ==                                             \* mutant
    /\ ~NoneActive /\ status[g] # "none"
    /\ jobs' = [p \in Paths |-> NoJob]
    /\ status' = [h \in Gens |-> IF h = g THEN "active"
                                 ELSE IF IsActive(h) THEN "retired"
                                 ELSE status[h]]
    /\ UNCHANGED <<view, dead, genFp>>

\* The fingerprint rollover: drop view and queue and activate, in one
\* transaction.  ErrNoSuchGeneration rolls everything back.
RollWorktreeGeneration(g) ==
    /\ ~NoneActive
    /\ status[g] # "none"
    /\ view' = [p \in Paths |-> NoRow]
    /\ jobs' = [p \in Paths |-> NoJob]
    /\ status' = [h \in Gens |-> IF h = g THEN "active"
                                 ELSE IF IsActive(h) THEN "retired"
                                 ELSE status[h]]
    /\ UNCHANGED <<dead, genFp>>

(***************************************************************************)
(* Any client                                                              *)
(***************************************************************************)

\* The generations a client can hold: one it read as active, perhaps before a
\* roll.  Reconciliation plans under the active generation and a worker's
\* generation is its job's.
Served(g) == status[g] \in {"active", "retired"}
Intent == [hash : Desired, gen : {g \in Gens : Served(g)}]
Plans == UNION {[S -> Intent] : S \in SUBSET Paths}

\* An OpDelete and only an OpDelete has no hash.  rollIfMismatch scans upwards
\* from the active generation.  No daemon path drops queued jobs
\* (DeleteJobsForWorktree is the one-shot CLI's) or prunes a view row by
\* itself (DeleteWorktreeView is the importer's).
CatalogNext ==
    \/ \E plan \in Plans : UpsertJobs(plan)
    \/ \E p \in Paths : ClaimNextJob(p)
    \/ RequeueClaimedJobs
    \/ \E p \in Paths, h \in Desired, g \in Gens :
          Served(g) /\ DeadLetterJob(p, h, g)
    \/ \E p \in Paths, h \in Hashes, g \in Gens :
          Served(g) /\ CommitUpdate(p, h, g)
    \/ \E p \in Paths, g \in Gens : Served(g) /\ CommitDelete(p, NoHash, g)
    \/ \E f \in Fingerprints : EnsureActiveGeneration(f)
    \/ \E g \in Gens, f \in Fingerprints : CreateGeneration(g, f)
    \/ \E g \in Gens : g > ActiveGen /\ RollWorktreeGeneration(g)

CatalogSpec == CatalogInit /\ [][CatalogNext]_catalogVars

(***************************************************************************)
(* Properties                                                              *)
(***************************************************************************)

\* Types, and that the encoding of an absent row is never half a row.
CatalogTypeOK ==
    /\ view \in [Paths -> Row]
    /\ jobs \in [Paths -> Job]
    /\ dead \subseteq Paths
    /\ status \in [Gens -> {"none", "building", "active", "retired"}]
    /\ genFp \in [Gens -> Fingerprints \cup {NoFingerprint}]
    /\ \A p \in Paths : /\ ~Indexed(p) => view[p] = NoRow
                        /\ ~Queued(p) => jobs[p] = NoJob
    /\ \A g \in Gens : status[g] = "none" <=> genFp[g] = NoFingerprint

\* At most one generation of a repository is active, although no index of the
\* schema forbids two: every reader takes "the" active generation.
OneActive ==
    \A g, h \in Gens : IsActive(g) /\ IsActive(h) => g = h

\* Fingerprint correctness: every row the search can rank was built under the
\* active generation's fingerprint, so vectors of two embedders never mix in a
\* view, however a roll interleaves with commits that were in flight.
FingerprintCorrect ==
    \A p \in Paths : Indexed(p) => /\ IsActive(view[p].gen)
                                   /\ view[p].fp = genFp[view[p].gen]

\* A queued intent of the active generation leaves the queue only because the
\* view now shows it, because its path is on the dead-letter list, or because
\* a roll to another generation dropped the whole view with it.
KeepsIntents ==
    \A p \in Paths :
        (Queued(p) /\ jobs'[p].gen = 0 /\ IsActive(jobs[p].gen))
           => \/ view'[p].hash = jobs[p].hash
              \/ p \in dead'
              \/ status' # status

\* No save is dropped, whoever completes it.
IntentNotDropped == [][KeepsIntents]_catalogVars
=============================================================================
