------------------------- MODULE IndexEngine_proofs -------------------------
(***************************************************************************)
(* For any number of files, workers, passes, slots, stops and faults: the  *)
(* engine uses the catalog as Catalog says a client may, so the theorems   *)
(* about the catalog hold of it; no claimed job is left without a holder;  *)
(* a registered worktree has been planned since its last roll; and, under  *)
(* hypotheses that are named, what was saved reaches the view.             *)
(***************************************************************************)
EXTENDS IndexEngine, FiniteSetTheorems, WellFoundedInduction, TLAPS

(***************************************************************************)
(* The catalog, for any clients: it never has two active generations,      *)
(* never shows a row of a fingerprint other than the active one's, and     *)
(* never drops a queued intent unserved.                                   *)
(***************************************************************************)

\* Until the first generation is activated nothing exists at all; without
\* it, activating generation 1 could adopt rows of an unknown fingerprint.
EmptyUntilActive ==
    NoneActive => /\ \A g \in Gens : status[g] = "none"
                  /\ \A p \in Paths : ~Indexed(p)

\* Generations only advance: what is retired is older than what is active.
RetiredIsOlder ==
    \A g, h \in Gens : status[g] = "retired" /\ IsActive(h) => g < h

CatalogInv ==
    /\ CatalogTypeOK
    /\ OneActive
    /\ EmptyUntilActive
    /\ RetiredIsOlder
    /\ FingerprintCorrect

\* The active generation read by ActiveGeneration is active when there is one.
LEMMA ActiveGenIsActive ==
    ASSUME ~NoneActive
    PROVE  ActiveGen \in Gens /\ IsActive(ActiveGen)
  BY DEF NoneActive, ActiveGen

\* A row without a generation holds nothing, and is a well-formed row.
LEMMA NullRows ==
    /\ NoRow \in Row /\ NoRow.gen = 0 /\ NoRow.hash = NoHash
    /\ NoJob \in Job /\ NoJob.gen = 0
  BY CatalogAssumption DEF NoRow, Row, NoJob, Job, Desired

\* Completing a job leaves a well-formed queue whoever completes it.
LEMMA CompleteKeepsQueue ==
    ASSUME CatalogTypeOK, NEW p \in Paths, NEW h \in Desired, NEW g \in Gens,
           Complete(p, h, g)
    PROVE  /\ jobs' \in [Paths -> Job]
           /\ \A q \in Paths : jobs'[q].gen <= 0 => jobs'[q] = NoJob
  BY NullRows DEF Complete, CatalogTypeOK, Queued, Job, Gens

\* An empty catalog satisfies the invariant.
LEMMA InitInv == CatalogInit => CatalogInv
  BY NullRows, CatalogAssumption
  DEF CatalogInit, CatalogInv, CatalogTypeOK, OneActive, EmptyUntilActive,
      RetiredIsOlder, FingerprintCorrect, NoneActive, IsActive, Indexed, Queued, Gens

\* A plan changes the queue only: the upsert leaves view and generations alone.
LEMMA UpsertJobsInv ==
    ASSUME CatalogInv, NEW plan \in Plans, UpsertJobs(plan)
    PROVE  CatalogInv'
  <1>1. \A q \in DOMAIN plan : plan[q].hash \in Desired /\ plan[q].gen \in Gens
    BY DEF Plans, Intent
  <1>2. CatalogTypeOK'
    BY <1>1, CatalogAssumption
    DEF CatalogInv, CatalogTypeOK, UpsertJobs, Job, Gens, Queued, Indexed
  <1> QED
    BY <1>2 DEF CatalogInv, UpsertJobs, OneActive, EmptyUntilActive,
                RetiredIsOlder, FingerprintCorrect, NoneActive, IsActive, Indexed

\* A claim changes nothing but the claim of a queued row.
LEMMA ClaimNextJobInv ==
    ASSUME CatalogInv, NEW p \in Paths, ClaimNextJob(p)
    PROVE  CatalogInv'
  <1>1. CatalogTypeOK'
    BY DEF CatalogInv, CatalogTypeOK, ClaimNextJob, Job, Queued, Indexed
  <1> QED
    BY <1>1 DEF CatalogInv, ClaimNextJob, OneActive, EmptyUntilActive,
                RetiredIsOlder, FingerprintCorrect, NoneActive, IsActive, Indexed

\* Recovery releases claims and changes no intent.
LEMMA RequeueClaimedJobsInv ==
    ASSUME CatalogInv, RequeueClaimedJobs
    PROVE  CatalogInv'
  <1>1. ASSUME NEW q \in Paths
        PROVE  /\ jobs'[q] \in Job /\ jobs'[q].gen = jobs[q].gen
               /\ jobs[q] = NoJob => jobs'[q] = NoJob
    <2>1. /\ jobs[q] \in Job
          /\ jobs'[q] = [hash |-> jobs[q].hash, gen |-> jobs[q].gen, claimed |-> FALSE]
      BY DEF CatalogInv, CatalogTypeOK, RequeueClaimedJobs
    <2>2. jobs'[q] \in Job /\ jobs'[q].gen = jobs[q].gen
      BY <2>1 DEF Job
    <2>3. jobs[q] = NoJob => jobs'[q] = NoJob
      BY <2>1 DEF NoJob
    <2> QED
      BY <2>2, <2>3
  <1>2. CatalogTypeOK'
    BY <1>1 DEF CatalogInv, CatalogTypeOK, RequeueClaimedJobs, Queued, Indexed
  <1> QED
    BY <1>2 DEF CatalogInv, RequeueClaimedJobs, OneActive, EmptyUntilActive,
                RetiredIsOlder, FingerprintCorrect, NoneActive, IsActive, Indexed

\* A dead-lettered job leaves the queue and touches no view row.
LEMMA DeadLetterJobInv ==
    ASSUME CatalogInv, NEW p \in Paths, NEW h \in Desired, NEW g \in Gens,
           DeadLetterJob(p, h, g)
    PROVE  CatalogInv'
  <1>1. CatalogTypeOK'
    BY CompleteKeepsQueue
    DEF CatalogInv, CatalogTypeOK, DeadLetterJob, Job, Queued, Indexed
  <1> QED
    BY <1>1 DEF CatalogInv, DeadLetterJob, OneActive, EmptyUntilActive,
                RetiredIsOlder, FingerprintCorrect, NoneActive, IsActive, Indexed

\* A commit of a generation a client can hold touches the view only under the
\* active generation: nobody holds a generation before one is active.
LEMMA TouchIsActive ==
    ASSUME CatalogInv, NEW g \in Gens, Served(g), TouchesActiveView(g)
    PROVE  IsActive(g)
  BY DEF CatalogInv, EmptyUntilActive, Served, TouchesActiveView

\* A late commit of a retired generation leaves the view alone; one of the
\* active generation writes that generation and its fingerprint.
LEMMA CommitUpdateInv ==
    ASSUME CatalogInv, NEW p \in Paths, NEW h \in Hashes, NEW g \in Gens,
           Served(g), CommitUpdate(p, h, g)
    PROVE  CatalogInv'
  <1> DEFINE new == [hash |-> h, fp |-> genFp[g], gen |-> g]
  <1>1. new \in Row /\ new.gen > 0
    BY CatalogAssumption DEF CatalogInv, CatalogTypeOK, Row, Desired, Gens
  <1>2. \A q \in Paths : view'[q] = view[q] \/ (view'[q] = new /\ IsActive(g))
    BY TouchIsActive DEF CommitUpdate, CatalogInv, CatalogTypeOK
  <1>3. view' \in [Paths -> Row]
    BY <1>1 DEF CommitUpdate, CatalogInv, CatalogTypeOK
  <1>4. CatalogTypeOK'
    <2>1. \A q \in Paths : ~(view'[q].gen > 0) => view'[q] = NoRow
      BY <1>1, <1>2 DEF CatalogInv, CatalogTypeOK, Indexed
    <2>2. /\ jobs' \in [Paths -> Job]
          /\ \A q \in Paths : ~(jobs'[q].gen > 0) => jobs'[q] = NoJob
      BY CompleteKeepsQueue, CatalogAssumption
      DEF CommitUpdate, CatalogInv, Desired, Job
    <2> QED
      BY <1>3, <2>1, <2>2 DEF CommitUpdate, CatalogInv, CatalogTypeOK, Indexed, Queued
  <1>5. OneActive' /\ RetiredIsOlder'
    BY DEF CatalogInv, CommitUpdate, OneActive, RetiredIsOlder, IsActive
  <1>6. EmptyUntilActive'
    BY DEF CatalogInv, CommitUpdate, EmptyUntilActive, NoneActive, IsActive, Served
  <1>7. FingerprintCorrect'
    BY <1>2 DEF CatalogInv, CommitUpdate, FingerprintCorrect, IsActive, Indexed
  <1> QED
    BY <1>4, <1>5, <1>6, <1>7 DEF CatalogInv

\* A delete makes a row absent or leaves it as it is.
LEMMA CommitDeleteInv ==
    ASSUME CatalogInv, NEW p \in Paths, NEW g \in Gens,
           Served(g), CommitDelete(p, NoHash, g)
    PROVE  CatalogInv'
  <1>1. \A q \in Paths : view'[q] = view[q] \/ view'[q] = NoRow
    BY DEF CommitDelete, CatalogInv, CatalogTypeOK
  <1>2. CatalogTypeOK'
    <2>1. view' \in [Paths -> Row]
      BY NullRows DEF CommitDelete, CatalogInv, CatalogTypeOK
    <2>2. /\ jobs' \in [Paths -> Job]
          /\ \A q \in Paths : ~(jobs'[q].gen > 0) => jobs'[q] = NoJob
      BY CompleteKeepsQueue, CatalogAssumption
      DEF CommitDelete, CatalogInv, Desired, Job
    <2> QED
      BY <1>1, <2>1, <2>2 DEF CommitDelete, CatalogInv, CatalogTypeOK, Indexed, Queued
  <1>3. OneActive' /\ RetiredIsOlder'
    BY DEF CatalogInv, CommitDelete, OneActive, RetiredIsOlder, IsActive
  <1>4. EmptyUntilActive'
    BY DEF CatalogInv, CommitDelete, EmptyUntilActive, NoneActive, IsActive, Served
  <1>5. FingerprintCorrect'
    BY <1>1, NullRows
    DEF CatalogInv, CommitDelete, FingerprintCorrect, IsActive, Indexed
  <1> QED
    BY <1>2, <1>3, <1>4, <1>5 DEF CatalogInv

\* Register activates generation 1 only if nothing is active; a second call
\* changes nothing.
LEMMA EnsureActiveGenerationInv ==
    ASSUME CatalogInv, NEW f \in Fingerprints, EnsureActiveGeneration(f)
    PROVE  CatalogInv'
  <1>1. 1 \in Gens
    BY CatalogAssumption DEF Gens
  <1>2. \A g \in Gens : g # 1 => status'[g] = status[g] /\ genFp'[g] = genFp[g]
    BY <1>1 DEF CatalogInv, CatalogTypeOK, EnsureActiveGeneration
  <1>3. /\ status'[1] \in {"none", "building", "active", "retired"} /\ status'[1] # "none"
        /\ genFp'[1] = IF status[1] = "none" THEN f ELSE genFp[1]
        /\ status'[1] = "active" <=> NoneActive \/ status[1] = "active"
        /\ status'[1] = "retired" => status[1] = "retired"
    BY <1>1 DEF CatalogInv, CatalogTypeOK, EnsureActiveGeneration, NoneActive, IsActive
  <1>4. CatalogTypeOK'
    BY <1>1, <1>2, <1>3, CatalogAssumption
    DEF CatalogInv, CatalogTypeOK, EnsureActiveGeneration, Indexed, Queued
  <1>5. OneActive' /\ RetiredIsOlder' /\ EmptyUntilActive'
    BY <1>1, <1>2, <1>3
    DEF CatalogInv, OneActive, RetiredIsOlder, EmptyUntilActive, NoneActive, IsActive
  <1>6. FingerprintCorrect'
    <2>1. CASE NoneActive
      BY <2>1 DEF CatalogInv, EmptyUntilActive, FingerprintCorrect,
                  EnsureActiveGeneration, Indexed
    <2>2. CASE ~NoneActive
      <3> SUFFICES ASSUME NEW p \in Paths, Indexed(p)
                   PROVE  IsActive(view[p].gen)' /\ view[p].fp = genFp'[view[p].gen]
        BY DEF FingerprintCorrect, EnsureActiveGeneration, Indexed, IsActive
      <3>1. view[p].gen \in Gens /\ IsActive(view[p].gen) /\ view[p].fp = genFp[view[p].gen]
        BY DEF CatalogInv, FingerprintCorrect, CatalogTypeOK, Row, Gens, Indexed
      <3> QED
        BY <1>2, <1>3, <3>1 DEF IsActive, EnsureActiveGeneration
    <2> QED
      BY <2>1, <2>2
  <1> QED
    BY <1>4, <1>5, <1>6 DEF CatalogInv

\* A created generation is not active, so the view does not see it.
LEMMA CreateGenerationInv ==
    ASSUME CatalogInv, NEW g \in Gens, NEW f \in Fingerprints, CreateGeneration(g, f)
    PROVE  CatalogInv'
  <1>1. \A h \in Gens : h # g => status'[h] = status[h] /\ genFp'[h] = genFp[h]
    BY DEF CatalogInv, CatalogTypeOK, CreateGeneration
  <1>2. status[g] = "none" /\ status'[g] = "building" /\ genFp'[g] = f
    BY DEF CatalogInv, CatalogTypeOK, CreateGeneration
  <1>3. CatalogTypeOK'
    BY <1>1, <1>2, CatalogAssumption
    DEF CatalogInv, CatalogTypeOK, CreateGeneration, Indexed, Queued
  <1>4. OneActive' /\ RetiredIsOlder' /\ EmptyUntilActive'
    BY <1>1, <1>2
    DEF CatalogInv, CreateGeneration, OneActive, RetiredIsOlder, EmptyUntilActive,
        NoneActive, IsActive
  <1>5. FingerprintCorrect'
    <2> SUFFICES ASSUME NEW p \in Paths, Indexed(p)
                 PROVE  IsActive(view[p].gen)' /\ view[p].fp = genFp'[view[p].gen]
      BY DEF FingerprintCorrect, CreateGeneration, Indexed, IsActive
    <2>1. view[p].gen \in Gens /\ IsActive(view[p].gen) /\ view[p].fp = genFp[view[p].gen]
      BY DEF CatalogInv, FingerprintCorrect, CatalogTypeOK, Row, Gens, Indexed
    <2> QED
      BY <1>1, <1>2, <2>1 DEF IsActive, CreateGeneration
  <1> QED
    BY <1>3, <1>4, <1>5 DEF CatalogInv

\* The roll swaps the active generation and empties the view in one step, so
\* no row of the old generation survives it.
LEMMA RollWorktreeGenerationInv ==
    ASSUME CatalogInv, NEW g \in Gens, g > ActiveGen, RollWorktreeGeneration(g)
    PROVE  CatalogInv'
  <1>1. /\ status'[g] = "active" /\ status[g] # "none"
        /\ \A h \in Gens : h # g =>
              status'[h] = IF status[h] = "active" THEN "retired" ELSE status[h]
    BY DEF RollWorktreeGeneration, IsActive
  <1>2. \A h \in Gens : status[h] \in {"active", "retired"} => h < g
    <2> SUFFICES ASSUME NEW h \in Gens, status[h] \in {"active", "retired"}
                 PROVE  h < g
      OBVIOUS
    <2>1. ActiveGen \in Gens /\ IsActive(ActiveGen)
      BY ActiveGenIsActive DEF RollWorktreeGeneration
    <2>2. h <= ActiveGen
      BY <2>1 DEF CatalogInv, OneActive, RetiredIsOlder, IsActive, Gens
    <2> QED
      BY <2>1, <2>2 DEF Gens
  <1>3. \A p \in Paths : view'[p] = NoRow /\ jobs'[p] = NoJob
    BY DEF RollWorktreeGeneration
  <1>4. CatalogTypeOK'
    <2>1. view' \in [Paths -> Row] /\ jobs' \in [Paths -> Job]
      BY NullRows DEF RollWorktreeGeneration
    <2>2. status' \in [Gens -> {"none", "building", "active", "retired"}]
      BY DEF RollWorktreeGeneration, CatalogInv, CatalogTypeOK
    <2>3. \A h \in Gens : status'[h] = "none" <=> status[h] = "none"
      BY <1>1
    <2> QED
      BY <1>3, <2>1, <2>2, <2>3
      DEF CatalogInv, CatalogTypeOK, RollWorktreeGeneration, Indexed, Queued
  <1>5. OneActive' /\ EmptyUntilActive'
    BY <1>1 DEF OneActive, EmptyUntilActive, NoneActive, IsActive
  <1>6. RetiredIsOlder'
    BY <1>1, <1>2 DEF RetiredIsOlder, IsActive
  <1>7. FingerprintCorrect'
    BY <1>3, NullRows DEF FingerprintCorrect, Indexed
  <1> QED
    BY <1>4, <1>5, <1>6, <1>7 DEF CatalogInv

\* Every transaction, and every step that is none, preserves the invariant.
LEMMA StepInv == CatalogInv /\ [CatalogNext]_catalogVars => CatalogInv'
  <1> SUFFICES ASSUME CatalogInv, [CatalogNext]_catalogVars
               PROVE  CatalogInv'
    OBVIOUS
  <1>1. ASSUME NEW plan \in Plans, UpsertJobs(plan)
        PROVE  CatalogInv'
    BY <1>1, UpsertJobsInv
  <1>2. ASSUME NEW p \in Paths, ClaimNextJob(p)
        PROVE  CatalogInv'
    BY <1>2, ClaimNextJobInv
  <1>3. CASE RequeueClaimedJobs
    BY <1>3, RequeueClaimedJobsInv
  <1>4. ASSUME NEW p \in Paths, NEW h \in Desired, NEW g \in Gens, DeadLetterJob(p, h, g)
        PROVE  CatalogInv'
    BY <1>4, DeadLetterJobInv
  <1>5. ASSUME NEW p \in Paths, NEW h \in Hashes, NEW g \in Gens,
               Served(g), CommitUpdate(p, h, g)
        PROVE  CatalogInv'
    BY <1>5, CommitUpdateInv
  <1>6. ASSUME NEW p \in Paths, NEW g \in Gens, Served(g), CommitDelete(p, NoHash, g)
        PROVE  CatalogInv'
    BY <1>6, CommitDeleteInv
  <1>7. ASSUME NEW f \in Fingerprints, EnsureActiveGeneration(f)
        PROVE  CatalogInv'
    BY <1>7, EnsureActiveGenerationInv
  <1>8. ASSUME NEW g \in Gens, NEW f \in Fingerprints, CreateGeneration(g, f)
        PROVE  CatalogInv'
    BY <1>8, CreateGenerationInv
  <1>9. ASSUME NEW g \in Gens, g > ActiveGen, RollWorktreeGeneration(g)
        PROVE  CatalogInv'
    BY <1>9, RollWorktreeGenerationInv
  <1>10. CASE UNCHANGED catalogVars
    BY <1>10
    DEF catalogVars, CatalogInv, CatalogTypeOK, OneActive, EmptyUntilActive, RetiredIsOlder,
        FingerprintCorrect, NoneActive, IsActive, Indexed, Queued
  <1> QED
    BY <1>1, <1>2, <1>3, <1>4, <1>5, <1>6, <1>7, <1>8, <1>9, <1>10 DEF CatalogNext

\* The invariant holds along every behaviour of any clients.
THEOREM CatalogInvariant == CatalogSpec => []CatalogInv
  BY InitInv, StepInv, PTL DEF CatalogSpec

\* An absent row is never half a row, whatever the clients do.
THEOREM CatalogTypes == CatalogSpec => []CatalogTypeOK
  BY CatalogInvariant, PTL DEF CatalogInv

\* Nothing but the order of the transactions keeps a repository to one active
\* generation: the schema has no constraint that would.
THEOREM OneActiveGeneration == CatalogSpec => []OneActive
  BY CatalogInvariant, PTL DEF CatalogInv

\* A roll and the commits in flight can interleave in any way: a row of the
\* view is of the active generation, and so of its fingerprint.
THEOREM ViewHasActiveFingerprint == CatalogSpec => []FingerprintCorrect
  BY CatalogInvariant, PTL DEF CatalogInv

(***************************************************************************)
(* No intent is dropped                                                    *)
(***************************************************************************)

\* Whoever completes an intent of the active generation does it under that
\* generation: an older one does not match, a newer one does not exist.
LEMMA MatchIsActive ==
    ASSUME CatalogInv, NEW p \in Paths, NEW h \in Desired, NEW g \in Gens,
           Served(g), Matches(p, h, g), IsActive(jobs[p].gen)
    PROVE  g = jobs[p].gen /\ IsActive(g)
  <1>1. jobs[p].gen \in Gens /\ jobs[p].gen <= g
    BY DEF Matches, CatalogInv, CatalogTypeOK, Job, Queued, Gens
  <1>2. CASE status[g] = "active"
    BY <1>1, <1>2 DEF CatalogInv, OneActive, IsActive
  <1>3. CASE status[g] = "retired"
    BY <1>1, <1>3 DEF CatalogInv, RetiredIsOlder, Gens
  <1> QED
    BY <1>2, <1>3 DEF Served

\* The active generation is at least as new as any row of the view.
LEMMA ActiveIsNewest ==
    ASSUME CatalogInv, NEW p \in Paths, NEW g \in Gens, IsActive(g)
    PROVE  g >= view[p].gen
  BY DEF CatalogInv, CatalogTypeOK, FingerprintCorrect, OneActive, Indexed, Row, Gens

\* A completed intent left the queue because its row matched.
LEMMA CompletedMatched ==
    ASSUME CatalogInv, NEW p \in Paths, NEW q \in Paths, NEW h, NEW g,
           Complete(p, h, g), Queued(q), jobs'[q].gen = 0
    PROVE  q = p /\ Matches(p, h, g) /\ h = jobs[p].hash
  BY DEF Complete, CatalogInv, CatalogTypeOK, Queued, Matches

\* A queued intent of the active generation leaves the queue only because the
\* view shows it, it was dead-lettered, or the whole generation was rolled.
THEOREM NoIntentDropped == CatalogSpec => IntentNotDropped
  <1>1. CatalogInv /\ CatalogNext => KeepsIntents
    <2> SUFFICES ASSUME CatalogInv, CatalogNext, NEW q \in Paths,
                        Queued(q), jobs'[q].gen = 0, IsActive(jobs[q].gen)
                 PROVE  \/ view'[q].hash = jobs[q].hash
                        \/ q \in dead'
                        \/ status' # status
      BY DEF KeepsIntents
    <2>1. ASSUME NEW plan \in Plans, UpsertJobs(plan)
          PROVE  FALSE
      BY <2>1 DEF UpsertJobs, Plans, Intent, Gens, Queued
    <2>2. ASSUME NEW p \in Paths, ClaimNextJob(p)
          PROVE  FALSE
      BY <2>2 DEF ClaimNextJob, CatalogInv, CatalogTypeOK, Job, Queued
    <2>3. CASE RequeueClaimedJobs
      BY <2>3 DEF RequeueClaimedJobs, Queued
    <2>4. ASSUME NEW p \in Paths, NEW h \in Desired, NEW g \in Gens, DeadLetterJob(p, h, g)
          PROVE  q \in dead'
      BY <2>4, CompletedMatched DEF DeadLetterJob
    <2>5. ASSUME NEW p \in Paths, NEW h \in Hashes, NEW g \in Gens,
                 Served(g), CommitUpdate(p, h, g)
          PROVE  view'[q].hash = jobs[q].hash
      <3>1. q = p /\ Matches(p, h, g) /\ h = jobs[p].hash
        BY <2>5, CompletedMatched DEF CommitUpdate
      <3>2. IsActive(g) /\ g >= view[p].gen
        BY <2>5, <3>1, MatchIsActive, ActiveIsNewest DEF Desired
      <3> QED
        BY <2>5, <3>1, <3>2
        DEF CommitUpdate, TouchesActiveView, CatalogInv, CatalogTypeOK
    <2>6. ASSUME NEW p \in Paths, NEW g \in Gens, Served(g), CommitDelete(p, NoHash, g)
          PROVE  view'[q].hash = jobs[q].hash
      <3>1. q = p /\ Matches(p, NoHash, g) /\ NoHash = jobs[p].hash
        BY <2>6, CompletedMatched DEF CommitDelete
      <3>2. IsActive(g) /\ g >= view[p].gen
        BY <2>6, <3>1, MatchIsActive, ActiveIsNewest DEF Desired
      <3>3. view[p].gen <= g
        BY <3>2 DEF CatalogInv, CatalogTypeOK, Row, Gens
      <3> QED
        BY <2>6, <3>1, <3>2, <3>3, NullRows
        DEF CommitDelete, TouchesActiveView, CatalogInv, CatalogTypeOK
    <2>7. ASSUME NEW f \in Fingerprints, EnsureActiveGeneration(f)
          PROVE  FALSE
      BY <2>7 DEF EnsureActiveGeneration, Queued
    <2>8. ASSUME NEW g \in Gens, NEW f \in Fingerprints, CreateGeneration(g, f)
          PROVE  FALSE
      BY <2>8 DEF CreateGeneration, Queued
    <2>9. ASSUME NEW g \in Gens, g > ActiveGen, RollWorktreeGeneration(g)
          PROVE  status' # status
      <3>1. ActiveGen \in Gens /\ IsActive(ActiveGen) /\ ActiveGen # g
        BY <2>9, ActiveGenIsActive DEF RollWorktreeGeneration, Gens
      <3>2. status[g] # "active" /\ status'[g] = "active"
        BY <2>9, <3>1 DEF RollWorktreeGeneration, CatalogInv, OneActive, IsActive
      <3> QED
        BY <3>2
    <2> QED
      BY <2>1, <2>2, <2>3, <2>4, <2>5, <2>6, <2>7, <2>8, <2>9 DEF CatalogNext
  <1>2. CatalogInv /\ [CatalogNext]_catalogVars => [KeepsIntents]_catalogVars
    BY <1>1
  <1> QED
    BY <1>2, CatalogInvariant, PTL DEF CatalogSpec, IntentNotDropped

(***************************************************************************)
(* What the engine's variables hold                                        *)
(***************************************************************************)

\* Types, without the history of what was shown.
EngineTypes ==
    /\ ver \in [Paths -> Nat] /\ \A p \in Paths : ver[p] \in DOMAIN Script[p]
    /\ daemonFp \in Fingerprints \cup {NoFingerprint}
    /\ reg \in {"absent", "ensure", "scan", "roll", "check", "pass", "done", "failed"}
    /\ reg # "absent" => daemonFp \in Fingerprints
    /\ sched \in {"off", "on", "unrecovered"}
    /\ pass \in [Passes -> Pass]
    /\ \A r \in Passes, p \in Paths : pass[r].truth[p] > 0 => pass[r].truth[p] \in DOMAIN Script[p]
    /\ work \in [Workers -> Work]
    /\ \A w \in Workers : Held(w) => work[w].path \in Paths /\ work[w].gen \in Gens
    /\ attempts \in [Intents -> Nat]

\* Every generation the engine holds has been served: no job, no dispatch and
\* no pass is of a generation that is still to be activated.
OnlyServed ==
    /\ \A w \in Workers : Held(w) => Served(work[w].gen)
    /\ \A r \in Passes : pass[r].pc # "idle" => pass[r].gen \in Gens /\ Served(pass[r].gen)
    /\ \A p \in Paths : Queued(p) => Served(jobs[p].gen)

\* What the scan found is still there when the roll comes.
SlotFound == reg = "roll" => \E g \in Gens : IsSlot(g)

\* EnsureActiveGeneration leaves an active generation behind, for good.
EnsuredActive == reg \in {"scan", "roll", "check", "pass", "done"} => ~NoneActive

EngineInv == CatalogInv /\ EngineTypes /\ OnlyServed /\ EnsuredActive /\ SlotFound

\* An empty hand is a well-formed one.
LEMMA NullWork == NoWork \in Work /\ NoWork.pc = "idle"
  BY CatalogAssumption DEF NoWork, Work, WorkerPC, Slotted, Desired

\* An idle pass is a well-formed one.
LEMMA NullPass == NoPass \in Pass /\ NoPass.pc = "idle"
                  /\ \A p \in Paths : NoPass.truth[p] = 0
  BY CatalogAssumption DEF NoPass, Pass, Desired

\* What is on disk is a content or nothing.
LEMMA DiskIsDesired ==
    ASSUME NEW p \in Paths, NEW v \in DOMAIN Script[p]
    PROVE  Script[p][v] \in Desired /\ v \in Nat /\ v > 0
  <1>1. Script[p] \in Seq(Desired)
    BY EngineAssumption
  <1> QED
    BY <1>1

\* A key of a held job indexes the attempts.
LEMMA KeyIsIntent ==
    ASSUME EngineTypes, NEW w \in Workers, Held(w)
    PROVE  Key(w) \in Intents
  BY DEF EngineTypes, Key, Intents, Work

\* The steps of the daemon's registration.
DaemonStep ==
    \/ \E f \in Fingerprints : Start(f)
    \/ RegisterStep \/ RegisterAgain \/ Recover \/ RecoverFails

\* The daemon moves through its registration and holds a fingerprint as long
\* as it has not stopped.
LEMMA DaemonTypes ==
    ASSUME EngineTypes, DaemonStep
    PROVE  EngineTypes'
  BY DEF DaemonStep, RegisterStep, Start, Register, FingerprintMatches, FindSlot, Roll,
     CheckView, RegisterFails, RegisterAgain, Recover, RecoverFails, EngineTypes, Held,
     workVars, Up

\* An edit moves to the next version, if there is one.
LEMMA EditTypes ==
    ASSUME EngineTypes, NEW p \in Paths, Edit(p)
    PROVE  EngineTypes'
  <1>1. Script[p] \in Seq(Desired)
    BY EngineAssumption
  <1>2. ver[p] \in DOMAIN Script[p] /\ ver[p] < Len(Script[p])
    BY DEF EngineTypes, Edit
  <1>3. ver[p] + 1 \in DOMAIN Script[p] /\ ver[p] + 1 \in Nat
    BY <1>1, <1>2
  <1>4. ver' \in [Paths -> Nat] /\ \A q \in Paths : ver'[q] \in DOMAIN Script[q]
    BY <1>3 DEF EngineTypes, Edit
  <1> QED
    BY <1>4 DEF EngineTypes, Edit, Held, workVars

\* A stop forgets everything that is not in the catalog.
LEMMA StopTypes ==
    ASSUME EngineTypes, Stop
    PROVE  EngineTypes'
  <1>1. work' \in [Workers -> Work] /\ \A w \in Workers : ~Held(w)'
    BY NullWork DEF Stop, Held
  <1>2. /\ pass' \in [Passes -> Pass]
        /\ \A r \in Passes, p \in Paths : pass'[r].truth[p] = 0
    BY NullPass DEF Stop
  <1>3. attempts' \in [Intents -> Nat]
    BY DEF Stop, NoAttempts
  <1>4. /\ ver' = ver /\ daemonFp' = NoFingerprint
        /\ reg' = "absent" /\ sched' = "off"
    BY DEF Stop
  <1>5. \A r \in Passes, p \in Paths :
           pass'[r].truth[p] > 0 => pass'[r].truth[p] \in DOMAIN Script[p]
    BY <1>2
  <1>6. \A w \in Workers : Held(w)' => work'[w].path \in Paths /\ work'[w].gen \in Gens
    BY <1>1
  <1> QED
    BY <1>1, <1>2, <1>3, <1>4, <1>5, <1>6 DEF EngineTypes

\* A pass holds the generation it began with and what it has read since.
LEMMA PassTypes ==
    ASSUME CatalogInv, EngineTypes, NEW r \in Passes, BeginPass(r) \/ PassStep(r)
    PROVE  EngineTypes'
  <1>1. ASSUME NEW q \in Pass,
               \A p \in Paths : q.truth[p] > 0 => q.truth[p] \in DOMAIN Script[p],
               pass' = [pass EXCEPT ![r] = q]
        PROVE  /\ pass' \in [Passes -> Pass]
               /\ \A s \in Passes, p \in Paths :
                     pass'[s].truth[p] > 0 => pass'[s].truth[p] \in DOMAIN Script[p]
    BY <1>1 DEF EngineTypes
  <1>2. /\ pass[r] \in Pass
        /\ \A p \in Paths : pass[r].truth[p] > 0 => pass[r].truth[p] \in DOMAIN Script[p]
    BY DEF EngineTypes
  <1>3. CASE BeginPass(r)
    <2> DEFINE q == [pass[r] EXCEPT !.pc = "index", !.gen = ActiveGen, !.began = ver]
    <2>1. ActiveGen \in 0..MaxGen /\ ver \in [Paths -> Nat]
      BY <1>3, ActiveGenIsActive DEF BeginPass, Gens, EngineTypes
    <2>2. q \in Pass /\ q.truth = pass[r].truth
      BY <1>2, <2>1 DEF Pass
    <2>3. pass' = [pass EXCEPT ![r] = q]
      BY <1>3 DEF BeginPass, EngineTypes
    <2> HIDE DEF q
    <2>4. /\ pass' \in [Passes -> Pass]
          /\ \A s \in Passes, p \in Paths :
                pass'[s].truth[p] > 0 => pass'[s].truth[p] \in DOMAIN Script[p]
      BY <1>1, <1>2, <2>2, <2>3
    <2> QED
      BY <1>3, <2>4 DEF BeginPass, EngineTypes, Held, workVars
  <1>4. CASE ReadIndex(r)
    <2> DEFINE q == [pass[r] EXCEPT !.pc = "truth", !.indexed = [p \in Paths |-> view[p].hash]]
    <2>1. \A p \in Paths : view[p].hash \in Desired
      BY DEF CatalogInv, CatalogTypeOK, Row
    <2>2. q \in Pass /\ q.truth = pass[r].truth
      BY <1>2, <2>1 DEF Pass
    <2>3. pass' = [pass EXCEPT ![r] = q]
      BY <1>4 DEF ReadIndex, EngineTypes
    <2> HIDE DEF q
    <2>4. /\ pass' \in [Passes -> Pass]
          /\ \A s \in Passes, p \in Paths :
                pass'[s].truth[p] > 0 => pass'[s].truth[p] \in DOMAIN Script[p]
      BY <1>1, <1>2, <2>2, <2>3
    <2> QED
      BY <1>4, <2>4 DEF ReadIndex, EngineTypes, Held, workVars, daemonVars
  <1>5. ASSUME NEW p \in Paths, ReadTruth(r, p)
        PROVE  EngineTypes'
    <2> DEFINE q == [pass[r] EXCEPT !.truth = [pass[r].truth EXCEPT ![p] = ver[p]]]
    <2>1. pass[r].truth \in [Paths -> Nat] /\ ver[p] \in Nat /\ ver[p] \in DOMAIN Script[p]
      BY <1>2 DEF EngineTypes, Pass
    <2>2. q \in Pass /\ q.truth = [pass[r].truth EXCEPT ![p] = ver[p]]
      BY <1>2, <2>1 DEF Pass
    <2>3. \A s \in Paths : q.truth[s] > 0 => q.truth[s] \in DOMAIN Script[s]
      BY <1>2, <2>1, <2>2
    <2>4. pass' = [pass EXCEPT ![r] = q]
      BY <1>5 DEF ReadTruth, EngineTypes
    <2> HIDE DEF q
    <2>5. /\ pass' \in [Passes -> Pass]
          /\ \A s \in Passes, u \in Paths :
                pass'[s].truth[u] > 0 => pass'[s].truth[u] \in DOMAIN Script[u]
      BY <1>1, <2>2, <2>3, <2>4
    <2> QED
      BY <1>5, <2>5 DEF ReadTruth, EngineTypes, Held, workVars, daemonVars
  <1>6. CASE EnqueuePlan(r)
    BY <1>6, NullPass DEF EnqueuePlan, EngineTypes, Held, workVars
  <1>7. CASE AbortPass(r)
    BY <1>7, NullPass DEF AbortPass, EngineTypes, Held, workVars
  <1> QED
    BY <1>3, <1>4, <1>5, <1>6, <1>7 DEF PassStep

\* A goroutine takes up a queued job and holds it, whatever its outcome, until
\* it is finished.
LEMMA WorkTypes ==
    ASSUME CatalogInv, EngineTypes, NEW w \in Workers,
           WorkerStep(w) \/ Redispatch(w) \/ \E p \in Paths : Claim(w, p)
    PROVE  EngineTypes'
  <1>1. Held(w) => Key(w) \in Intents
    BY KeyIsIntent
  <1>2. ASSUME NEW p \in Paths, Claim(w, p)
        PROVE  EngineTypes'
    BY <1>2 DEF Claim, ClaimNextJob, EngineTypes, Held, daemonVars, Work, WorkerPC, Slotted,
       CatalogInv, CatalogTypeOK, Job, Queued, Gens
  <1>3. ASSUME Held(w), NEW pc \in WorkerPC, GoTo(w, pc), UNCHANGED <<daemonVars, pass, ver>>,
               attempts' \in [Intents -> Nat]
        PROVE  EngineTypes'
    BY <1>3 DEF GoTo, EngineTypes, Held, daemonVars, Work
  <1>4. ASSUME Held(w), Finish(w), UNCHANGED <<daemonVars, pass, ver>>
        PROVE  EngineTypes'
    BY <1>1, <1>4, NullWork DEF Finish, EngineTypes, Held, daemonVars
  <1>5. attempts \in [Intents -> Nat]
    BY DEF EngineTypes
  <1>6. CASE PreCheck(w)
    BY <1>3, <1>4, <1>5, <1>6 DEF PreCheck, Held, WorkerPC, Slotted
  <1>7. CASE Load(w) \/ Build(w) \/ Redispatch(w) \/ Permanent(w) \/ TerminateFails(w)
    BY <1>3, <1>5, <1>7 DEF Load, Build, Redispatch, Permanent, TerminateFails, Held, WorkerPC, Slotted
  <1>8. CASE PostCheck(w)
    BY <1>3, <1>4, <1>5, <1>8 DEF PostCheck, Held, WorkerPC, Slotted
  <1>9. CASE Commit(w)
    BY <1>4, <1>9 DEF Commit, Held
  <1>10. CASE Transient(w)
    <2>1. Held(w)
      BY <1>10 DEF Transient, Held, Slotted
    <2>2. attempts[Key(w)] + 1 \in Nat
      BY <1>1, <1>5, <2>1
    <2> QED
      BY <1>1, <1>3, <1>5, <1>10, <2>1, <2>2 DEF Transient, WorkerPC, Slotted
  <1>11. CASE Terminate(w)
    BY <1>4, <1>11 DEF Terminate, Held
  <1> QED
    BY <1>2, <1>6, <1>7, <1>8, <1>9, <1>10, <1>11 DEF WorkerStep

\* An engine step keeps the types.
LEMMA StepTypes ==
    ASSUME EngineInv, EngineNext
    PROVE  EngineTypes'
  <1> USE DEF EngineInv
  <1>1. ASSUME NEW p \in Paths, Edit(p)
        PROVE  EngineTypes'
    BY <1>1, EditTypes
  <1>2. CASE Stop
    BY <1>2, StopTypes
  <1>3. CASE DaemonStep
    BY <1>3, DaemonTypes
  <1>4. ASSUME NEW r \in Passes, BeginPass(r) \/ PassStep(r)
        PROVE  EngineTypes'
    BY <1>4, PassTypes
  <1>5. ASSUME NEW w \in Workers, WorkerStep(w) \/ Redispatch(w) \/ \E p \in Paths : Claim(w, p)
        PROVE  EngineTypes'
    BY <1>5, WorkTypes
  <1> QED
    BY <1>1, <1>2, <1>3, <1>4, <1>5 DEF EngineNext, DaemonStep

(***************************************************************************)
(* The engine is a client of the catalog                                   *)
(***************************************************************************)

\* A non-empty set of numbers has a least one.
LEMMA LeastNatural ==
    ASSUME NEW T \in SUBSET Nat, T # {}
    PROVE  \E x \in T : \A y \in T : x <= y
  <1> DEFINE R == {ss \in Nat \X Nat : ss[1] < ss[2]}
  <1>1. IsWellFoundedOn(R, Nat)
    BY NatLessThanWellFounded DEF OpToRel
  <1>2. \A x, y \in Nat : y < x => <<y, x>> \in R
    OBVIOUS
  <1> HIDE DEF R
  <1>3. PICK x \in T : \A y \in T : ~(<<y, x>> \in R)
    BY <1>1, WFMin
  <1>4. ASSUME NEW y \in T
        PROVE  x <= y
    <2>1. x \in Nat /\ y \in Nat
      OBVIOUS
    <2>2. ~(y < x)
      BY <1>2, <1>3, <2>1
    <2> QED
      BY <2>1, <2>2
  <1> QED
    BY <1>4

\* The scan ends at a slot if there is one.
LEMMA LeastSlot ==
    ASSUME \E g \in Gens : IsSlot(g)
    PROVE  NextSlot \in Gens /\ IsSlot(NextSlot)
  <1> DEFINE Slots == {g \in Gens : IsSlot(g)}
  <1>1. Slots \in SUBSET Nat /\ Slots # {}
    BY DEF Gens
  <1>2. \E g \in Slots : \A h \in Slots : g <= h
    BY <1>1, LeastNatural
  <1>3. \E g \in Gens : IsSlot(g) /\ \A h \in Gens : IsSlot(h) => g <= h
    BY <1>2
  <1> QED
    BY <1>3 DEF NextSlot

\* Registration touches the catalog by one transaction at a time, and rolls
\* upwards.
LEMMA DaemonCatalog ==
    ASSUME EngineInv, DaemonStep
    PROVE  CatalogNext \/ UNCHANGED catalogVars
  <1>1. CASE Register
    <2>1. daemonFp \in Fingerprints
      BY <1>1 DEF Register, EngineInv, EngineTypes
    <2> QED
      BY <1>1, <2>1 DEF Register, CatalogNext
  <1>2. ASSUME \E g \in Gens : IsSlot(g)
        PROVE  NextSlot \in Gens /\ IsSlot(NextSlot)
    BY <1>2, LeastSlot
  <1>3. CASE FindSlot
    <2>1. daemonFp \in Fingerprints
      BY <1>3 DEF FindSlot, EngineInv, EngineTypes
    <2> QED
      BY <1>2, <1>3, <2>1 DEF FindSlot, CatalogNext
  <1>4. CASE Roll
    BY <1>2, <1>4 DEF Roll, CatalogNext, EngineInv, SlotFound, IsSlot
  <1>5. CASE Recover
    BY <1>5 DEF Recover, CatalogNext
  <1> QED
    BY <1>1, <1>3, <1>4, <1>5
    DEF DaemonStep, RegisterStep, Start, FingerprintMatches, CheckView, RegisterFails,
        RegisterAgain, RecoverFails

\* A plan is of a generation that is or was active.
LEMMA PassCatalog ==
    ASSUME EngineInv, NEW r \in Passes, BeginPass(r) \/ PassStep(r)
    PROVE  CatalogNext \/ UNCHANGED catalogVars
  <1>1. CASE EnqueuePlan(r)
    <2>1. /\ pass[r].gen \in Gens /\ Served(pass[r].gen)
          /\ \A p \in Paths : Truth(r, p) \in Desired
      BY <1>1, DiskIsDesired DEF EnqueuePlan, EngineInv, OnlyServed, EngineTypes, Truth
    <2> DEFINE S == {q \in Paths : pass[r].indexed[q] # Truth(r, q)}
    <2>2. PlanOf(r) \in [S -> Intent]
      BY <2>1 DEF PlanOf, Intent
    <2>3. PlanOf(r) \in Plans
      BY <2>2 DEF Plans
    <2> QED
      BY <1>1, <2>3 DEF EnqueuePlan, CatalogNext
  <1> QED
    BY <1>1 DEF BeginPass, PassStep, ReadIndex, ReadTruth, AbortPass

\* A dispatch claims, commits and dead-letters what it holds.
LEMMA WorkCatalog ==
    ASSUME EngineInv, NEW w \in Workers,
           WorkerStep(w) \/ Redispatch(w) \/ \E p \in Paths : Claim(w, p)
    PROVE  CatalogNext \/ UNCHANGED catalogVars
  <1>1. Held(w) => /\ work[w].path \in Paths /\ work[w].gen \in Gens
                   /\ work[w].hash \in Desired /\ Served(work[w].gen)
    BY DEF EngineInv, EngineTypes, OnlyServed, Work
  <1>2. ASSUME NEW p \in Paths, Claim(w, p)
        PROVE  CatalogNext
    BY <1>2 DEF Claim, CatalogNext
  <1>3. CASE Commit(w)
    <2>1. Held(w)
      BY <1>3 DEF Commit, Held
    <2>2. CASE work[w].hash = NoHash
      BY <1>1, <1>3, <2>1, <2>2 DEF Commit, CatalogNext
    <2>3. CASE work[w].hash # NoHash
      BY <1>1, <1>3, <2>1, <2>3 DEF Commit, CatalogNext, Desired
    <2> QED
      BY <2>2, <2>3
  <1>4. CASE Terminate(w)
    BY <1>1, <1>4 DEF Terminate, Held, CatalogNext
  <1> QED
    BY <1>2, <1>3, <1>4
    DEF WorkerStep, Redispatch, PreCheck, Load, Build, PostCheck, Transient, Permanent,
        TerminateFails

\* Every step of the engine is a transaction of the catalog or none.
LEMMA EngineStepIsCatalogStep ==
    ASSUME EngineInv, [EngineNext]_engineVars
    PROVE  [CatalogNext]_catalogVars
  <1>1. ASSUME NEW p \in Paths, Edit(p)
        PROVE  UNCHANGED catalogVars
    BY <1>1 DEF Edit
  <1>2. CASE Stop
    BY <1>2 DEF Stop
  <1>3. CASE DaemonStep
    BY <1>3, DaemonCatalog
  <1>4. ASSUME NEW r \in Passes, BeginPass(r) \/ PassStep(r)
        PROVE  CatalogNext \/ UNCHANGED catalogVars
    BY <1>4, PassCatalog
  <1>5. ASSUME NEW w \in Workers, WorkerStep(w) \/ Redispatch(w) \/ \E p \in Paths : Claim(w, p)
        PROVE  CatalogNext \/ UNCHANGED catalogVars
    BY <1>5, WorkCatalog
  <1>6. CASE UNCHANGED engineVars
    BY <1>6 DEF engineVars
  <1> QED
    BY <1>1, <1>2, <1>3, <1>4, <1>5, <1>6 DEF EngineNext, DaemonStep

\* A generation once active stays active or becomes retired.
LEMMA ServedStable ==
    ASSUME CatalogInv, [CatalogNext]_catalogVars, NEW g \in Gens, Served(g)
    PROVE  Served(g)'
  <1>1. ASSUME NEW f \in Fingerprints, EnsureActiveGeneration(f)
        PROVE  Served(g)'
    BY <1>1 DEF EnsureActiveGeneration, Served, CatalogInv, CatalogTypeOK
  <1>2. ASSUME NEW h \in Gens, NEW f \in Fingerprints, CreateGeneration(h, f)
        PROVE  Served(g)'
    BY <1>2 DEF CreateGeneration, Served, CatalogInv, CatalogTypeOK
  <1>3. ASSUME NEW h \in Gens, RollWorktreeGeneration(h)
        PROVE  Served(g)'
    BY <1>3 DEF RollWorktreeGeneration, Served, IsActive
  <1>4. status' = status => Served(g)'
    BY DEF Served
  <1> QED
    BY <1>1, <1>2, <1>3, <1>4
    DEF CatalogNext, catalogVars, UpsertJobs, ClaimNextJob, RequeueClaimedJobs,
        DeadLetterJob, CommitUpdate, CommitDelete

\* Only a plan puts a generation into the queue, and a plan's was served.
LEMMA QueueServed ==
    ASSUME CatalogInv, [CatalogNext]_catalogVars,
           \A p \in Paths : Queued(p) => Served(jobs[p].gen)
    PROVE  \A p \in Paths : Queued(p)' => Served(jobs[p].gen)'
  <1> SUFFICES ASSUME NEW p \in Paths, Queued(p)'
               PROVE  Served(jobs[p].gen)'
    OBVIOUS
  <1>1. jobs[p] \in Job /\ (Queued(p) => jobs[p].gen \in Gens)
    BY DEF CatalogInv, CatalogTypeOK, Job, Queued, Gens
  <1>2. \A g \in Gens : Served(g) => Served(g)'
    BY ServedStable
  <1>3. jobs'[p].gen = jobs[p].gen => Served(jobs[p].gen)'
    BY <1>1, <1>2 DEF Queued, Served
  <1>4. ASSUME NEW plan \in Plans, UpsertJobs(plan)
        PROVE  Served(jobs[p].gen)'
    BY <1>2, <1>3, <1>4 DEF UpsertJobs, Plans, Intent, Served
  <1>5. ASSUME NEW q \in Paths, ClaimNextJob(q)
        PROVE  jobs'[p].gen = jobs[p].gen
    BY <1>1, <1>5 DEF ClaimNextJob, CatalogInv, CatalogTypeOK, Job
  <1>6. CASE RequeueClaimedJobs
    BY <1>3, <1>6 DEF RequeueClaimedJobs
  <1>7. ASSUME NEW q \in Paths, NEW h, NEW g, Complete(q, h, g)
        PROVE  jobs'[p].gen = jobs[p].gen
    BY <1>1, <1>7, NullRows DEF Complete, Queued, CatalogInv, CatalogTypeOK
  <1>8. ASSUME NEW g \in Gens, RollWorktreeGeneration(g)
        PROVE  FALSE
    BY <1>8, NullRows DEF RollWorktreeGeneration, Queued
  <1>9. jobs' = jobs => Served(jobs[p].gen)'
    BY <1>3
  <1> QED
    BY <1>3, <1>4, <1>5, <1>6, <1>7, <1>8, <1>9
    DEF CatalogNext, catalogVars, DeadLetterJob, CommitUpdate, CommitDelete,
        EnsureActiveGeneration, CreateGeneration

\* What a goroutine is given to do was served, and stays so.
LEMMA OnlyServedNext ==
    ASSUME EngineInv, [EngineNext]_engineVars
    PROVE  OnlyServed'
  <1> USE DEF EngineInv
  <1>1. \A g \in Gens : Served(g) => Served(g)'
    BY ServedStable, EngineStepIsCatalogStep
  <1>2. \A p \in Paths : Queued(p)' => Served(jobs[p].gen)'
    BY QueueServed, EngineStepIsCatalogStep DEF OnlyServed
  <1>3. ASSUME NEW w \in Workers, Held(w)',
               \/ Held(w) /\ work'[w].gen = work[w].gen
               \/ \E p \in Paths : Queued(p) /\ work'[w].gen = jobs[p].gen
        PROVE  Served(work[w].gen)'
    <2>1. work'[w].gen \in Gens /\ Served(work'[w].gen)
      BY <1>3 DEF OnlyServed, EngineTypes, CatalogInv, CatalogTypeOK, Queued, Job, Gens
    <2> QED
      BY <1>1, <2>1 DEF Served
  <1>4. ASSUME NEW r \in Passes, pass'[r].pc # "idle",
               \/ pass[r].pc # "idle" /\ pass'[r].gen = pass[r].gen
               \/ ~NoneActive /\ pass'[r].gen = ActiveGen
        PROVE  pass'[r].gen \in Gens /\ Served(pass[r].gen)'
    <2>1. pass'[r].gen \in Gens /\ Served(pass'[r].gen)
      BY <1>4, ActiveGenIsActive DEF OnlyServed, Served, IsActive
    <2> QED
      BY <1>1, <2>1 DEF Served
  <1>5. CASE work' = work /\ pass' = pass
    BY <1>2, <1>3, <1>4, <1>5 DEF OnlyServed, Held
  <1>6. CASE Stop
    BY <1>2, <1>6, NullWork, NullPass DEF OnlyServed, Stop, Held
  <1>7. ASSUME NEW r \in Passes, BeginPass(r) \/ PassStep(r)
        PROVE  OnlyServed'
    <2>1. work' = work
      BY <1>7 DEF BeginPass, PassStep, ReadIndex, ReadTruth, EnqueuePlan, AbortPass, workVars
    <2>2. ASSUME NEW s \in Passes, pass'[s].pc # "idle"
          PROVE  \/ pass[s].pc # "idle" /\ pass'[s].gen = pass[s].gen
                 \/ ~NoneActive /\ pass'[s].gen = ActiveGen
      <3>1. CASE BeginPass(r)
        BY <2>2, <3>1 DEF BeginPass, EngineTypes, Pass
      <3>2. CASE ReadIndex(r)
        BY <2>2, <3>2 DEF ReadIndex, EngineTypes, Pass
      <3>3. ASSUME NEW p \in Paths, ReadTruth(r, p)
            PROVE  pass[s].pc # "idle" /\ pass'[s].gen = pass[s].gen
        BY <2>2, <3>3 DEF ReadTruth, EngineTypes, Pass
      <3>4. CASE pass' = [pass EXCEPT ![r] = NoPass]
        BY <2>2, <3>4, NullPass DEF EngineTypes
      <3> QED
        BY <1>7, <3>1, <3>2, <3>3, <3>4 DEF PassStep, EnqueuePlan, AbortPass
    <2> QED
      BY <1>2, <1>3, <1>4, <2>1, <2>2 DEF OnlyServed, Held
  <1>8. ASSUME NEW w \in Workers, WorkerStep(w) \/ Redispatch(w) \/ \E p \in Paths : Claim(w, p)
        PROVE  OnlyServed'
    <2>1. pass' = pass
      BY <1>8 DEF WorkerStep, Redispatch, Claim, PreCheck, Load, Build, PostCheck, Commit,
         Transient, Permanent, Terminate, TerminateFails
    <2>2. ASSUME NEW v \in Workers, Held(v)'
          PROVE  \/ Held(v) /\ work'[v].gen = work[v].gen
                 \/ \E p \in Paths : Queued(p) /\ work'[v].gen = jobs[p].gen
      <3>1. ASSUME NEW p \in Paths, Claim(w, p)
            PROVE  \/ Held(v) /\ work'[v].gen = work[v].gen
                   \/ Queued(p) /\ work'[v].gen = jobs[p].gen
        BY <2>2, <3>1 DEF Claim, ClaimNextJob, Held, EngineTypes, Work
      <3>2. ASSUME Held(w), (\E pc \in WorkerPC : GoTo(w, pc)) \/ Finish(w)
            PROVE  Held(v) /\ work'[v].gen = work[v].gen
        BY <2>2, <3>2, NullWork DEF GoTo, Finish, Held, EngineTypes, Work
      <3>3. WorkerStep(w) \/ Redispatch(w) =>
               Held(w) /\ ((\E pc \in WorkerPC : GoTo(w, pc)) \/ Finish(w))
        BY DEF WorkerStep, Redispatch, PreCheck, Load, Build, PostCheck, Commit, Transient,
           Permanent, Terminate, TerminateFails, Held, WorkerPC, Slotted
      <3> QED
        BY <1>8, <3>1, <3>2, <3>3
    <2> QED
      BY <1>2, <1>3, <1>4, <2>1, <2>2 DEF OnlyServed, Held
  <1>9. ASSUME NEW p \in Paths, Edit(p)
        PROVE  work' = work /\ pass' = pass
    BY <1>9 DEF Edit, workVars
  <1>10. DaemonStep => work' = work /\ pass' = pass
    BY DEF DaemonStep, Start, RegisterStep, Register, FingerprintMatches, FindSlot, Roll,
       CheckView, RegisterFails, RegisterAgain, Recover, RecoverFails, workVars
  <1>11. UNCHANGED engineVars => work' = work /\ pass' = pass
    BY DEF engineVars, workVars
  <1> QED
    BY <1>5, <1>6, <1>7, <1>8, <1>9, <1>10, <1>11 DEF EngineNext, DaemonStep

\* The active generation is the one that is active, also after a step.
LEMMA ActiveGenIsTheOne ==
    ASSUME OneActive, NEW g \in Gens, IsActive(g)
    PROVE  ActiveGen = g
  BY DEF OneActive, ActiveGen, NoneActive

\* The same of the next state.
LEMMA NextActiveGenIsTheOne ==
    ASSUME OneActive', NEW g \in Gens, IsActive(g)'
    PROVE  ActiveGen' = g
  BY DEF OneActive, ActiveGen, NoneActive

\* A repository that has an active generation never is without one again.
LEMMA ActiveStable ==
    ASSUME CatalogInv, [CatalogNext]_catalogVars, ~NoneActive
    PROVE  ~NoneActive'
  <1>1. PICK a \in Gens : IsActive(a)
    BY DEF NoneActive
  <1>2. ASSUME NEW f \in Fingerprints, EnsureActiveGeneration(f)
        PROVE  IsActive(a)'
    BY <1>1, <1>2 DEF EnsureActiveGeneration, IsActive, CatalogInv, CatalogTypeOK
  <1>3. ASSUME NEW h \in Gens, NEW f \in Fingerprints, CreateGeneration(h, f)
        PROVE  IsActive(a)'
    BY <1>1, <1>3 DEF CreateGeneration, IsActive, CatalogInv, CatalogTypeOK
  <1>4. ASSUME NEW h \in Gens, RollWorktreeGeneration(h)
        PROVE  IsActive(h)'
    BY <1>4 DEF RollWorktreeGeneration, IsActive
  <1>5. status' = status => IsActive(a)'
    BY <1>1 DEF IsActive
  <1> QED
    BY <1>2, <1>3, <1>4, <1>5
    DEF NoneActive, CatalogNext, catalogVars, UpsertJobs, ClaimNextJob, RequeueClaimedJobs,
        DeadLetterJob, CommitUpdate, CommitDelete

\* Without another roll, the slot that was found is still a slot.
LEMMA SlotStable ==
    ASSUME CatalogInv, NEW g \in Gens, IsSlot(g), ~NoneActive,
           OneActive', \A h \in Gens : IsActive(h) => IsActive(h)',
           status'[g] = "none" \/ genFp'[g] = daemonFp'
    PROVE  IsSlot(g)'
  <1>1. PICK a \in Gens : IsActive(a)
    BY DEF NoneActive
  <1>2. ActiveGen = a /\ ActiveGen' = a
    BY <1>1, ActiveGenIsTheOne, NextActiveGenIsTheOne DEF CatalogInv
  <1> QED
    BY <1>2 DEF IsSlot

\* A step that is not one of the daemon's leaves its generations alone.
LEMMA OthersKeepGenerations ==
    ASSUME [EngineNext]_engineVars
    PROVE  \/ DaemonStep
           \/ reg' = "absent"
           \/ /\ UNCHANGED <<status, genFp, daemonFp>>
              /\ reg' = reg \/ (reg' \in {"done", "failed"} /\ reg = "pass")
  <1>1. ASSUME NEW w \in Workers, WorkerStep(w) \/ Redispatch(w) \/ \E p \in Paths : Claim(w, p)
        PROVE  UNCHANGED <<status, genFp, daemonFp, reg>>
    BY <1>1 DEF WorkerStep, Redispatch, Claim, PreCheck, Load, Build, PostCheck, Commit,
       Transient, Permanent, Terminate, TerminateFails, CommitUpdate, CommitDelete,
       DeadLetterJob, ClaimNextJob, daemonVars, catalogVars
  <1>2. ASSUME NEW r \in Passes, BeginPass(r) \/ PassStep(r)
        PROVE  /\ UNCHANGED <<status, genFp, daemonFp>>
               /\ reg' = reg \/ (reg' \in {"done", "failed"} /\ reg = "pass")
    BY <1>2 DEF BeginPass, PassStep, ReadIndex, ReadTruth, EnqueuePlan, AbortPass,
       UpsertJobs, daemonVars, catalogVars
  <1>3. ASSUME NEW p \in Paths, Edit(p)
        PROVE  UNCHANGED <<status, genFp, daemonFp, reg>>
    BY <1>3 DEF Edit, catalogVars
  <1>4. Stop => reg' = "absent"
    BY DEF Stop
  <1>5. UNCHANGED engineVars => UNCHANGED <<status, genFp, daemonFp, reg>>
    BY DEF engineVars, catalogVars, daemonVars
  <1> QED
    BY <1>1, <1>2, <1>3, <1>4, <1>5 DEF EngineNext, DaemonStep

\* Registration ensures a generation before it scans, and rolls to the slot
\* its scan found, whatever else goes on between the scan and the roll.
LEMMA RegistrationNext ==
    ASSUME EngineInv, [EngineNext]_engineVars
    PROVE  EnsuredActive' /\ SlotFound'
  <1> USE DEF EngineInv
  <1>1. [CatalogNext]_catalogVars /\ CatalogInv'
    BY EngineStepIsCatalogStep, StepInv
  <1>2. ~NoneActive => ~NoneActive'
    BY <1>1, ActiveStable
  <1>3. CASE reg' = "absent"
    BY <1>3 DEF EnsuredActive, SlotFound
  <1>4. CASE /\ UNCHANGED <<status, genFp, daemonFp>>
             /\ reg' = reg \/ (reg' \in {"done", "failed"} /\ reg = "pass")
    <2>1. ASSUME NEW g \in Gens, reg = "roll", IsSlot(g)
          PROVE  IsSlot(g)'
      <3>1. status'[g] = "none" \/ genFp'[g] = daemonFp'
        BY <1>4, <2>1 DEF IsSlot
      <3>2. \A h \in Gens : IsActive(h) => IsActive(h)'
        BY <1>4 DEF IsActive
      <3>3. OneActive' /\ ~NoneActive
        BY <1>1, <2>1 DEF CatalogInv, EnsuredActive
      <3> QED
        BY <2>1, <3>1, <3>2, <3>3, SlotStable
    <2> QED
      BY <1>2, <1>4, <2>1 DEF EnsuredActive, SlotFound
  <1>5. CASE Register
    <2>1. ~NoneActive'
      <3>1. 1 \in Gens
        BY CatalogAssumption DEF Gens
      <3>2. NoneActive => IsActive(1)'
        BY <1>5, <3>1 DEF Register, EnsureActiveGeneration, CatalogInv, CatalogTypeOK, IsActive
      <3> QED
        BY <1>2, <3>1, <3>2 DEF NoneActive
    <2> QED
      BY <1>5, <2>1 DEF Register, EnsuredActive, SlotFound
  <1>6. CASE FindSlot
    <2>1. NextSlot \in Gens /\ IsSlot(NextSlot)
      BY <1>6, LeastSlot DEF FindSlot
    <2>2. PICK g \in Gens : g = NextSlot /\ IsSlot(g)
      BY <2>1
    <2>3. /\ \A h \in Gens : IsActive(h) => IsActive(h)'
          /\ genFp'[g] = daemonFp /\ daemonFp' = daemonFp
      BY <1>6, <2>2 DEF FindSlot, CreateGeneration, IsActive, IsSlot, catalogVars,
         CatalogInv, CatalogTypeOK
    <2>4. ~NoneActive /\ OneActive'
      BY <1>1, <1>6 DEF FindSlot, EnsuredActive, CatalogInv
    <2>5. IsSlot(g)'
      BY <2>2, <2>3, <2>4, SlotStable
    <2>6. reg' = "roll"
      BY <1>6 DEF FindSlot
    <2> QED
      BY <1>2, <2>4, <2>5, <2>6 DEF EnsuredActive, SlotFound
  <1>7. CASE Roll
    BY <1>2, <1>7 DEF Roll, EnsuredActive, SlotFound
  <1>8. CASE FingerprintMatches \/ CheckView \/ RegisterFails \/ RegisterAgain
                \/ Recover \/ RecoverFails \/ \E f \in Fingerprints : Start(f)
    <2>1. /\ reg' # "roll"
          /\ reg' = reg \/ reg' \in {"ensure", "failed"} \/ reg \in {"scan", "check"}
      BY <1>8 DEF FingerprintMatches, CheckView, RegisterFails, RegisterAgain, Recover,
         RecoverFails, Start
    <2> QED
      BY <1>2, <2>1 DEF EnsuredActive, SlotFound
  <1> QED
    BY <1>3, <1>4, <1>5, <1>6, <1>7, <1>8, OthersKeepGenerations DEF DaemonStep, RegisterStep

\* Before the daemon starts nothing is held, planned or registered.
LEMMA EngineInitInv == EngineInit => EngineInv
  <1> SUFFICES ASSUME EngineInit
               PROVE  EngineInv
    OBVIOUS
  <1>1. CatalogInv
    BY InitInv DEF EngineInit
  <1>2. \A p \in Paths : ver[p] \in DOMAIN Script[p] /\ ver[p] \in Nat
    <2>1. \A p \in Paths : Script[p] \in Seq(Desired) /\ Script[p] # <<>>
      BY EngineAssumption
    <2> QED
      BY <2>1 DEF EngineInit
  <1>3. EngineTypes
    BY <1>2, NullWork, NullPass DEF EngineInit, EngineTypes, Held, NoAttempts
  <1>4. OnlyServed
    BY NullWork, NullPass, NullRows DEF EngineInit, CatalogInit, OnlyServed, Held, Queued
  <1> QED
    BY <1>1, <1>3, <1>4 DEF EngineInit, EngineInv, EnsuredActive, SlotFound

\* Every step of the engine keeps the invariant.
LEMMA EngineStepInv == EngineInv /\ [EngineNext]_engineVars => EngineInv'
  <1> SUFFICES ASSUME EngineInv, [EngineNext]_engineVars
               PROVE  EngineInv'
    OBVIOUS
  <1>1. CatalogInv'
    BY EngineStepIsCatalogStep, StepInv DEF EngineInv
  <1>2. EngineTypes'
    BY StepTypes DEF EngineInv, EngineTypes, engineVars, daemonVars, workVars, Held
  <1> QED
    BY <1>1, <1>2, OnlyServedNext, RegistrationNext DEF EngineInv

\* The engine holds what it says it holds, all of it of generations that were
\* active once, and finds at the roll the slot that its scan found.
THEOREM EngineInvariant == EngineSpec => []EngineInv
  BY EngineInitInv, EngineStepInv, PTL DEF EngineSpec

\* The daemon, its passes and its dispatches use the catalog only as Catalog
\* lets any client use it: each of their steps is one of its transactions, on
\* arguments that a client can hold, or none.
THEOREM EngineImplementsCatalog == EngineSpec => CatalogSpec
  <1>1. EngineInit => CatalogInit
    BY DEF EngineInit
  <1>2. EngineInv /\ [EngineNext]_engineVars => [CatalogNext]_catalogVars
    BY EngineStepIsCatalogStep
  <1> QED
    BY <1>1, <1>2, EngineInvariant, PTL DEF EngineSpec, CatalogSpec

\* In the running engine vectors of two embedders never mix in a view.
THEOREM EngineViewHasActiveFingerprint == EngineSpec => []FingerprintCorrect
  BY EngineImplementsCatalog, ViewHasActiveFingerprint, PTL

\* In the running engine no save is dropped from the queue.
THEOREM EngineNeverDropsIntents == EngineSpec => IntentNotDropped
  BY EngineImplementsCatalog, NoIntentDropped, PTL

(***************************************************************************)
(* No job is left behind claimed                                           *)
(***************************************************************************)

\* A dispatch keeps its job in hand, or finds that the queue wants something
\* else, or completes the job that it holds.
LEMMA DispatchOutcome ==
    ASSUME NEW w \in Workers, WorkerStep(w) \/ Redispatch(w)
    PROVE  /\ Held(w) /\ sched' = sched
           /\ \/ jobs' = jobs /\ \E pc \in WorkerPC \ {"idle"} : GoTo(w, pc)
              \/ jobs' = jobs /\ Superseded(w) /\ Finish(w)
              \/ Complete(work[w].path, work[w].hash, work[w].gen) /\ Finish(w)
  <1>1. CASE PreCheck(w) \/ PostCheck(w)
    BY <1>1 DEF PreCheck, PostCheck, Held, WorkerPC, Slotted, catalogVars, daemonVars
  <1>2. CASE Commit(w)
    BY <1>2 DEF Commit, CommitUpdate, CommitDelete, Held, daemonVars
  <1>3. CASE Terminate(w)
    BY <1>3 DEF Terminate, DeadLetterJob, Held, daemonVars
  <1>4. CASE Transient(w)
    BY <1>4 DEF Transient, Held, WorkerPC, Slotted, catalogVars, daemonVars
  <1>5. CASE Load(w) \/ Build(w) \/ Permanent(w) \/ TerminateFails(w) \/ Redispatch(w)
    BY <1>5 DEF Load, Build, Permanent, TerminateFails, Redispatch, Held, WorkerPC, Slotted,
       catalogVars, daemonVars
  <1> QED
    BY <1>1, <1>2, <1>3, <1>4, <1>5 DEF WorkerStep

\* A goroutine that lets its job go leaves no claimed row of it behind.
LEMMA LetsGo ==
    ASSUME EngineInv, NEW w \in Workers, NEW p \in Paths, Finish(w), Held(w), jobs[p].claimed,
           jobs'[p].claimed,
           \/ jobs' = jobs /\ Superseded(w)
           \/ Complete(work[w].path, work[w].hash, work[w].gen)
    PROVE  Key(w) # <<p, jobs[p].hash, jobs[p].gen>> /\ jobs'[p] = jobs[p]
  <1>1. Queued(p)
    BY DEF EngineInv, CatalogInv, CatalogTypeOK, NoJob
  <1>2. jobs[p].gen \in Nat /\ work[w].gen \in Nat /\ work[w].path \in Paths
    BY DEF EngineInv, EngineTypes, CatalogInv, CatalogTypeOK, Job, Gens
  <1>3. CASE jobs' = jobs /\ Superseded(w)
    BY <1>1, <1>2, <1>3 DEF Superseded, Key
  <1>4. CASE Complete(work[w].path, work[w].hash, work[w].gen)
    <2>1. CASE Matches(work[w].path, work[w].hash, work[w].gen)
      BY <1>2, <1>4, <2>1 DEF Complete, NoJob, Key, EngineInv, CatalogInv, CatalogTypeOK
    <2>2. CASE ~Matches(work[w].path, work[w].hash, work[w].gen)
      BY <1>1, <1>2, <1>4, <2>2 DEF Complete, Matches, Key
    <2> QED
      BY <2>1, <2>2
  <1> QED
    BY <1>3, <1>4

\* No step of a recovered scheduler orphans a claim.
LEMMA OrphanStep ==
    ASSUME EngineInv, NoOrphanClaim, [EngineNext]_engineVars
    PROVE  NoOrphanClaim'
  <1> DEFINE HeldBy(w, p) == Held(w) /\ Key(w) = <<p, jobs[p].hash, jobs[p].gen>>
  <1> SUFFICES ASSUME sched' = "on", NEW p \in Paths, jobs'[p].claimed
               PROVE  \E w \in Workers : HeldBy(w, p)'
    BY DEF NoOrphanClaim
  <1>1. ASSUME jobs'[p] = jobs[p], work' = work, sched' = sched
        PROVE  \E w \in Workers : HeldBy(w, p)'
    BY <1>1 DEF NoOrphanClaim, Held, Key
  <1>2. ASSUME NEW w \in Workers, WorkerStep(w) \/ Redispatch(w)
        PROVE  \E v \in Workers : HeldBy(v, p)'
    <2>1. jobs[p].claimed
      BY <1>2, DispatchOutcome DEF Complete, NoJob, EngineInv, CatalogInv, CatalogTypeOK
    <2>2. PICK v \in Workers : HeldBy(v, p)
      BY <1>2, <2>1, DispatchOutcome DEF NoOrphanClaim
    <2>3. CASE jobs' = jobs /\ \E pc \in WorkerPC \ {"idle"} : GoTo(w, pc)
      BY <2>2, <2>3 DEF GoTo, Held, Key, EngineInv, EngineTypes, Work
    <2>4. CASE /\ Finish(w)
               /\ \/ jobs' = jobs /\ Superseded(w)
                  \/ Complete(work[w].path, work[w].hash, work[w].gen)
      <3>1. Key(w) # <<p, jobs[p].hash, jobs[p].gen>> /\ jobs'[p] = jobs[p]
        BY <1>2, <2>1, <2>4, LetsGo, DispatchOutcome
      <3>2. v # w /\ work'[v] = work[v]
        BY <2>2, <2>4, <3>1 DEF Finish, EngineInv, EngineTypes
      <3> QED
        BY <2>2, <3>1, <3>2 DEF Held, Key
    <2> QED
      BY <1>2, <2>3, <2>4, DispatchOutcome
  <1>3. ASSUME NEW w \in Workers, NEW q \in Paths, Claim(w, q)
        PROVE  \E v \in Workers : HeldBy(v, p)'
    <2>1. CASE p = q
      BY <1>3, <2>1 DEF Claim, ClaimNextJob, Held, Key, EngineInv, EngineTypes,
         CatalogInv, CatalogTypeOK, Job, Work
    <2>2. CASE p # q
      <3>1. jobs'[p] = jobs[p] /\ sched' = sched
        BY <1>3, <2>2 DEF Claim, ClaimNextJob, EngineInv, CatalogInv, CatalogTypeOK, daemonVars
      <3>2. PICK v \in Workers : HeldBy(v, p)
        BY <3>1 DEF NoOrphanClaim
      <3>3. v # w /\ work'[v] = work[v]
        BY <1>3, <3>2 DEF Claim, Held, EngineInv, EngineTypes
      <3> QED
        BY <3>1, <3>2, <3>3 DEF Held, Key
    <2> QED
      BY <2>1, <2>2
  <1>4. ASSUME NEW r \in Passes, BeginPass(r) \/ PassStep(r)
        PROVE  \E w \in Workers : HeldBy(w, p)'
    BY <1>1, <1>4 DEF BeginPass, PassStep, ReadIndex, ReadTruth, EnqueuePlan, AbortPass,
       UpsertJobs, workVars, daemonVars, catalogVars
  <1>5. CASE Roll
    BY <1>5 DEF Roll, RollWorktreeGeneration, NoJob
  <1>6. CASE Recover
    BY <1>6 DEF Recover, RequeueClaimedJobs
  <1>7. CASE Register \/ FingerprintMatches \/ FindSlot \/ CheckView \/ RegisterFails
                \/ RegisterAgain \/ RecoverFails \/ \E f \in Fingerprints : Start(f)
    BY <1>1, <1>7 DEF Register, EnsureActiveGeneration, FingerprintMatches, FindSlot,
       CreateGeneration, CheckView, RegisterFails, RegisterAgain, RecoverFails, Start,
       workVars, catalogVars
  <1>8. ASSUME NEW q \in Paths, Edit(q)
        PROVE  \E w \in Workers : HeldBy(w, p)'
    BY <1>1, <1>8 DEF Edit, workVars, catalogVars
  <1>9. CASE Stop
    BY <1>9 DEF Stop
  <1>10. CASE UNCHANGED engineVars
    BY <1>1, <1>10 DEF engineVars, catalogVars, daemonVars, workVars
  <1> QED
    BY <1>2, <1>3, <1>4, <1>5, <1>6, <1>7, <1>8, <1>9, <1>10 DEF EngineNext, RegisterStep

\* While a recovered scheduler runs, every claimed job is in the hands of a
\* goroutine that commits, retries or dead-letters it, for any number of
\* slots, goroutines, stops and faults.
THEOREM NoJobOrphaned == EngineSpec => []NoOrphanClaim
  <1>1. EngineInit => NoOrphanClaim
    BY DEF EngineInit, NoOrphanClaim
  <1> QED
    BY <1>1, OrphanStep, EngineInvariant, PTL DEF EngineSpec

(***************************************************************************)
(* A retry budget has a holder                                             *)
(***************************************************************************)

\* A dispatch counts for the intent in its hand only, and forgets the count
\* when it lets the intent go.
LEMMA DispatchCounts ==
    ASSUME NEW w \in Workers, WorkerStep(w) \/ Redispatch(w)
    PROVE  /\ Held(w)
           /\ \/ /\ \E pc \in WorkerPC \ {"idle"} : GoTo(w, pc)
                 /\ attempts' = attempts \/ \E n : attempts' = [attempts EXCEPT ![Key(w)] = n]
              \/ Finish(w)
  <1>1. CASE PreCheck(w) \/ PostCheck(w)
    BY <1>1 DEF PreCheck, PostCheck, Held, WorkerPC, Slotted
  <1>2. CASE Commit(w) \/ Terminate(w)
    BY <1>2 DEF Commit, Terminate, Held
  <1>3. CASE Transient(w)
    BY <1>3 DEF Transient, Held, WorkerPC, Slotted
  <1>4. CASE Load(w) \/ Build(w) \/ Permanent(w) \/ TerminateFails(w) \/ Redispatch(w)
    BY <1>4 DEF Load, Build, Permanent, TerminateFails, Redispatch, Held, WorkerPC, Slotted
  <1> QED
    BY <1>1, <1>2, <1>3, <1>4 DEF WorkerStep

\* No step leaves a count behind whose intent nobody holds.
LEMMA AttemptsStep ==
    ASSUME EngineInv, AttemptsOfHeld, [EngineNext]_engineVars
    PROVE  AttemptsOfHeld'
  <1> SUFFICES ASSUME NEW i \in Intents, attempts'[i] > 0
               PROVE  \E w \in Workers : (Held(w) /\ Key(w) = i)'
    BY DEF AttemptsOfHeld
  <1> USE DEF EngineInv
  <1>1. CASE work' = work /\ attempts' = attempts
    BY <1>1 DEF AttemptsOfHeld, Held, Key
  <1>2. ASSUME NEW w \in Workers, WorkerStep(w) \/ Redispatch(w)
        PROVE  \E v \in Workers : (Held(v) /\ Key(v) = i)'
    <2>1. Held(w) /\ Key(w) \in Intents /\ attempts \in [Intents -> Nat]
      BY <1>2, DispatchCounts, KeyIsIntent DEF EngineTypes
    <2>2. CASE Finish(w)
      <3>1. i # Key(w) /\ attempts[i] > 0
        BY <2>1, <2>2 DEF Finish
      <3>2. PICK v \in Workers : Held(v) /\ Key(v) = i
        BY <3>1 DEF AttemptsOfHeld
      <3>3. work'[v] = work[v]
        BY <2>2, <3>1, <3>2 DEF Finish, EngineTypes
      <3> QED
        BY <3>2, <3>3 DEF Held, Key
    <2>3. CASE /\ \E pc \in WorkerPC \ {"idle"} : GoTo(w, pc)
               /\ attempts' = attempts \/ \E n : attempts' = [attempts EXCEPT ![Key(w)] = n]
      <3>1. \A v \in Workers : Held(v) => Held(v)' /\ Key(v)' = Key(v)
        BY <2>3 DEF GoTo, Held, Key, EngineTypes, Work
      <3>2. \E v \in Workers : Held(v) /\ Key(v) = i
        BY <2>1, <2>3 DEF AttemptsOfHeld
      <3> QED
        BY <3>1, <3>2
    <2> QED
      BY <1>2, <2>2, <2>3, DispatchCounts
  <1>3. ASSUME NEW w \in Workers, NEW p \in Paths, Claim(w, p)
        PROVE  \E v \in Workers : (Held(v) /\ Key(v) = i)'
    <2>1. PICK v \in Workers : Held(v) /\ Key(v) = i
      BY <1>3 DEF Claim, AttemptsOfHeld
    <2>2. work'[v] = work[v]
      BY <1>3, <2>1 DEF Claim, Held, EngineTypes
    <2> QED
      BY <2>1, <2>2 DEF Held, Key
  <1>4. CASE Stop
    <2>1. attempts' = [j \in Intents |-> 0]
      BY <1>4 DEF Stop, NoAttempts
    <2>2. attempts'[i] = 0
      BY <2>1
    <2> QED
      BY <2>2
  <1>5. ASSUME NEW r \in Passes, BeginPass(r) \/ PassStep(r)
        PROVE  work' = work /\ attempts' = attempts
    BY <1>5 DEF BeginPass, PassStep, ReadIndex, ReadTruth, EnqueuePlan, AbortPass, workVars
  <1>6. DaemonStep => work' = work /\ attempts' = attempts
    BY DEF DaemonStep, Start, RegisterStep, Register, FingerprintMatches, FindSlot, Roll,
       CheckView, RegisterFails, RegisterAgain, Recover, RecoverFails, workVars
  <1>7. ASSUME NEW p \in Paths, Edit(p)
        PROVE  work' = work /\ attempts' = attempts
    BY <1>7 DEF Edit, workVars
  <1>8. UNCHANGED engineVars => work' = work /\ attempts' = attempts
    BY DEF engineVars, workVars
  <1> QED
    BY <1>1, <1>2, <1>3, <1>4, <1>5, <1>6, <1>7, <1>8 DEF EngineNext, DaemonStep

\* A count of failures lives as long as a goroutine holds its intent: the
\* same content desired again later starts with the full budget.
THEOREM BudgetHasHolder == EngineSpec => []AttemptsOfHeld
  <1>1. EngineInit => AttemptsOfHeld
    BY DEF EngineInit, AttemptsOfHeld, NoAttempts
  <1> QED
    BY <1>1, AttemptsStep, EngineInvariant, PTL DEF EngineSpec

\* Claimed rows and spent budgets have a goroutine that answers for them (dispatch,
\* terminate, Recover).
THEOREM ClaimsAlwaysHeld == EngineSpec => []ClaimsAreHeld
  <1>1. NoOrphanClaim /\ AttemptsOfHeld => ClaimsAreHeld
    BY DEF ClaimsAreHeld
  <1> QED
    BY <1>1, NoJobOrphaned, BudgetHasHolder, PTL

(***************************************************************************)
(* A registered worktree has been planned                                  *)
(***************************************************************************)

\* As long as some path is not planned since the roll, nothing that could
\* fill the view is on its way, so an empty view still tells of it.
NothingPlanned ==
    /\ reg # "done"
    /\ ViewEmpty
    /\ \A p \in Paths : Queued(p) => ~IsActive(jobs[p].gen)
    /\ \A w \in Workers : Held(w) => ~IsActive(work[w].gen)

\* A pass began with some version of every file on disk.
PassBegan == \A r \in Passes : pass[r].pc # "idle" => \A p \in Paths : pass[r].began[p] > 0

\* The pass of a registration is of the generation that was active when it
\* began, and nobody else rolls.
WatcherPass ==
    pass[Watcher].pc # "idle" => /\ reg \in {"pass", "done"}
                                 /\ reg = "pass" => IsActive(pass[Watcher].gen)

PlanInv ==
    /\ seen \in [Paths -> Nat]
    /\ PassBegan
    /\ WatcherPass
    /\ (\E p \in Paths : seen[p] = 0) => NothingPlanned

\* A step that moves neither jobs nor rows nor passes and activates nothing.
LEMMA QuietPlanStep ==
    ASSUME EngineInv, PlanInv,
           UNCHANGED <<view, jobs, work, pass, seen>>,
           \A g \in Gens : IsActive(g)' => IsActive(g),
           \A g \in Gens : reg = "pass" /\ IsActive(g) => IsActive(g)',
           reg' = reg \/ (pass[Watcher].pc = "idle" /\ reg' # "done")
    PROVE  PlanInv'
  <1>1. seen' \in [Paths -> Nat] /\ PassBegan'
    BY DEF PlanInv, PassBegan
  <1>2. pass[Watcher].pc # "idle" => pass[Watcher].gen \in Gens
    BY EngineAssumption DEF EngineInv, OnlyServed
  <1>3. WatcherPass'
    BY <1>2 DEF PlanInv, WatcherPass, IsActive
  <1>4. ASSUME NothingPlanned
        PROVE  NothingPlanned'
    <2>1. \A p \in Paths : Queued(p) => jobs[p].gen \in Gens
      BY DEF EngineInv, CatalogInv, CatalogTypeOK, Queued, Job, Gens
    <2>2. \A w \in Workers : Held(w) => work[w].gen \in Gens
      BY DEF EngineInv, EngineTypes
    <2> QED
      BY <1>4, <2>1, <2>2 DEF NothingPlanned, ViewEmpty, Indexed, Queued, Held, IsActive
  <1> QED
    BY <1>1, <1>3, <1>4 DEF PlanInv

\* The daemon's steps: the roll forgets the plans of the older generations
\* with everything else, and only a view with a row skips the pass.
LEMMA DaemonPlanStep ==
    ASSUME EngineInv, PlanInv, DaemonStep
    PROVE  PlanInv'
  <1> USE DEF EngineInv
  <1>1. CASE Register
    <2>1. 1 \in Gens /\ UNCHANGED <<view, jobs, work, pass, seen>> /\ reg = "ensure" /\ reg' = "scan"
      BY <1>1, CatalogAssumption DEF Register, EnsureActiveGeneration, Gens, workVars, history
    <2>2. pass[Watcher].pc = "idle"
      BY <2>1 DEF PlanInv, WatcherPass
    <2>3. CASE ~NoneActive
      <3>1. \A g \in Gens : IsActive(g)' => IsActive(g)
        BY <1>1, <2>1, <2>3 DEF Register, EnsureActiveGeneration, IsActive, CatalogInv, CatalogTypeOK
      <3> QED
        BY <2>1, <2>2, <3>1, QuietPlanStep
    <2>4. CASE NoneActive
      <3>1. \A g \in Gens : ~Served(g)
        BY <2>4 DEF CatalogInv, EmptyUntilActive, Served
      <3>2. ViewEmpty /\ (\A p \in Paths : ~Queued(p)) /\ (\A w \in Workers : ~Held(w))
        <4>1. \A p \in Paths : Queued(p) => jobs[p].gen \in Gens
          BY DEF CatalogInv, CatalogTypeOK, Queued, Job, Gens
        <4> QED
          BY <2>4, <3>1, <4>1 DEF CatalogInv, EmptyUntilActive, ViewEmpty, OnlyServed, EngineTypes
      <3>3. NothingPlanned'
        BY <2>1, <3>2 DEF NothingPlanned, ViewEmpty, Indexed, Queued, Held
      <3> QED
        BY <2>1, <2>2, <3>3 DEF PlanInv, PassBegan, WatcherPass
    <2> QED
      BY <2>3, <2>4
  <1>2. CASE FindSlot
    <2>1. NextSlot \in Gens /\ IsSlot(NextSlot)
      BY <1>2, LeastSlot DEF FindSlot
    <2>2. UNCHANGED <<view, jobs, work, pass, seen>> /\ reg = "scan" /\ reg' = "roll"
      BY <1>2 DEF FindSlot, CreateGeneration, catalogVars, workVars, history
    <2>3. \A g \in Gens : IsActive(g)' => IsActive(g)
      BY <1>2, <2>1 DEF FindSlot, CreateGeneration, catalogVars, IsActive, CatalogInv, CatalogTypeOK
    <2> QED
      BY <2>2, <2>3, QuietPlanStep DEF PlanInv, WatcherPass
  <1>3. CASE Roll
    <2>1. PICK n \in Gens : n = NextSlot /\ IsSlot(n)
      BY <1>3, LeastSlot DEF Roll, SlotFound
    <2>2. \A g \in Gens : Served(g) => ~IsActive(g)'
      <3>1. PICK a \in Gens : IsActive(a)
        BY <1>3 DEF Roll, EnsuredActive, NoneActive
      <3>2. ActiveGen = a
        BY <3>1, ActiveGenIsTheOne DEF CatalogInv
      <3>3. \A g \in Gens : Served(g) => g < n
        BY <2>1, <3>1, <3>2 DEF CatalogInv, RetiredIsOlder, OneActive, Served, IsSlot, IsActive, Gens
      <3> QED
        BY <1>3, <2>1, <3>3 DEF Roll, RollWorktreeGeneration, IsActive, Gens
    <2>3. /\ seen' = [p \in Paths |-> 0] /\ work' = work /\ pass' = pass
          /\ reg = "roll" /\ reg' = "check"
          /\ view' = [p \in Paths |-> NoRow] /\ jobs' = [p \in Paths |-> NoJob]
      BY <1>3 DEF Roll, RollWorktreeGeneration, workVars
    <2>4. NothingPlanned'
      <3>1. \A w \in Workers : Held(w) => work[w].gen \in Gens /\ ~IsActive(work[w].gen)'
        BY <2>2, <2>3 DEF OnlyServed, EngineTypes, IsActive
      <3> QED
        BY <2>3, <3>1, NullRows DEF NothingPlanned, ViewEmpty, Indexed, Queued, Held
    <2> QED
      BY <2>3, <2>4 DEF PlanInv, PassBegan, WatcherPass
  <1>4. CASE CheckView
    <2>1. UNCHANGED <<view, jobs, work, pass, seen, status>> /\ reg = "check"
      BY <1>4 DEF CheckView, catalogVars, workVars, history
    <2>2. pass[Watcher].pc = "idle"
      BY <2>1 DEF PlanInv, WatcherPass
    <2>3. CASE ViewEmpty
      <3>1. reg' = "pass"
        BY <1>4, <2>3 DEF CheckView
      <3> QED
        BY <2>1, <2>2, <3>1, QuietPlanStep DEF IsActive
    <2>4. CASE ~ViewEmpty
      <3>1. \A p \in Paths : seen[p] # 0
        BY <2>4 DEF PlanInv, NothingPlanned
      <3> QED
        BY <2>1, <2>2, <3>1 DEF PlanInv, PassBegan, WatcherPass
    <2> QED
      BY <2>3, <2>4
  <1>5. CASE Recover
    <2>1. /\ UNCHANGED <<view, work, pass, seen, status, reg>>
          /\ \A p \in Paths : jobs'[p].gen = jobs[p].gen
      BY <1>5 DEF Recover, RequeueClaimedJobs, workVars, history
    <2>2. NothingPlanned => NothingPlanned'
      BY <2>1 DEF NothingPlanned, ViewEmpty, Indexed, Queued, Held, IsActive
    <2>3. PassBegan' /\ WatcherPass'
      BY <2>1 DEF PlanInv, PassBegan, WatcherPass, IsActive
    <2> QED
      BY <2>1, <2>2, <2>3 DEF PlanInv
  <1>6. CASE FingerprintMatches \/ RegisterFails \/ RegisterAgain \/ RecoverFails
                \/ \E f \in Fingerprints : Start(f)
    <2>1. UNCHANGED <<view, jobs, work, pass, seen, status>>
      BY <1>6 DEF FingerprintMatches, RegisterFails, RegisterAgain, RecoverFails, Start,
         catalogVars, workVars, history
    <2>2. ~Up => reg = "absent"
      BY CatalogAssumption DEF EngineTypes, Up
    <2>3. \/ reg' = reg
          \/ reg' \in {"check", "ensure", "failed"} /\ reg \notin {"pass", "done"}
      BY <1>6, <2>2 DEF FingerprintMatches, RegisterFails, RegisterAgain, RecoverFails, Start
    <2> QED
      BY <2>1, <2>3, QuietPlanStep DEF PlanInv, WatcherPass, IsActive
  <1> QED
    BY <1>1, <1>2, <1>3, <1>4, <1>5, <1>6 DEF DaemonStep, RegisterStep

\* Before every path is planned a dispatch can only be of an older generation,
\* and such a commit does not touch the view.
LEMMA DispatchPlanStep ==
    ASSUME EngineInv, PlanInv, NEW w \in Workers,
           WorkerStep(w) \/ Redispatch(w) \/ \E p \in Paths : Claim(w, p)
    PROVE  PlanInv'
  <1> USE DEF EngineInv
  <1>1. UNCHANGED <<pass, seen, status, reg>>
    BY DEF WorkerStep, Redispatch, Claim, PreCheck, Load, Build, PostCheck, Commit, Transient,
       Permanent, Terminate, TerminateFails, ClaimNextJob, CommitUpdate, CommitDelete,
       DeadLetterJob, catalogVars, daemonVars, history
  <1>2. PassBegan' /\ WatcherPass'
    BY <1>1 DEF PlanInv, PassBegan, WatcherPass, IsActive
  <1>3. ASSUME NothingPlanned
        PROVE  NothingPlanned'
    <2>1. view' = view
      <3>1. CASE Commit(w)
        <4>1. Held(w)
          BY <3>1 DEF Commit, Held
        <4>2. /\ work[w].gen \in Gens /\ Served(work[w].gen)
              /\ ~IsActive(work[w].gen)
          BY <1>3, <4>1 DEF NothingPlanned, OnlyServed, EngineTypes
        <4>3. ~TouchesActiveView(work[w].gen)
          BY <4>2, TouchIsActive
        <4> QED
          BY <3>1, <4>3 DEF Commit, CommitUpdate, CommitDelete
      <3> QED
        BY <3>1 DEF WorkerStep, Redispatch, Claim, PreCheck, Load, Build, PostCheck, Transient,
           Permanent, Terminate, TerminateFails, ClaimNextJob, DeadLetterJob, catalogVars
    <2>2. ASSUME NEW p \in Paths, Claim(w, p)
          PROVE  NothingPlanned'
      <3>1. \A q \in Paths : jobs'[q].gen = jobs[q].gen
        BY <2>2 DEF Claim, ClaimNextJob, CatalogInv, CatalogTypeOK, Job
      <3>2. \A v \in Workers : \/ work'[v] = work[v]
                               \/ work'[v].gen = jobs[p].gen /\ Queued(p)
        BY <2>2 DEF Claim, ClaimNextJob, EngineTypes
      <3> QED
        BY <1>1, <1>3, <2>1, <3>1, <3>2
        DEF NothingPlanned, ViewEmpty, Indexed, Queued, Held, IsActive
    <2>3. ASSUME WorkerStep(w) \/ Redispatch(w)
          PROVE  NothingPlanned'
      <3>1. \A q \in Paths : Queued(q)' => Queued(q) /\ jobs'[q].gen = jobs[q].gen
        BY <2>3, DispatchOutcome, NullRows DEF Complete, CatalogInv, CatalogTypeOK, Queued
      <3>2. \A v \in Workers : Held(v)' => Held(v) /\ work'[v].gen = work[v].gen
        BY <2>3, DispatchOutcome, NullWork DEF GoTo, Finish, Held, EngineTypes, Work
      <3> QED
        BY <1>1, <1>3, <2>1, <3>1, <3>2
        DEF NothingPlanned, ViewEmpty, Indexed, IsActive
    <2> QED
      BY <2>2, <2>3
  <1> QED
    BY <1>1, <1>2, <1>3 DEF PlanInv

\* A pass of the active generation plans every path, one of an older
\* generation leaves the view as empty as it is; the pass of a registration is
\* of the active one.
LEMMA PassPlanStep ==
    ASSUME EngineInv, PlanInv, NEW r \in Passes, BeginPass(r) \/ PassStep(r)
    PROVE  PlanInv'
  <1> USE DEF EngineInv
  <1>1. UNCHANGED <<work, view, status>>
    BY DEF BeginPass, PassStep, ReadIndex, ReadTruth, EnqueuePlan, AbortPass, UpsertJobs,
       workVars, catalogVars
  <1>2. ASSUME UNCHANGED <<jobs, seen>>, reg' = reg \/ reg' # "done", NothingPlanned
        PROVE  NothingPlanned'
    BY <1>1, <1>2 DEF NothingPlanned, ViewEmpty, Indexed, Queued, Held, IsActive
  <1>3. CASE BeginPass(r)
    <2>1. UNCHANGED <<jobs, seen, reg>>
      BY <1>3 DEF BeginPass, catalogVars, history
    <2>2. \A p \in Paths : ver[p] > 0
      BY DiskIsDesired DEF EngineTypes
    <2>3. ActiveGen \in Gens /\ IsActive(ActiveGen)
      BY <1>3, ActiveGenIsActive DEF BeginPass
    <2>4. /\ pass'[r].gen = ActiveGen /\ pass'[r].began = ver /\ pass'[r].pc = "index"
          /\ \A s \in Passes : s # r => pass'[s] = pass[s]
      BY <1>3 DEF BeginPass, EngineTypes, Pass
    <2>5. PassBegan'
      BY <2>2, <2>4 DEF PlanInv, PassBegan
    <2>6. WatcherPass'
      <3>1. CASE r = Watcher
        BY <1>1, <1>3, <2>1, <2>3, <2>4, <3>1 DEF BeginPass, WatcherPass, IsActive
      <3>2. CASE r # Watcher
        BY <1>1, <2>1, <2>4, <3>2, EngineAssumption DEF PlanInv, WatcherPass, IsActive
      <3> QED
        BY <3>1, <3>2
    <2> QED
      BY <1>2, <2>1, <2>5, <2>6 DEF PlanInv
  <1>4. ASSUME ReadIndex(r) \/ \E p \in Paths : ReadTruth(r, p)
        PROVE  PlanInv'
    <2>1. UNCHANGED <<jobs, seen, reg>>
      BY <1>4 DEF ReadIndex, ReadTruth, catalogVars, daemonVars, history
    <2>2. \A s \in Passes : /\ pass'[s].gen = pass[s].gen /\ pass'[s].began = pass[s].began
                            /\ pass'[s].pc # "idle" => pass[s].pc # "idle"
      <3>1. CASE ReadIndex(r)
        BY <3>1 DEF ReadIndex, EngineTypes, Pass
      <3>2. ASSUME NEW p \in Paths, ReadTruth(r, p)
            PROVE  \A s \in Passes :
                      /\ pass'[s].gen = pass[s].gen /\ pass'[s].began = pass[s].began
                      /\ pass'[s].pc # "idle" => pass[s].pc # "idle"
        BY <3>2 DEF ReadTruth, EngineTypes, Pass
      <3> QED
        BY <1>4, <3>1, <3>2
    <2>3. PassBegan' /\ WatcherPass'
      BY <1>1, <2>1, <2>2, EngineAssumption DEF PlanInv, PassBegan, WatcherPass, IsActive
    <2> QED
      BY <1>2, <2>1, <2>3 DEF PlanInv
  <1>5. ASSUME EnqueuePlan(r) \/ AbortPass(r)
        PROVE  PassBegan' /\ WatcherPass'
    <2>1. /\ pass'[r].pc = "idle"
          /\ \A s \in Passes : s # r => pass'[s] = pass[s]
      BY <1>5, NullPass DEF EnqueuePlan, AbortPass, EngineTypes
    <2>2. r # Watcher => reg' = reg
      BY <1>5 DEF EnqueuePlan, AbortPass
    <2> QED
      BY <1>1, <2>1, <2>2, EngineAssumption DEF PlanInv, PassBegan, WatcherPass, IsActive
  <1>6. CASE AbortPass(r)
    <2>1. UNCHANGED <<jobs, seen>> /\ (reg' = reg \/ reg' # "done")
      BY <1>6 DEF AbortPass, catalogVars, history
    <2> QED
      BY <1>2, <1>5, <1>6, <2>1 DEF PlanInv
  <1>7. CASE EnqueuePlan(r)
    <2>1. pass[r] \in Pass /\ \A p \in Paths : pass[r].began[p] > 0
      BY <1>7 DEF EnqueuePlan, PlanInv, PassBegan, EngineTypes
    <2>2. CASE IsActive(pass[r].gen)
      <3>1. seen' = pass[r].began
        BY <1>7, <2>2 DEF EnqueuePlan
      <3> QED
        BY <1>5, <1>7, <2>1, <3>1 DEF PlanInv, Pass
    <2>3. CASE ~IsActive(pass[r].gen)
      <3>1. seen' = seen /\ reg' = reg
        BY <1>7, <2>3 DEF EnqueuePlan, PlanInv, WatcherPass
      <3>2. \A p \in Paths : jobs'[p] = jobs[p] \/ jobs'[p].gen = pass[r].gen
        BY <1>7 DEF EnqueuePlan, UpsertJobs, PlanOf, CatalogInv, CatalogTypeOK
      <3>3. NothingPlanned => NothingPlanned'
        BY <1>1, <2>3, <3>1, <3>2 DEF NothingPlanned, ViewEmpty, Indexed, Queued, Held, IsActive
      <3> QED
        BY <1>5, <1>7, <3>1, <3>3 DEF PlanInv
    <2> QED
      BY <2>2, <2>3
  <1> QED
    BY <1>3, <1>4, <1>6, <1>7 DEF PassStep

\* A stop unregisters the worktree, an edit plans nothing.
LEMMA EnvironmentPlanStep ==
    ASSUME EngineInv, PlanInv, Stop \/ \E p \in Paths : Edit(p)
    PROVE  PlanInv'
  <1>1. UNCHANGED <<view, jobs, seen, status>>
    BY DEF Stop, Edit, catalogVars, history
  <1>2. CASE Stop
    <2>1. /\ reg' = "absent"
          /\ \A w \in Workers : work'[w].pc = "idle"
          /\ \A r \in Passes : pass'[r].pc = "idle"
      BY <1>2, NullWork, NullPass DEF Stop
    <2> QED
      BY <1>1, <2>1, EngineAssumption
      DEF PlanInv, PassBegan, WatcherPass, NothingPlanned, ViewEmpty, Indexed, Queued, Held, IsActive
  <1>3. ASSUME NEW p \in Paths, Edit(p)
        PROVE  PlanInv'
    BY <1>1, <1>3, QuietPlanStep DEF Edit, workVars, IsActive
  <1> QED
    BY <1>2, <1>3

\* PlanInv holds of the engine.
LEMMA PlanInvariant == EngineSpec => [](EngineInv /\ PlanInv)
  <1>1. EngineInit => PlanInv
    <2> SUFFICES ASSUME EngineInit
                 PROVE  PlanInv
      OBVIOUS
    <2>1. /\ \A r \in Passes : pass[r].pc = "idle"
          /\ \A w \in Workers : ~Held(w)
      BY NullPass, NullWork DEF EngineInit, Held
    <2>2. seen \in [Paths -> Nat]
      BY DEF EngineInit
    <2>3. NothingPlanned
      BY <2>1, NullRows DEF EngineInit, CatalogInit, NothingPlanned, ViewEmpty, Indexed, Queued
    <2> QED
      BY <2>1, <2>2, <2>3, EngineAssumption DEF PlanInv, PassBegan, WatcherPass
  <1>2. EngineInv /\ PlanInv /\ [EngineNext]_engineVars => PlanInv'
    <2> SUFFICES ASSUME EngineInv, PlanInv, [EngineNext]_engineVars
                 PROVE  PlanInv'
      OBVIOUS
    <2>1. CASE UNCHANGED engineVars
      BY <2>1, QuietPlanStep DEF engineVars, catalogVars, daemonVars, workVars, history, IsActive
    <2> QED
      BY <2>1, DaemonPlanStep, DispatchPlanStep, PassPlanStep, EnvironmentPlanStep
      DEF EngineNext, DaemonStep
  <1> QED
    BY <1>1, <1>2, EngineInvariant, PTL DEF EngineSpec

\* The check of the view for a row stands in for a flag that says whether the
\* worktree has been registered before: a worktree is registered only when
\* every path has been planned under the active generation, wherever between
\* the roll, the pass and the first commits the daemon was stopped before.
THEOREM RegisteredIsPlanned == EngineSpec => []DoneMeansPlanned
  <1>1. PlanInv => DoneMeansPlanned
    BY DEF PlanInv, NothingPlanned, DoneMeansPlanned
  <1> QED
    BY <1>1, PlanInvariant, PTL

(***************************************************************************)
(* That what the user saved reaches the view.  The runs engine_restored    *)
(* and engine_overwrite show where it does not: when content comes back,   *)
(* and when two dispatches of one path run at once.  Here it is proved for *)
(* the rest: any number of files, of versions, of goroutines, stops and    *)
(* faults, with the passes of the watch loop, contents that do not come    *)
(* back and, where a statement needs it, one index slot.                   *)
(***************************************************************************)

(***************************************************************************)
(* Hypotheses                                                              *)
(***************************************************************************)

\* No client calls Reconcile: the watch loop's passes are the only ones.
OnlyWatcher == Passes = {Watcher}

\* Every save of a file is of new content; it may be absent repeatedly.
NothingComesBack ==
    \A p \in Paths : \A u, v \in DOMAIN Script[p] :
        Script[p][u] = Script[p][v] /\ Script[p][u] # NoHash => u = v

\* One dispatch at a time.
OneSlot == MaxIndexInflight = 1 /\ IsFiniteSet(Workers)

\* A file is deleted only once it is indexed and nothing of it is queued.
CalmDeletes == Refrains("calm deletes")

(***************************************************************************)
(* What is in flight                                                       *)
(***************************************************************************)

\* h is a content that p has had, or none.
Had(p, h) == h = NoHash \/ \E v \in DOMAIN Script[p] : v <= ver[p] /\ Script[p][v] = h

\* The watcher's pass.
PassOn == pass[Watcher].pc # "idle"
TruthOf(p) == pass[Watcher].truth[p]
Read(p) == Script[p][TruthOf(p)]

\* p has content on disk, the newest there is.
Present(p) == Disk(p) # NoHash

\* Past its first check of the queue, with an intent that can touch the view.
InFlight(w) == work[w].pc \in {"load", "build", "check", "commit"} /\ IsActive(work[w].gen)

\* Reads happen in the order of the versions.
ReadsOrdered ==
    /\ seen \in [Paths -> Nat]
    /\ \A p \in Paths :
          /\ seen[p] <= ver[p]
          /\ PassOn => seen[p] <= pass[Watcher].began[p] /\ pass[Watcher].began[p] <= ver[p]
          /\ TruthOf(p) > 0 => /\ pass[Watcher].pc = "truth"
                               /\ pass[Watcher].began[p] <= TruthOf(p)
                               /\ TruthOf(p) <= ver[p]

\* Nothing holds a content before the file has had it.
NothingAhead ==
    \A p \in Paths :
       /\ Had(p, view[p].hash) /\ Had(p, jobs[p].hash)
       /\ \A w \in Workers : work[w].path = p => Had(p, work[w].hash)
       /\ pass[Watcher].pc = "truth" => Had(p, pass[Watcher].indexed[p])

\* The queue and the pass are of the active generation: only the registration
\* rolls, and it has no pass then.
AllActive ==
    /\ \A p \in Paths : Queued(p) => IsActive(jobs[p].gen)
    /\ PassOn => reg \in {"pass", "done"} /\ IsActive(pass[Watcher].gen)

\* A pass that has read an old content will be followed by another, and until
\* then nobody knows the new one.
StaleTruth ==
    \A p \in Paths :
       (TruthOf(p) > 0 /\ Read(p) # Disk(p) /\ Present(p))
          => /\ view[p].hash # Disk(p) /\ jobs[p].hash # Disk(p)
             /\ \A w \in Workers : work[w].path = p => work[w].hash # Disk(p)

\* Whatever shows or is about to show the newest content, the queue does not
\* want an older one.
NewestWins ==
    \A p \in Paths :
       (/\ Present(p) /\ Queued(p)
        /\ \/ view[p].hash = Disk(p)
           \/ \E w \in Workers : InFlight(w) /\ work[w].path = p /\ work[w].hash = Disk(p))
       => jobs[p].hash = Disk(p)

\* A delete is queued only if the file was absent since the last pass began.
DeletesAreFounded ==
    \A p \in Paths : Queued(p) /\ jobs[p].hash = NoHash =>
        \E v \in DOMAIN Script[p] : seen[p] <= v /\ v <= ver[p] /\ Script[p][v] = NoHash

\* A pass that found the content it had read in the index leaves no delete of
\* an earlier pass behind.
FoundIsNotDeleted ==
    \A p \in Paths :
       (/\ pass[Watcher].pc = "truth" /\ pass[Watcher].indexed[p] # NoHash
        /\ pass[Watcher].indexed[p] = IF TruthOf(p) > 0 THEN Read(p) ELSE Disk(p))
          => ~(Queued(p) /\ jobs[p].hash = NoHash)

FlightInv == /\ ReadsOrdered /\ NothingAhead /\ AllActive /\ StaleTruth
             /\ NewestWins /\ DeletesAreFounded /\ FoundIsNotDeleted


\* A step that moves no file and puts nothing in flight: rows may go and
\* mappings be dropped, goroutines let go, the pass end.
Quiet ==
    /\ ver' = ver
    /\ seen' \in [Paths -> Nat] /\ \A p \in Paths : seen'[p] <= seen[p]
    /\ \A p \in Paths : view'[p] = view[p] \/ view'[p].hash = NoHash
    /\ \A p \in Paths : \/ jobs'[p].hash = jobs[p].hash /\ jobs'[p].gen = jobs[p].gen
                        \/ jobs'[p] = NoJob
    /\ \A w \in Workers : /\ InFlight(w)' => InFlight(w)
                          /\ \/ work'[w].path = work[w].path /\ work'[w].hash = work[w].hash
                             \/ work'[w] = NoWork
    /\ pass'[Watcher] \in {pass[Watcher], NoPass}
    /\ AllActive'

\* The versions of a file, and what a pass read of it.
LEMMA Versions ==
    ASSUME EngineInv, FlightInv, NEW p \in Paths
    PROVE  /\ ver[p] \in Nat /\ ver[p] > 0 /\ ver[p] \in DOMAIN Script[p]
           /\ TruthOf(p) \in Nat /\ (TruthOf(p) > 0 => TruthOf(p) \in DOMAIN Script[p])
           /\ pass[Watcher].began[p] \in Nat /\ pass[Watcher] \in Pass
           /\ \A v \in DOMAIN Script[p] : v \in Nat /\ v > 0 /\ Script[p][v] \in Desired
  <1>1. \A v \in DOMAIN Script[p] : v \in Nat /\ v > 0 /\ Script[p][v] \in Desired
    BY DiskIsDesired
  <1>2. ver[p] \in DOMAIN Script[p]
    BY DEF EngineInv, EngineTypes
  <1>3. pass[Watcher] \in Pass
    BY EngineAssumption DEF EngineInv, EngineTypes
  <1>4. TruthOf(p) > 0 => TruthOf(p) \in DOMAIN Script[p]
    BY EngineAssumption DEF EngineInv, EngineTypes, TruthOf, Read
  <1>5. TruthOf(p) \in Nat /\ pass[Watcher].began[p] \in Nat
    BY <1>3 DEF Pass, TruthOf, Read
  <1> QED
    BY <1>1, <1>2, <1>3, <1>4, <1>5

\* The empty hand is of no path, the empty pass read nothing, no job is queued.
LEMMA Nothing ==
    /\ NoWork.path = NoPath /\ NoWork.pc = "idle" /\ NoWork.hash = NoHash
    /\ NoPass.pc = "idle" /\ (\A p \in Paths : NoPass.truth[p] = 0)
    /\ NoJob.hash = NoHash /\ NoJob.gen = 0
    /\ NoPath \notin Paths
  BY EngineAssumption DEF NoWork, NoPass, NoJob

\* A quiet step keeps what is in flight in order.
LEMMA QuietFlight ==
    ASSUME EngineInv, FlightInv, Quiet
    PROVE  FlightInv'
  <1> USE DEF FlightInv, Quiet
  <1>1. ReadsOrdered'
    <2> SUFFICES ASSUME NEW p \in Paths
                 PROVE  /\ seen'[p] <= ver'[p]
                        /\ PassOn' => /\ seen'[p] <= pass'[Watcher].began[p]
                                      /\ pass'[Watcher].began[p] <= ver'[p]
                        /\ TruthOf(p)' > 0 => /\ pass'[Watcher].pc = "truth"
                                              /\ pass'[Watcher].began[p] <= TruthOf(p)'
                                              /\ TruthOf(p)' <= ver'[p]
      BY DEF ReadsOrdered
    <2>1. seen[p] \in Nat /\ seen'[p] \in Nat
      BY DEF ReadsOrdered
    <2>2. CASE pass'[Watcher] = pass[Watcher]
      BY <2>1, <2>2, Versions DEF ReadsOrdered, PassOn, TruthOf, Read
    <2>3. CASE pass'[Watcher] = NoPass
      BY <2>1, <2>3, Versions, Nothing DEF ReadsOrdered, PassOn, TruthOf, Read
    <2> QED
      BY <2>2, <2>3
  <1>2. NothingAhead'
    BY Nothing DEF NothingAhead, Had
  <1>3. \A p \in Paths : TruthOf(p)' > 0 => pass'[Watcher] = pass[Watcher]
    BY Nothing DEF TruthOf, Read
  <1>4. StaleTruth'
    BY <1>3, Nothing DEF StaleTruth, TruthOf, Read, Disk, Present
  <1>5. \A p \in Paths : Queued(p)' => Queued(p) /\ jobs'[p].hash = jobs[p].hash
    BY Nothing DEF Queued
  <1>6. NewestWins'
    <2> SUFFICES ASSUME NEW p \in Paths, Present(p), Queued(p),
                        \/ view'[p].hash = Disk(p)
                        \/ \E w \in Workers : InFlight(w)' /\ work'[w].path = p
                                                /\ work'[w].hash = Disk(p)
                 PROVE  jobs[p].hash = Disk(p)
      BY <1>5 DEF NewestWins, Present, Disk
    <2>1. CASE view'[p].hash = Disk(p)
      BY <2>1 DEF NewestWins, Present
    <2>2. ASSUME NEW w \in Workers, InFlight(w)', work'[w].path = p, work'[w].hash = Disk(p)
          PROVE  jobs[p].hash = Disk(p)
      BY <2>2, Nothing DEF NewestWins
    <2> QED
      BY <2>1, <2>2
  <1>7. DeletesAreFounded'
    <2> SUFFICES ASSUME NEW p \in Paths, Queued(p), jobs[p].hash = NoHash
                 PROVE  \E v \in DOMAIN Script[p] : /\ seen'[p] <= v /\ v <= ver[p]
                                                    /\ Script[p][v] = NoHash
      BY <1>5 DEF DeletesAreFounded
    <2>1. PICK v \in DOMAIN Script[p] : seen[p] <= v /\ v <= ver[p] /\ Script[p][v] = NoHash
      BY DEF DeletesAreFounded
    <2>2. seen'[p] \in Nat /\ seen[p] \in Nat /\ v \in Nat /\ seen'[p] <= seen[p]
      BY Versions DEF ReadsOrdered
    <2> QED
      BY <2>1, <2>2
  <1>8. FoundIsNotDeleted'
    BY <1>5, Nothing DEF FoundIsNotDeleted, TruthOf, Read, Disk
  <1> QED
    BY <1>1, <1>2, <1>4, <1>6, <1>7, <1>8

\* Content that is written anew is nowhere yet.
LEMMA NewContent ==
    ASSUME EngineInv, FlightInv, NothingComesBack, NEW p \in Paths, Edit(p)
    PROVE  /\ ver'[p] = ver[p] + 1 /\ ver'[p] \in DOMAIN Script[p]
           /\ \A q \in Paths : q # p => ver'[q] = ver[q]
           /\ \A q \in Paths, h \in Desired : Had(q, h) => Had(q, h)'
           /\ \A h \in Desired : Had(p, h) /\ Present(p)' => h # Disk(p)'
  <1>1. /\ ver'[p] = ver[p] + 1 /\ ver'[p] \in DOMAIN Script[p]
        /\ \A q \in Paths : q # p => ver'[q] = ver[q]
    BY EditTypes DEF Edit, EngineInv, EngineTypes
  <1>2. ASSUME NEW q \in Paths, NEW h \in Desired, Had(q, h)
        PROVE  Had(q, h)'
    BY <1>1, <1>2, Versions DEF Had
  <1>3. ASSUME NEW h \in Desired, Had(p, h), Present(p)', h = Disk(p)'
        PROVE  FALSE
    <2>1. h # NoHash /\ Disk(p)' = Script[p][ver'[p]]
      BY <1>3 DEF Present, Disk
    <2>2. PICK v \in DOMAIN Script[p] : v <= ver[p] /\ Script[p][v] = h
      BY <1>3, <2>1 DEF Had
    <2>3. v = ver'[p]
      BY <1>1, <1>3, <2>1, <2>2 DEF NothingComesBack
    <2> QED
      BY <1>1, <2>2, <2>3, Versions
  <1> QED
    BY <1>1, <1>2, <1>3

\* What the engine holds of a path is a content or none.
LEMMA Contents ==
    ASSUME EngineInv, NEW p \in Paths
    PROVE  /\ view[p].hash \in Desired /\ jobs[p].hash \in Desired
           /\ \A w \in Workers : work[w].hash \in Desired
           /\ pass[Watcher].indexed[p] \in Desired
  <1>1. view[p].hash \in Desired /\ jobs[p].hash \in Desired
    BY DEF EngineInv, CatalogInv, CatalogTypeOK, Row, Job
  <1>2. pass[Watcher] \in Pass
    BY EngineAssumption DEF EngineInv, EngineTypes
  <1>3. \A w \in Workers : work[w].hash \in Desired
    BY DEF EngineInv, EngineTypes, Work
  <1> QED
    BY <1>1, <1>2, <1>3 DEF Pass

\* An edit makes every read an old one.
LEMMA EditFlight ==
    ASSUME EngineInv, FlightInv, NothingComesBack, NEW p \in Paths, Edit(p)
    PROVE  FlightInv'
  <1> USE DEF FlightInv
  <1>1. /\ UNCHANGED <<view, jobs, status, work, pass, seen, reg>>
        /\ \A w \in Workers : InFlight(w)' <=> InFlight(w)
        /\ \A q \in Paths : TruthOf(q)' = TruthOf(q) /\ (Queued(q)' <=> Queued(q))
        /\ PassOn' <=> PassOn
    BY DEF Edit, catalogVars, workVars, InFlight, IsActive, TruthOf, Read, Queued, PassOn
  <1>2. /\ ver'[p] = ver[p] + 1
        /\ \A q \in Paths : q # p => ver'[q] = ver[q] /\ Disk(q)' = Disk(q)
        /\ \A q \in Paths : ver[q] <= ver'[q] /\ ver'[q] \in Nat
        /\ \A q \in Paths, h \in Desired : Had(q, h) => Had(q, h)'
        /\ \A h \in Desired : Had(p, h) /\ Present(p)' => h # Disk(p)'
    BY NewContent, Versions DEF Disk
  <1>3. ReadsOrdered'
    BY <1>1, <1>2, Versions DEF ReadsOrdered, PassOn, TruthOf, Read
  <1>4. NothingAhead'
    BY <1>1, <1>2, Contents DEF NothingAhead
  <1>5. AllActive'
    BY <1>1 DEF AllActive, IsActive
  <1>6. StaleTruth'
    BY <1>1, <1>2, Contents DEF StaleTruth, NothingAhead, Present, Read
  <1>7. NewestWins'
    BY <1>1, <1>2, Contents DEF NewestWins, NothingAhead, Present
  <1>8. DeletesAreFounded'
    BY <1>1, <1>2, Versions DEF DeletesAreFounded
  <1>9. FoundIsNotDeleted'
    BY <1>1, <1>2, Contents DEF FoundIsNotDeleted, NothingAhead, Present, Read
  <1> QED
    BY <1>3, <1>4, <1>5, <1>6, <1>7, <1>8, <1>9

\* A pass begins with what is on disk.
LEMMA BeginFlight ==
    ASSUME EngineInv, FlightInv, BeginPass(Watcher)
    PROVE  FlightInv'
  <1> USE DEF FlightInv
  <1>1. /\ UNCHANGED <<view, jobs, status, work, ver, seen, reg>>
        /\ \A w \in Workers : InFlight(w)' <=> InFlight(w)
        /\ \A q \in Paths : Queued(q)' <=> Queued(q)
    BY DEF BeginPass, catalogVars, workVars, history, InFlight, IsActive, Queued
  <1>2. /\ pass[Watcher].pc = "idle" /\ reg \in {"pass", "done"}
        /\ IsActive(ActiveGen)
        /\ pass'[Watcher] = [pass[Watcher] EXCEPT !.pc = "index", !.gen = ActiveGen, !.began = ver]
    BY ActiveGenIsActive, EngineAssumption DEF BeginPass, EngineInv, EngineTypes
  <1>3. /\ pass'[Watcher].pc = "index" /\ pass'[Watcher].gen = ActiveGen
        /\ pass'[Watcher].began = ver
        /\ \A q \in Paths : TruthOf(q)' = TruthOf(q)
    BY <1>2, Versions DEF Pass, TruthOf, Read
  <1>4. \A q \in Paths : TruthOf(q) = 0
    BY <1>2, Versions DEF ReadsOrdered
  <1>5. ReadsOrdered'
    BY <1>1, <1>3, <1>4, Versions DEF ReadsOrdered
  <1>6. NothingAhead'
    BY <1>1, <1>3 DEF NothingAhead, Had
  <1>7. AllActive'
    BY <1>1, <1>2, <1>3 DEF AllActive, IsActive
  <1>8. StaleTruth' /\ FoundIsNotDeleted'
    BY <1>3, <1>4 DEF StaleTruth, FoundIsNotDeleted
  <1>9. NewestWins' /\ DeletesAreFounded'
    BY <1>1 DEF NewestWins, DeletesAreFounded, Present, Disk
  <1> QED
    BY <1>5, <1>6, <1>7, <1>8, <1>9

\* A pass reads the view, then the tree.
LEMMA ReadFlight ==
    ASSUME EngineInv, FlightInv, ReadIndex(Watcher) \/ \E p \in Paths : ReadTruth(Watcher, p)
    PROVE  FlightInv'
  <1> USE DEF FlightInv
  <1>1. /\ UNCHANGED <<view, jobs, status, work, ver, seen, reg>>
        /\ \A w \in Workers : InFlight(w)' <=> InFlight(w)
        /\ \A q \in Paths : Queued(q)' <=> Queued(q)
    BY DEF ReadIndex, ReadTruth, catalogVars, daemonVars, workVars, history, InFlight, IsActive,
       Queued
  <1>2. /\ PassOn /\ PassOn' /\ pass'[Watcher].pc = "truth"
        /\ pass'[Watcher].gen = pass[Watcher].gen /\ pass'[Watcher].began = pass[Watcher].began
        /\ \/ /\ \A q \in Paths : TruthOf(q) = 0 /\ TruthOf(q)' = 0
              /\ \A q \in Paths : pass'[Watcher].indexed[q] = view[q].hash
           \/ /\ \A q \in Paths : \/ TruthOf(q)' = TruthOf(q)
                                  \/ TruthOf(q) = 0 /\ TruthOf(q)' = ver[q]
              /\ pass'[Watcher].indexed = pass[Watcher].indexed /\ pass[Watcher].pc = "truth"
    <2>1. CASE ReadIndex(Watcher)
      <3>1. /\ pass'[Watcher] = [pass[Watcher] EXCEPT !.pc = "truth",
                                     !.indexed = [p \in Paths |-> view[p].hash]]
            /\ pass[Watcher].pc = "index"
        BY <2>1, EngineAssumption DEF ReadIndex, EngineInv, EngineTypes
      <3>2. \A q \in Paths : TruthOf(q) = 0
        BY <3>1, Versions DEF ReadsOrdered
      <3> QED
        BY <3>1, <3>2, Versions DEF Pass, PassOn, TruthOf, Read
    <2>2. ASSUME NEW p \in Paths, ReadTruth(Watcher, p)
          PROVE  /\ PassOn /\ PassOn' /\ pass'[Watcher].pc = "truth" /\ pass[Watcher].pc = "truth"
                 /\ pass'[Watcher].gen = pass[Watcher].gen
                 /\ pass'[Watcher].began = pass[Watcher].began
                 /\ \A q \in Paths : \/ TruthOf(q)' = TruthOf(q)
                                     \/ TruthOf(q) = 0 /\ TruthOf(q)' = ver[q]
                 /\ pass'[Watcher].indexed = pass[Watcher].indexed
      <3>1. /\ pass'[Watcher] = [pass[Watcher] EXCEPT !.truth[p] = ver[p]]
            /\ pass[Watcher].pc = "truth" /\ TruthOf(p) = 0
        BY <2>2, EngineAssumption DEF ReadTruth, EngineInv, EngineTypes, TruthOf, Read
      <3> QED
        BY <3>1, Versions DEF Pass, PassOn, TruthOf, Read
    <2> QED
      BY <2>1, <2>2
  <1>3. ReadsOrdered'
    BY <1>1, <1>2, Versions DEF ReadsOrdered
  <1>4. NothingAhead'
    BY <1>1, <1>2 DEF NothingAhead, Had
  <1>5. AllActive'
    BY <1>1, <1>2 DEF AllActive, IsActive
  <1>6. StaleTruth'
    BY <1>1, <1>2 DEF StaleTruth, Present, Read, Disk
  <1>7. NewestWins' /\ DeletesAreFounded'
    BY <1>1 DEF NewestWins, DeletesAreFounded, Present, Disk
  <1>8. FoundIsNotDeleted'
    BY <1>1, <1>2, Versions DEF FoundIsNotDeleted, NewestWins, Present, Read, Disk
  <1> QED
    BY <1>3, <1>4, <1>5, <1>6, <1>7, <1>8

\* The plan of a pass of the active generation is accepted as a whole.
LEMMA PlanIsEnqueued ==
    ASSUME EngineInv, FlightInv, EnqueuePlan(Watcher)
    PROVE  \A p \in Paths :
              IF pass[Watcher].indexed[p] # Read(p)
              THEN jobs'[p].hash = Read(p) /\ jobs'[p].gen = pass[Watcher].gen
              ELSE jobs'[p] = jobs[p]
  <1>1. /\ pass[Watcher].gen \in Gens /\ IsActive(pass[Watcher].gen)
        /\ \A p \in Paths : jobs[p].gen \in 0..MaxGen
    BY EngineAssumption DEF EnqueuePlan, FlightInv, AllActive, PassOn, EngineInv, OnlyServed,
       CatalogInv,
       CatalogTypeOK, Job
  <1>2. \A p \in Paths : Queued(p) => jobs[p].gen = pass[Watcher].gen
    BY <1>1 DEF FlightInv, AllActive, EngineInv, CatalogInv, OneActive, Queued, Gens
  <1>3. \A p \in Paths : Accepts(p, pass[Watcher].gen)
    BY <1>1, <1>2 DEF Accepts, Queued, Gens
  <1> QED
    BY <1>3 DEF EnqueuePlan, UpsertJobs, PlanOf, Truth, TruthOf, Read

\* A pass that ends leaves every row at least as new as what it read.
LEMMA EnqueueFlight ==
    ASSUME EngineInv, FlightInv, EnqueuePlan(Watcher)
    PROVE  FlightInv'
  <1> USE DEF FlightInv
  <1>1. /\ UNCHANGED <<view, status, work, ver>> /\ seen' = pass[Watcher].began
        /\ pass'[Watcher] = NoPass /\ pass[Watcher].pc = "truth"
        /\ \A w \in Workers : InFlight(w)' <=> InFlight(w)
    BY EngineAssumption DEF EnqueuePlan, UpsertJobs, AllActive, PassOn, workVars, InFlight,
       IsActive, EngineInv, EngineTypes
  <1>2. \A p \in Paths : /\ TruthOf(p) > 0 /\ TruthOf(p) \in DOMAIN Script[p]
                         /\ seen'[p] <= TruthOf(p) /\ TruthOf(p) <= ver[p]
                         /\ Had(p, Read(p)) /\ Read(p) \in Desired
    BY <1>1, Versions DEF EnqueuePlan, TruthOf, ReadsOrdered, Had, Read
  <1>3. \A p \in Paths :
           IF pass[Watcher].indexed[p] # Read(p)
           THEN jobs'[p].hash = Read(p) /\ jobs'[p].gen = pass[Watcher].gen
           ELSE jobs'[p] = jobs[p]
    BY PlanIsEnqueued
  <1>a. ~PassOn' /\ \A p \in Paths : TruthOf(p)' = 0
    BY <1>1, Nothing DEF PassOn, TruthOf, Read
  <1>b. \A p \in Paths : \/ jobs'[p] = jobs[p]
                        \/ /\ jobs'[p].hash = Read(p)
                           /\ jobs'[p].gen = pass[Watcher].gen
    BY <1>3
  <1>4. ReadsOrdered'
    <2>1. seen' \in [Paths -> Nat]
      BY <1>1, EngineAssumption DEF EngineInv, EngineTypes, Pass
    <2>2. \A p \in Paths : seen'[p] <= ver'[p]
      BY <1>1, <1>2, <2>1, Versions
    <2> QED
      BY <1>a, <2>1, <2>2 DEF ReadsOrdered
  <1>5. NothingAhead'
    BY <1>1, <1>2, <1>b, Nothing DEF NothingAhead, Had
  <1>6. AllActive'
    BY <1>1, <1>a, <1>b DEF AllActive, PassOn, Queued, IsActive
  <1>7. StaleTruth' /\ FoundIsNotDeleted'
    BY <1>1, <1>a, Nothing DEF StaleTruth, FoundIsNotDeleted
  <1>8. NewestWins'
    <2> SUFFICES ASSUME NEW p \in Paths, Present(p), Queued(p)',
                        \/ view[p].hash = Disk(p)
                        \/ \E w \in Workers : InFlight(w) /\ work[w].path = p /\ work[w].hash = Disk(p)
                 PROVE  jobs'[p].hash = Disk(p)
      BY <1>1 DEF NewestWins, Present, Disk
    <2>1. CASE pass[Watcher].indexed[p] # Read(p)
      <3>1. jobs'[p].hash = Read(p)
        BY <1>3, <2>1
      <3>2. Read(p) = Disk(p)
        BY <1>2 DEF StaleTruth, Read
      <3> QED
        BY <3>1, <3>2
    <2>2. CASE pass[Watcher].indexed[p] = Read(p)
      BY <1>3, <2>2 DEF NewestWins, Queued
    <2> QED
      BY <2>1, <2>2
  <1>9. DeletesAreFounded'
    <2> SUFFICES ASSUME NEW p \in Paths, Queued(p)', jobs'[p].hash = NoHash
                 PROVE  Read(p) = NoHash
      BY <1>1, <1>2 DEF DeletesAreFounded, Read
    <2>1. CASE pass[Watcher].indexed[p] # Read(p)
      BY <1>3, <2>1
    <2>2. CASE pass[Watcher].indexed[p] = Read(p)
      BY <1>1, <1>2, <1>3, <2>2 DEF FoundIsNotDeleted, Queued, Read
    <2> QED
      BY <2>1, <2>2
  <1> QED
    BY <1>4, <1>5, <1>6, <1>7, <1>8, <1>9

\* A claim copies the row into a hand that is not in flight yet.
LEMMA ClaimFlight ==
    ASSUME EngineInv, FlightInv, NEW w \in Workers, NEW p \in Paths, Claim(w, p)
    PROVE  FlightInv'
  <1> USE DEF FlightInv
  <1>1. UNCHANGED <<view, status, ver, seen, pass, reg>>
    BY DEF Claim, ClaimNextJob, daemonVars, history
  <1>2. \A q \in Paths : /\ jobs'[q].hash = jobs[q].hash /\ jobs'[q].gen = jobs[q].gen
                         /\ Queued(q)' <=> Queued(q)
    BY DEF Claim, ClaimNextJob, EngineInv, CatalogInv, CatalogTypeOK, Job, Queued
  <1>3. /\ work'[w].pc = "precheck" /\ work'[w].path = p /\ work'[w].hash = jobs[p].hash
        /\ \A v \in Workers : v # w => work'[v] = work[v]
    BY DEF Claim, EngineInv, EngineTypes
  <1>4. \A v \in Workers : InFlight(v)' => v # w /\ InFlight(v)
    BY <1>1, <1>3 DEF InFlight, IsActive
  <1>5. ReadsOrdered'
    BY <1>1 DEF ReadsOrdered, PassOn, TruthOf, Read
  <1>6. NothingAhead'
    BY <1>1, <1>2, <1>3 DEF NothingAhead, Had
  <1>7. AllActive'
    BY <1>1, <1>2 DEF AllActive, IsActive, PassOn
  <1>8. StaleTruth'
    BY <1>1, <1>2, <1>3 DEF StaleTruth, TruthOf, Read, Present, Disk
  <1>9. NewestWins'
    BY <1>1, <1>2, <1>3, <1>4 DEF NewestWins, Present, Disk
  <1>10. DeletesAreFounded' /\ FoundIsNotDeleted'
    BY <1>1, <1>2 DEF DeletesAreFounded, FoundIsNotDeleted, TruthOf, Read, Disk
  <1> QED
    BY <1>5, <1>6, <1>7, <1>8, <1>9, <1>10

\* Passes, registration, files and the reads are nothing a dispatch writes.
LEMMA DispatchFrame ==
    ASSUME NEW w \in Workers, WorkerStep(w) \/ Redispatch(w)
    PROVE  /\ UNCHANGED <<ver, seen, missed, pass, status, genFp, reg, dirty>>
           /\ Commit(w) \/ view' = view
           /\ Commit(w) \/ Terminate(w) \/ UNCHANGED <<dead, jobs>>
  <1>1. CASE Commit(w)
    BY <1>1 DEF Commit, CommitUpdate, CommitDelete, daemonVars
  <1>2. CASE Terminate(w)
    BY <1>2 DEF Terminate, DeadLetterJob, daemonVars, history
  <1>3. CASE PreCheck(w) \/ PostCheck(w) \/ Redispatch(w) \/ Load(w) \/ Build(w)
    BY <1>3 DEF PreCheck, PostCheck, Redispatch, Load, Build, catalogVars, daemonVars, history
  <1>4. CASE Transient(w) \/ Permanent(w) \/ TerminateFails(w)
    BY <1>4 DEF Transient, Permanent, TerminateFails, catalogVars, daemonVars, history
  <1> QED
    BY <1>1, <1>2, <1>3, <1>4 DEF WorkerStep

\* A dispatch keeps its intent or lets it go.
LEMMA DispatchKeeps ==
    ASSUME EngineInv, NEW w \in Workers, WorkerStep(w) \/ Redispatch(w)
    PROVE  /\ Held(w) /\ work[w].path \in Paths /\ work[w].gen \in Gens /\ Served(work[w].gen)
           /\ \A v \in Workers : v # w => work'[v] = work[v]
           /\ \/ work'[w] = NoWork
              \/ /\ work'[w].path = work[w].path /\ work'[w].hash = work[w].hash
                 /\ work'[w].gen = work[w].gen
           /\ \A p \in Paths : \/ jobs'[p] = jobs[p]
                               \/ /\ p = work[w].path /\ jobs'[p] = NoJob
                                  /\ Matches(p, work[w].hash, work[w].gen)
  <1>1. Held(w) /\ work[w].path \in Paths /\ work[w].gen \in Gens /\ Served(work[w].gen)
    BY DispatchOutcome DEF EngineInv, EngineTypes, OnlyServed
  <1>2. /\ \A v \in Workers : v # w => work'[v] = work[v]
        /\ \/ work'[w] = NoWork
           \/ /\ work'[w].path = work[w].path /\ work'[w].hash = work[w].hash
              /\ work'[w].gen = work[w].gen
    BY DispatchOutcome DEF GoTo, Finish, EngineInv, EngineTypes, Work
  <1>3. \A p \in Paths : \/ jobs'[p] = jobs[p]
                         \/ /\ p = work[w].path /\ jobs'[p] = NoJob
                            /\ Matches(p, work[w].hash, work[w].gen)
    BY <1>1, DispatchOutcome DEF Complete, EngineInv, CatalogInv, CatalogTypeOK
  <1> QED
    BY <1>1, <1>2, <1>3

\* The first check lets an intent through only if the queue still wants it.
LEMMA PreCheckPasses ==
    ASSUME EngineInv, AllActive, NEW w \in Workers, PreCheck(w), InFlight(w)'
    PROVE  /\ Queued(work[w].path) /\ jobs[work[w].path].hash = work[w].hash
           /\ jobs' = jobs /\ work[w].path \in Paths /\ work'[w].path = work[w].path
           /\ work'[w].hash = work[w].hash
  <1>1. WorkerStep(w)
    BY DEF WorkerStep
  <1>2. work'[w] # NoWork /\ jobs' = jobs /\ status' = status
    BY Nothing DEF PreCheck, InFlight, catalogVars
  <1>3. ~Superseded(w)
    BY <1>2 DEF PreCheck, Finish, EngineInv, EngineTypes
  <1>4. IsActive(work[w].gen)
    BY <1>1, <1>2, DispatchKeeps DEF InFlight, IsActive
  <1>5. Queued(work[w].path) /\ jobs[work[w].path].gen = work[w].gen
    BY <1>1, <1>3, <1>4, DispatchKeeps DEF Superseded, AllActive, EngineInv, CatalogInv,
       CatalogTypeOK, OneActive, Job, Gens, Queued
  <1> QED
    BY <1>1, <1>2, <1>3, <1>5, DispatchKeeps DEF Superseded

\* A dispatch that neither takes off nor writes content is quiet.
LEMMA QuietDispatch ==
    ASSUME EngineInv, FlightInv, NEW w \in Workers, WorkerStep(w) \/ Redispatch(w),
           ~(PreCheck(w) /\ InFlight(w)'), Commit(w) => work[w].hash = NoHash
    PROVE  Quiet
  <1> USE DEF FlightInv
  <1>1. /\ UNCHANGED <<ver, seen, pass, status, reg>>
        /\ seen \in [Paths -> Nat] /\ \A p \in Paths : seen[p] <= seen[p]
    BY DispatchFrame DEF ReadsOrdered
  <1>2. \A p \in Paths : view'[p] = view[p] \/ view'[p].hash = NoHash
    BY DispatchFrame, NullRows DEF Commit, CommitDelete, EngineInv, CatalogInv, CatalogTypeOK
  <1>3. \A p \in Paths : \/ jobs'[p].hash = jobs[p].hash /\ jobs'[p].gen = jobs[p].gen
                         \/ jobs'[p] = NoJob
    BY DispatchKeeps
  <1>4. InFlight(w)' => InFlight(w)
    <2>1. CASE PreCheck(w) \/ Redispatch(w) \/ Commit(w) \/ Terminate(w)
      BY <2>1, Nothing DEF InFlight, Redispatch, Commit, Terminate, Finish, GoTo, EngineInv,
         EngineTypes, Work
    <2>2. CASE Load(w) \/ Build(w) \/ PostCheck(w) \/ Transient(w) \/ Permanent(w) \/ TerminateFails(w)
      BY <1>1, <2>2, Nothing DEF InFlight, IsActive, Load, Build, PostCheck, Transient, Permanent,
         TerminateFails, Finish, GoTo, EngineInv, EngineTypes, Work
    <2> QED
      BY <2>1, <2>2 DEF WorkerStep
  <1>5. \A v \in Workers : /\ InFlight(v)' => InFlight(v)
                           /\ \/ work'[v].path = work[v].path /\ work'[v].hash = work[v].hash
                              \/ work'[v] = NoWork
    BY <1>1, <1>4, DispatchKeeps DEF InFlight, IsActive
  <1>6. AllActive'
    BY <1>1, <1>3, Nothing DEF AllActive, PassOn, Queued, IsActive
  <1> QED
    BY <1>1, <1>2, <1>3, <1>5, <1>6 DEF Quiet

\* The first check puts an intent in flight that the queue wants.
LEMMA PreCheckFlight ==
    ASSUME EngineInv, FlightInv, NEW w \in Workers, PreCheck(w), InFlight(w)'
    PROVE  FlightInv'
  <1> USE DEF FlightInv
  <1>1. WorkerStep(w)
    BY DEF WorkerStep
  <1>2. UNCHANGED <<view, jobs, status, ver, seen, pass, reg>>
    BY <1>1, DispatchFrame DEF PreCheck, catalogVars
  <1>3. /\ \A v \in Workers : v # w => work'[v] = work[v] /\ (InFlight(v)' <=> InFlight(v))
        /\ Queued(work[w].path) /\ jobs[work[w].path].hash = work[w].hash
        /\ work'[w].path = work[w].path /\ work'[w].hash = work[w].hash
    BY <1>1, <1>2, PreCheckPasses, DispatchKeeps DEF InFlight, IsActive
  <1>4. ReadsOrdered' /\ AllActive'
    BY <1>2 DEF ReadsOrdered, AllActive, PassOn, TruthOf, Queued, IsActive
  <1>5. NothingAhead' /\ StaleTruth'
    BY <1>2, <1>3 DEF NothingAhead, Had, StaleTruth, Present, Disk, TruthOf, Read
  <1>6. NewestWins'
    BY <1>2, <1>3 DEF NewestWins, Present, Disk, Queued
  <1>7. DeletesAreFounded' /\ FoundIsNotDeleted'
    BY <1>2 DEF DeletesAreFounded, FoundIsNotDeleted, Disk, TruthOf, Read, Queued
  <1> QED
    BY <1>4, <1>5, <1>6, <1>7

\* What a commit does to the mapping of its path.
LEMMA CommitShows ==
    ASSUME EngineInv, NEW w \in Workers, Commit(w), work[w].hash # NoHash
    PROVE  /\ \A p \in Paths : \/ view'[p] = view[p]
                               \/ p = work[w].path /\ InFlight(w) /\ view'[p].hash = work[w].hash
           /\ InFlight(w) => view'[work[w].path].hash = work[w].hash
  <1>1. /\ CommitUpdate(work[w].path, work[w].hash, work[w].gen) /\ work[w].pc = "commit"
        /\ WorkerStep(w)
    BY DEF Commit, WorkerStep
  <1>2. work[w].path \in Paths /\ work[w].gen \in Gens /\ Served(work[w].gen)
    BY <1>1, DispatchKeeps
  <1>3. TouchesActiveView(work[w].gen) <=> IsActive(work[w].gen)
    BY <1>2, TouchIsActive DEF EngineInv, TouchesActiveView
  <1>4. IsActive(work[w].gen) => work[w].gen >= view[work[w].path].gen
    BY <1>2, ActiveIsNewest DEF EngineInv
  <1> QED
    BY <1>1, <1>2, <1>3, <1>4 DEF CommitUpdate, InFlight, EngineInv, CatalogInv, CatalogTypeOK

\* A commit shows content the queue no longer wants an older one than.
LEMMA CommitFlight ==
    ASSUME EngineInv, FlightInv, NEW w \in Workers, Commit(w), work[w].hash # NoHash
    PROVE  FlightInv'
  <1> USE DEF FlightInv
  <1>1. WorkerStep(w) /\ work'[w] = NoWork
    BY DEF WorkerStep, Commit, Finish, EngineInv, EngineTypes
  <1>2. UNCHANGED <<status, ver, seen, pass, reg>>
    BY <1>1, DispatchFrame
  <1>3. /\ work[w].path \in Paths
        /\ \A v \in Workers : v # w => work'[v] = work[v]
        /\ \A v \in Workers : InFlight(v)' => v # w /\ InFlight(v)
    BY <1>1, <1>2, DispatchKeeps, Nothing DEF InFlight, IsActive
  <1>4. \A p \in Paths : /\ jobs'[p] = jobs[p] \/ jobs'[p] = NoJob
                         /\ Queued(p)' => jobs'[p] = jobs[p] /\ Queued(p)
    BY <1>1, DispatchKeeps, Nothing DEF Queued
  <1>5. ReadsOrdered' /\ AllActive'
    BY <1>2, <1>4 DEF ReadsOrdered, AllActive, PassOn, TruthOf, IsActive
  <1>6. NothingAhead'
    BY <1>1, <1>2, <1>3, <1>4, CommitShows, Nothing DEF NothingAhead, Had
  <1>7. StaleTruth'
    BY <1>1, <1>2, <1>3, <1>4, CommitShows, Nothing
    DEF StaleTruth, Present, Disk, TruthOf, Read
  <1>8. NewestWins'
    BY <1>1, <1>2, <1>3, <1>4, CommitShows DEF NewestWins, Present, Disk
  <1>9. DeletesAreFounded' /\ FoundIsNotDeleted'
    BY <1>2, <1>4 DEF DeletesAreFounded, FoundIsNotDeleted, Disk, TruthOf, Read
  <1> QED
    BY <1>5, <1>6, <1>7, <1>8, <1>9

\* The registration activates nothing that is held, and rolls without a pass.
LEMMA QuietDaemon ==
    ASSUME EngineInv, FlightInv, DaemonStep
    PROVE  Quiet
  <1> USE DEF FlightInv
  <1>1. UNCHANGED <<ver, work, pass>>
    BY DEF DaemonStep, RegisterStep, Start, Register, FingerprintMatches, FindSlot, Roll,
       CheckView, RegisterFails, RegisterAgain, Recover, RecoverFails, workVars
  <1>2. seen \in [Paths -> Nat]
    BY DEF ReadsOrdered
  <1>3. /\ seen' = seen \/ seen' = [p \in Paths |-> 0]
        /\ view' = view \/ view' = [p \in Paths |-> NoRow]
    BY DEF DaemonStep, RegisterStep, Start, Register, FingerprintMatches, FindSlot, Roll,
       CheckView, RegisterFails, RegisterAgain, Recover, RecoverFails, history, catalogVars,
       EnsureActiveGeneration, CreateGeneration, RollWorktreeGeneration, RequeueClaimedJobs
  <1>4. \A p \in Paths : \/ jobs'[p].hash = jobs[p].hash /\ jobs'[p].gen = jobs[p].gen
                         \/ jobs'[p] = NoJob
    BY DEF DaemonStep, RegisterStep, Start, Register, FingerprintMatches, FindSlot, Roll,
       CheckView, RegisterFails, RegisterAgain, Recover, RecoverFails, history, catalogVars,
       EnsureActiveGeneration, CreateGeneration, RollWorktreeGeneration, RequeueClaimedJobs
  <1>5. \A g \in Gens : Served(g) /\ IsActive(g)' => IsActive(g)
    <2>1. CASE Roll
      <3>1. PICK n \in Gens : n = NextSlot /\ IsSlot(n)
        BY <2>1, LeastSlot DEF Roll, EngineInv, SlotFound
      <3>2. PICK a \in Gens : IsActive(a)
        BY <2>1 DEF Roll, EngineInv, EnsuredActive, NoneActive
      <3>3. ActiveGen = a
        BY <3>2, ActiveGenIsTheOne DEF EngineInv, CatalogInv
      <3>4. \A g \in Gens : Served(g) => g < n
        BY <3>1, <3>2, <3>3 DEF EngineInv, CatalogInv, RetiredIsOlder, OneActive, Served,
           IsSlot, IsActive, Gens
      <3> QED
        BY <2>1, <3>1, <3>4 DEF Roll, RollWorktreeGeneration, IsActive, Gens
    <2>2. CASE Register
      <3>1. NoneActive => \A g \in Gens : ~Served(g)
        BY DEF EngineInv, CatalogInv, EmptyUntilActive, Served
      <3>2. ~NoneActive => \A g \in Gens : IsActive(g)' => IsActive(g)
        BY <2>2, CatalogAssumption DEF Register, EnsureActiveGeneration, IsActive, EngineInv,
           CatalogInv, CatalogTypeOK
      <3> QED
        BY <3>1, <3>2
    <2>3. CASE FindSlot
      BY <2>3, LeastSlot DEF FindSlot, CreateGeneration, catalogVars, IsActive, EngineInv,
         CatalogInv, CatalogTypeOK
    <2>4. ~Roll /\ ~Register /\ ~FindSlot => status' = status
      BY DEF DaemonStep, RegisterStep, Start, FingerprintMatches, CheckView, RegisterFails,
         RegisterAgain, Recover, RecoverFails, catalogVars, RequeueClaimedJobs
    <2> QED
      BY <2>1, <2>2, <2>3, <2>4 DEF IsActive
  <1>6. \A w \in Workers : InFlight(w)' => InFlight(w)
    <2> SUFFICES ASSUME NEW w \in Workers, InFlight(w)'
                 PROVE  InFlight(w)
      OBVIOUS
    <2>1. Held(w) /\ work'[w] = work[w]
      BY <1>1 DEF InFlight, Held
    <2> QED
      BY <1>5, <2>1 DEF InFlight, EngineInv, EngineTypes, OnlyServed, IsActive
  <1>7. AllActive'
    <2>1. CASE Roll
      <3>1. reg = "roll" /\ \A p \in Paths : jobs'[p] = NoJob
        BY <2>1 DEF Roll, RollWorktreeGeneration
      <3> QED
        BY <1>1, <3>1, Nothing DEF AllActive, PassOn, Queued
    <2>2. CASE ~Roll
      <3>1. \A g \in Gens : IsActive(g) => IsActive(g)'
        BY <2>2, CatalogAssumption DEF DaemonStep, RegisterStep, Start, Register,
           FingerprintMatches,
           FindSlot, CheckView, RegisterFails, RegisterAgain, Recover, RecoverFails, catalogVars,
           EnsureActiveGeneration, CreateGeneration, RequeueClaimedJobs, IsActive, EngineInv,
           CatalogInv, CatalogTypeOK
      <3>2. ~Up => reg = "absent"
        BY CatalogAssumption DEF EngineInv, EngineTypes, Up
      <3>3. PassOn => reg' = reg
        BY <2>2, <3>2 DEF AllActive, DaemonStep, RegisterStep, Start, Register,
           FingerprintMatches,
           FindSlot, CheckView, RegisterFails, RegisterAgain, Recover, RecoverFails
      <3>4. \A p \in Paths : Queued(p) => jobs[p].gen \in Gens
        BY DEF EngineInv, CatalogInv, CatalogTypeOK, Queued, Job, Gens
      <3>5. PassOn => pass[Watcher].gen \in Gens
        BY EngineAssumption DEF EngineInv, OnlyServed, PassOn
      <3> QED
        BY <1>1, <1>4, <3>1, <3>3, <3>4, <3>5, Nothing DEF AllActive, PassOn, Queued, IsActive
    <2> QED
      BY <2>1, <2>2
  <1> QED
    BY <1>1, <1>2, <1>3, <1>4, <1>6, <1>7, NullRows DEF Quiet

\* What was in memory is gone, or a pass of it.
LEMMA QuietEnd ==
    ASSUME EngineInv, FlightInv, Stop \/ AbortPass(Watcher) \/ UNCHANGED engineVars
    PROVE  Quiet
  <1> USE DEF FlightInv
  <1>1. /\ UNCHANGED <<view, jobs, status, ver, seen>>
        /\ work' = work \/ work' = [w \in Workers |-> NoWork]
        /\ pass'[Watcher] = NoPass \/ UNCHANGED <<pass, reg>>
    <2>1. CASE Stop
      BY <2>1, EngineAssumption DEF Stop, catalogVars
    <2>2. CASE AbortPass(Watcher)
      BY <2>2, EngineAssumption DEF AbortPass, catalogVars, workVars, history, EngineInv,
         EngineTypes
    <2>3. CASE UNCHANGED engineVars
      BY <2>3 DEF engineVars, catalogVars, daemonVars, workVars, history
    <2> QED
      BY <2>1, <2>2, <2>3
  <1>2. \A w \in Workers : InFlight(w)' => InFlight(w)
    BY <1>1, Nothing DEF InFlight, IsActive
  <1>3. AllActive'
    BY <1>1, Nothing DEF AllActive, PassOn, Queued, IsActive
  <1> QED
    BY <1>1, <1>2, <1>3 DEF Quiet, ReadsOrdered

\* Every step keeps what is in flight in order.
LEMMA FlightStep ==
    ASSUME OnlyWatcher, NothingComesBack, EngineInv, FlightInv, [EngineNext]_engineVars
    PROVE  FlightInv'
  <1>1. ASSUME NEW w \in Workers, WorkerStep(w) \/ Redispatch(w)
        PROVE  FlightInv'
    <2>1. CASE PreCheck(w) /\ InFlight(w)'
      BY <2>1, PreCheckFlight
    <2>2. CASE Commit(w) /\ work[w].hash # NoHash
      BY <2>2, CommitFlight
    <2>3. CASE ~(PreCheck(w) /\ InFlight(w)') /\ ~(Commit(w) /\ work[w].hash # NoHash)
      BY <1>1, <2>3, QuietDispatch, QuietFlight
    <2> QED
      BY <2>1, <2>2, <2>3
  <1>2. ASSUME NEW w \in Workers, NEW p \in Paths, Claim(w, p)
        PROVE  FlightInv'
    BY <1>2, ClaimFlight
  <1>3. ASSUME BeginPass(Watcher) \/ PassStep(Watcher)
        PROVE  FlightInv'
    BY <1>3, BeginFlight, ReadFlight, EnqueueFlight, QuietEnd, QuietFlight DEF PassStep
  <1>4. DaemonStep => FlightInv'
    BY QuietDaemon, QuietFlight
  <1>5. Stop \/ UNCHANGED engineVars => FlightInv'
    BY QuietEnd, QuietFlight
  <1>6. ASSUME NEW p \in Paths, Edit(p)
        PROVE  FlightInv'
    BY <1>6, EditFlight
  <1> QED
    BY <1>1, <1>2, <1>3, <1>4, <1>5, <1>6 DEF EngineNext, DaemonStep, OnlyWatcher

\* At the start nothing is in flight.
LEMMA FlightInit ==
    ASSUME EngineInit
    PROVE  FlightInv
  <1>1. /\ seen = [p \in Paths |-> 0] /\ pass[Watcher] = NoPass
        /\ \A p \in Paths : /\ ver[p] = 1 /\ view[p] = NoRow /\ jobs[p] = NoJob
        /\ \A w \in Workers : work[w] = NoWork
    BY EngineAssumption DEF EngineInit, CatalogInit
  <1> QED
    BY <1>1, Nothing, NullRows
    DEF FlightInv, ReadsOrdered, NothingAhead, AllActive, StaleTruth, NewestWins, DeletesAreFounded,
        FoundIsNotDeleted, Had, TruthOf, PassOn, Queued

\* FlightInv holds of the engine.
LEMMA FlightInvariant ==
    ASSUME OnlyWatcher, NothingComesBack
    PROVE  EngineSpec => [](EngineInv /\ FlightInv)
  <1>1. EngineInit => FlightInv
    BY FlightInit
  <1>2. EngineInv /\ FlightInv /\ [EngineNext]_engineVars => FlightInv'
    BY FlightStep
  <1> QED
    BY <1>1, <1>2, EngineInvariant, PTL DEF EngineSpec

(***************************************************************************)
(* Deletes                                                                 *)
(***************************************************************************)

\* Only commits and rolls touch the view.
LEMMA ViewFrame ==
    ASSUME [EngineNext]_engineVars
    PROVE  view' = view \/ Roll \/ \E w \in Workers : Commit(w)
  <1>1. ASSUME NEW w \in Workers, WorkerStep(w) \/ Redispatch(w)
        PROVE  Commit(w) \/ view' = view
    BY <1>1, DispatchFrame
  <1>2. ASSUME NEW w \in Workers, NEW p \in Paths, Claim(w, p)
        PROVE  view' = view
    BY <1>2 DEF Claim, ClaimNextJob
  <1>3. ASSUME NEW r \in Passes, BeginPass(r) \/ PassStep(r)
        PROVE  view' = view
    BY <1>3 DEF BeginPass, PassStep, ReadIndex, ReadTruth, EnqueuePlan, AbortPass, UpsertJobs,
       catalogVars
  <1>4. DaemonStep => view' = view \/ Roll
    BY DEF DaemonStep, RegisterStep, Start, Register, FingerprintMatches, FindSlot, CheckView,
       RegisterFails, RegisterAgain, Recover, RecoverFails, catalogVars, EnsureActiveGeneration,
       CreateGeneration, RequeueClaimedJobs
  <1>5. Stop \/ UNCHANGED engineVars \/ (\E p \in Paths : Edit(p)) => view' = view
    BY DEF Stop, Edit, engineVars, catalogVars
  <1> QED
    BY <1>1, <1>2, <1>3, <1>4, <1>5 DEF EngineNext, DaemonStep

\* A roll activates another generation.
LEMMA RollActivates ==
    ASSUME EngineInv, Roll
    PROVE  /\ status' # status
           /\ view' = [p \in Paths |-> NoRow] /\ jobs' = [p \in Paths |-> NoJob]
           /\ seen' = [p \in Paths |-> 0] /\ shown' = [p \in Paths |-> 0]
           /\ UNCHANGED <<ver, work, pass, dead>> /\ reg = "roll" /\ reg' = "check"
           /\ \A g \in Gens : IsActive(g)' => ~IsActive(g)
  <1>1. PICK n \in Gens : n = NextSlot /\ IsSlot(n)
    BY LeastSlot DEF Roll, EngineInv, SlotFound
  <1>2. PICK a \in Gens : IsActive(a)
    BY DEF Roll, EngineInv, EnsuredActive, NoneActive
  <1>3. ActiveGen = a
    BY <1>2, ActiveGenIsTheOne DEF EngineInv, CatalogInv
  <1>4. ~IsActive(n)
    BY <1>1, <1>2, <1>3 DEF EngineInv, CatalogInv, OneActive, IsSlot, Gens
  <1>5. status'[n] = "active" /\ \A g \in Gens : IsActive(g)' => g = n
    BY <1>1 DEF Roll, RollWorktreeGeneration, IsActive
  <1> QED
    BY <1>4, <1>5 DEF Roll, RollWorktreeGeneration, IsActive, workVars

\* A mapping is dropped outside of a roll only for a delete that is founded.
LEMMA DeleteStep ==
    ASSUME EngineInv, FlightInv, [EngineNext]_engineVars, NEW p \in Paths,
           Indexed(p), view'[p] = NoRow, status' = status
    PROVE  \E v \in seen[p]..ver[p] : v > 0 /\ Script[p][v] = NoHash
  <1>1. view'[p] # view[p]
    BY NullRows DEF Indexed
  <1>2. PICK w \in Workers : Commit(w)
    BY <1>1, ViewFrame, RollActivates
  <1>3. /\ WorkerStep(w) /\ work[w].path \in Paths /\ work[w].gen \in Gens
    BY <1>2, DispatchKeeps DEF WorkerStep
  <1>4. work[w].hash = NoHash
    BY <1>1, <1>2, <1>3, NullRows DEF Commit, CommitUpdate, EngineInv, CatalogInv,
       CatalogTypeOK, Gens
  <1>5. Queued(p) /\ jobs[p].hash = NoHash
    BY <1>1, <1>2, <1>3, <1>4 DEF Commit, CommitDelete, Matches, EngineInv, CatalogInv,
       CatalogTypeOK
  <1>6. PICK v \in DOMAIN Script[p] : seen[p] <= v /\ v <= ver[p] /\ Script[p][v] = NoHash
    BY <1>5 DEF FlightInv, DeletesAreFounded
  <1> QED
    BY <1>6, Versions DEF FlightInv, ReadsOrdered

\* If only the watch loop reconciles and no content of a file comes back, a
\* file that was there throughout the last pass keeps its mapping: any number
\* of dispatches, failures, dead letters and restarts notwithstanding, a
\* delete that an edit has overtaken is superseded by the pass that sees it.
THEOREM DeletesAlwaysConfirmed ==
    ASSUME OnlyWatcher, NothingComesBack
    PROVE  EngineSpec => DeleteConfirmed
  <1>1. EngineInv /\ FlightInv /\ [EngineNext]_engineVars =>
           \A p \in Paths : (Indexed(p) /\ view'[p] = NoRow /\ status' = status)
              => \E v \in seen[p]..ver[p] : v > 0 /\ Script[p][v] = NoHash
    BY DeleteStep
  <1> QED
    BY <1>1, FlightInvariant, PTL DEF EngineSpec, DeleteConfirmed

(***************************************************************************)
(* One slot                                                                *)
(***************************************************************************)

\* One dispatch has the slot.
OneAtWork == \A v, w \in Workers : work[v].pc \in Slotted /\ work[w].pc \in Slotted => v = w

\* With one slot a free slot is everybody's.
LEMMA FreeMeansNobody ==
    ASSUME OneSlot, SlotFree
    PROVE  \A w \in Workers : work[w].pc \notin Slotted
  <1> DEFINE S == {w \in Workers : work[w].pc \in Slotted}
  <1>1. IsFiniteSet(S) /\ Cardinality(S) < 1
    BY FS_Subset DEF OneSlot, SlotFree
  <1>2. Cardinality(S) \in Nat
    BY <1>1, FS_CardinalityType
  <1>3. S = {}
    BY <1>1, <1>2, FS_EmptySet
  <1> QED
    BY <1>3

\* Only the dispatch that has the slot moves.
LEMMA OneStep ==
    ASSUME OneSlot, EngineInv, OneAtWork, [EngineNext]_engineVars
    PROVE  OneAtWork'
  <1>1. ASSUME NEW w \in Workers, WorkerStep(w) \/ Redispatch(w)
        PROVE  OneAtWork'
    <2>1. \A v \in Workers : v # w => work'[v] = work[v]
      BY <1>1, DispatchKeeps
    <2>2. CASE Redispatch(w)
      BY <2>1, <2>2, FreeMeansNobody DEF Redispatch, OneAtWork
    <2>3. CASE WorkerStep(w)
      <3>1. work'[w].pc \in Slotted => work[w].pc \in Slotted
        BY <2>3, Nothing DEF WorkerStep, PreCheck, Load, Build, PostCheck, Commit, Transient,
           Permanent, Terminate, TerminateFails, Finish, GoTo, Slotted, EngineInv, EngineTypes, Work
      <3> QED
        BY <2>1, <3>1 DEF OneAtWork
    <2> QED
      BY <1>1, <2>2, <2>3
  <1>2. ASSUME NEW w \in Workers, NEW p \in Paths, Claim(w, p)
        PROVE  OneAtWork'
    BY <1>2, FreeMeansNobody DEF Claim, OneAtWork, EngineInv, EngineTypes
  <1>3. CASE work' = work
    BY <1>3 DEF OneAtWork
  <1>4. CASE Stop
    BY <1>4, Nothing DEF Stop, OneAtWork, Slotted
  <1>5. ASSUME NEW r \in Passes, BeginPass(r) \/ PassStep(r)
        PROVE  work' = work
    BY <1>5 DEF BeginPass, PassStep, ReadIndex, ReadTruth, EnqueuePlan, AbortPass, workVars
  <1>6. DaemonStep \/ UNCHANGED engineVars \/ (\E p \in Paths : Edit(p)) => work' = work
    BY DEF DaemonStep, RegisterStep, Start, Register, FingerprintMatches, FindSlot, Roll,
       CheckView,
       RegisterFails, RegisterAgain, Recover, RecoverFails, Edit, engineVars, workVars
  <1> QED
    BY <1>1, <1>2, <1>3, <1>4, <1>5, <1>6 DEF EngineNext, DaemonStep

\* Two dispatches never are at work at once.
LEMMA OneInvariant ==
    ASSUME OneSlot
    PROVE  EngineSpec => [](EngineInv /\ OneAtWork)
  <1>1. EngineInit => OneAtWork
    BY Nothing DEF EngineInit, OneAtWork, Slotted
  <1>2. EngineInv /\ OneAtWork /\ [EngineNext]_engineVars => OneAtWork'
    BY OneStep
  <1> QED
    BY <1>1, <1>2, EngineInvariant, PTL DEF EngineSpec

(***************************************************************************)
(* No save is lost                                                         *)
(***************************************************************************)

\* The newest content is shown, or wanted, or given up.
Kept(p) == \/ view[p].hash = Disk(p)
           \/ Queued(p) /\ jobs[p].hash = Disk(p) /\ IsActive(jobs[p].gen)
           \/ p \in dead

\* What is in flight is still queued, or has given way to a newer row, but for
\* a dead letter that was written late.
FlightIsQueued ==
    \A w \in Workers : InFlight(w) => Queued(work[w].path) \/ work[w].path \in dead

\* Nobody who has loaded content survives the calm deletion of its file.
NoLateUpdate ==
    \A w \in Workers : InFlight(w) /\ work[w].pc # "load" /\ work[w].hash # NoHash
        => Present(work[w].path) \/ work[w].path \in dead

\* What a pass found in the index as it is on disk will not go away before the
\* pass ends.
FoundIsKept ==
    \A p \in Paths :
       (/\ pass[Watcher].pc = "truth" /\ pass[Watcher].began[p] = ver[p]
        /\ pass[Watcher].indexed[p] = Disk(p))
       => Kept(p)

SeenIsKept == \A p \in Paths : seen[p] = ver[p] => Kept(p)

KeptInv == FlightIsQueued /\ NoLateUpdate /\ FoundIsKept /\ SeenIsKept

\* A commit leaves the newest content kept.
LEMMA CommitKeeps ==
    ASSUME EngineInv, FlightInv, KeptInv, NEW w \in Workers, Commit(w), NEW p \in Paths, Kept(p)
    PROVE  Kept(p)'
  <1> USE DEF KeptInv
  <1>1. WorkerStep(w) /\ work[w].pc = "commit"
    BY DEF WorkerStep, Commit
  <1>2. UNCHANGED <<ver, status>> /\ dead' = dead /\ Disk(p)' = Disk(p)
    BY <1>1, DispatchFrame DEF Commit, CommitUpdate, CommitDelete, Disk
  <1>3. /\ work[w].path \in Paths /\ work[w].gen \in Gens /\ Served(work[w].gen)
        /\ \/ jobs'[p] = jobs[p]
           \/ p = work[w].path /\ Matches(p, work[w].hash, work[w].gen)
    BY <1>1, DispatchKeeps
  <1>4. jobs'[p] = jobs[p] /\ view'[p] = view[p] => Kept(p)'
    BY <1>2 DEF Kept, Queued, IsActive
  <1>5. CASE p # work[w].path
    BY <1>3, <1>4, <1>5 DEF Commit, CommitUpdate, CommitDelete, EngineInv, CatalogInv,
       CatalogTypeOK
  <1>6. CASE p = work[w].path /\ ~IsActive(work[w].gen)
    <2>1. ~TouchesActiveView(work[w].gen)
      BY <1>3, <1>6, TouchIsActive DEF EngineInv
    <2>2. view' = view
      BY <2>1 DEF Commit, CommitUpdate, CommitDelete
    <2>3. ~Matches(p, work[w].hash, work[w].gen)
      BY <1>3, <1>6, MatchIsActive, Contents DEF FlightInv, AllActive, Matches, EngineInv
    <2> QED
      BY <1>3, <1>4, <2>2, <2>3
  <1>7. CASE p = work[w].path /\ IsActive(work[w].gen) /\ work[w].hash = Disk(p)
    <2>1. CASE work[w].hash # NoHash
      BY <1>1, <1>2, <1>7, <2>1, CommitShows DEF InFlight, Kept
    <2>2. CASE work[w].hash = NoHash
      <3>1. view'[p] = view[p] \/ view'[p] = NoRow
        BY <1>3, <2>2 DEF Commit, CommitDelete, EngineInv, CatalogInv, CatalogTypeOK
      <3>2. view'[p] = view[p] /\ jobs'[p] # jobs[p] => Matches(p, NoHash, work[w].gen)
        BY <1>3, <2>2
      <3>3. Matches(p, NoHash, work[w].gen) => view'[p] = NoRow
        BY <1>3, <1>7, <2>2, ActiveIsNewest DEF Commit, CommitDelete, TouchesActiveView,
           EngineInv,
           CatalogInv, CatalogTypeOK
      <3> QED
        BY <1>2, <1>4, <1>7, <2>2, <3>1, <3>2, <3>3, NullRows DEF Kept
    <2> QED
      BY <2>1, <2>2
  <1>8. CASE p = work[w].path /\ IsActive(work[w].gen) /\ work[w].hash # Disk(p) /\ p \notin dead
    <2>1. jobs[p].hash = Disk(p) => jobs'[p] = jobs[p]
      BY <1>3, <1>8 DEF Matches
    <2>2. CASE Queued(p) /\ jobs[p].hash = Disk(p)
      BY <1>2, <2>1, <2>2 DEF Kept, Queued, FlightInv, AllActive, IsActive
    <2>3. CASE view[p].hash = Disk(p) /\ ~(Queued(p) /\ jobs[p].hash = Disk(p))
      <3>1. Queued(p)
        BY <1>1, <1>8 DEF FlightIsQueued, InFlight
      <3>2. ~Present(p)
        BY <2>3, <3>1 DEF FlightInv, NewestWins
      <3> QED
        BY <1>1, <1>8, <3>2 DEF NoLateUpdate, InFlight, Present
    <2> QED
      BY <1>8, <2>2, <2>3 DEF Kept
  <1>9. p \in dead => Kept(p)'
    BY <1>2 DEF Kept
  <1> QED
    BY <1>5, <1>6, <1>7, <1>8, <1>9

\* A dispatch leaves the newest content kept.
LEMMA DispatchKept ==
    ASSUME EngineInv, FlightInv, KeptInv, NEW w \in Workers, WorkerStep(w) \/ Redispatch(w),
           NEW p \in Paths, Kept(p)
    PROVE  Kept(p)'
  <1>1. CASE Commit(w)
    BY <1>1, CommitKeeps
  <1>2. CASE Terminate(w)
    BY <1>2, DispatchFrame DEF Terminate, DeadLetterJob, Complete, Kept, Disk, Queued, IsActive,
       EngineInv, CatalogInv, CatalogTypeOK
  <1>3. CASE ~Commit(w) /\ ~Terminate(w)
    BY <1>3, DispatchFrame DEF Kept, Disk, Queued, IsActive
  <1> QED
    BY <1>1, <1>2, <1>3

\* What is in flight after a step of a dispatch is queued, as it was before or
\* as the first check of the queue found it.
LEMMA DispatchKeptInv ==
    ASSUME EngineInv, FlightInv, OneAtWork, KeptInv, NEW w \in Workers, WorkerStep(w) \/ Redispatch(w)
    PROVE  KeptInv'
  <1> USE DEF KeptInv
  <1>1. /\ UNCHANGED <<ver, seen, pass, status>>
        /\ work[w].path \in Paths
        /\ \A v \in Workers : v # w => work'[v] = work[v]
        /\ \A p \in Paths : Disk(p)' = Disk(p) /\ (Present(p)' <=> Present(p))
    BY DispatchFrame, DispatchKeeps DEF Disk, Present
  <1>2. \A v \in Workers : v # w => (InFlight(v)' <=> InFlight(v))
    BY <1>1 DEF InFlight, IsActive
  <1>3. dead \subseteq dead'
    BY DispatchFrame DEF Commit, CommitUpdate, CommitDelete, Terminate, DeadLetterJob
  <1>4. \A p \in Paths : \/ jobs'[p] = jobs[p]
                         \/ p \in dead'
                         \/ work[w].pc \in Slotted /\ Commit(w)
    <2>1. CASE Terminate(w)
      BY <2>1 DEF Terminate, DeadLetterJob, Complete, EngineInv, CatalogInv, CatalogTypeOK
    <2>2. CASE ~Terminate(w)
      BY <2>2, DispatchFrame DEF Commit, Slotted
    <2> QED
      BY <2>1, <2>2
  <1>5. InFlight(w)' => /\ work'[w].path = work[w].path /\ work'[w].hash = work[w].hash
                        /\ jobs' = jobs
                        /\ \/ PreCheck(w)
                           \/ Load(w) /\ InFlight(w)
                           \/ InFlight(w) /\ work[w].pc # "load"
    <2>1. CASE PreCheck(w) \/ Redispatch(w) \/ Commit(w) \/ Terminate(w)
      BY <2>1, Nothing DEF InFlight, PreCheck, Redispatch, Commit, Terminate, Finish, GoTo,
         EngineInv,
         EngineTypes, Work, catalogVars
    <2>2. CASE Load(w) \/ Build(w) \/ PostCheck(w)
      BY <1>1, <2>2, Nothing DEF InFlight, IsActive, Load, Build, PostCheck,
         Finish, GoTo, EngineInv, EngineTypes, Work, catalogVars
    <2>3. CASE Transient(w) \/ Permanent(w) \/ TerminateFails(w)
      BY <1>1, <2>3, Nothing DEF InFlight, Transient, Permanent, TerminateFails, GoTo, EngineInv,
         EngineTypes, Work
    <2> QED
      BY <2>1, <2>2, <2>3 DEF WorkerStep
  <1>6. FlightIsQueued'
    <2> SUFFICES ASSUME NEW v \in Workers, InFlight(v)'
                 PROVE  Queued(work[v].path)' \/ work'[v].path \in dead'
      BY DEF FlightIsQueued
    <2>1. CASE v # w
      <3>1. InFlight(v) /\ work'[v] = work[v] /\ work[v].path \in Paths /\ work[v].pc \in Slotted
        BY <1>1, <1>2, <2>1 DEF InFlight, Slotted, Held, EngineInv, EngineTypes
      <3>2. ~(work[w].pc \in Slotted /\ Commit(w))
        BY <2>1, <3>1 DEF OneAtWork
      <3> QED
        BY <1>3, <1>4, <3>1, <3>2 DEF FlightIsQueued, Queued
    <2>2. CASE v = w
      <3>1. InFlight(w) => Queued(work[w].path) \/ work[w].path \in dead
        BY DEF FlightIsQueued
      <3>2. PreCheck(w) => Queued(work[w].path)
        BY <2>2, PreCheckPasses DEF FlightInv
      <3> QED
        BY <1>3, <1>5, <2>2, <3>1, <3>2 DEF Queued
    <2> QED
      BY <2>1, <2>2
  <1>7. NoLateUpdate'
    <2> SUFFICES ASSUME NEW v \in Workers, InFlight(v)', work'[v].pc # "load", work'[v].hash # NoHash
                 PROVE  Present(work[v].path)' \/ work'[v].path \in dead'
      BY DEF NoLateUpdate
    <2>1. CASE v # w
      <3>1. InFlight(v) /\ work'[v] = work[v] /\ work[v].path \in Paths
        BY <1>1, <1>2, <2>1 DEF InFlight, Held, EngineInv, EngineTypes
      <3>2. Present(work[v].path) \/ work[v].path \in dead
        BY <2>1, <3>1 DEF NoLateUpdate
      <3> QED
        BY <1>1, <1>3, <3>1, <3>2
    <2>2. CASE v = w /\ Load(w)
      <3>1. Present(work[w].path) /\ work'[w].path = work[w].path
        BY <1>5, <2>2 DEF Load, Present
      <3> QED
        BY <1>1, <2>2, <3>1
    <2>3. CASE v = w /\ PreCheck(w)
      BY <1>5, <2>3, Nothing DEF PreCheck, GoTo, Finish, EngineInv, EngineTypes, Work
    <2>4. CASE v = w /\ ~Load(w) /\ ~PreCheck(w)
      <3>1. Present(work[w].path) \/ work[w].path \in dead
        BY <1>5, <2>4 DEF NoLateUpdate
      <3> QED
        BY <1>1, <1>3, <1>5, <2>4, <3>1
    <2> QED
      BY <2>1, <2>2, <2>3, <2>4
  <1>8. FoundIsKept' /\ SeenIsKept'
    BY <1>1, DispatchKept DEF FoundIsKept, SeenIsKept
  <1> QED
    BY <1>6, <1>7, <1>8

\* A claim takes the free slot.
LEMMA ClaimKeptInv ==
    ASSUME EngineInv, FlightInv, KeptInv, NEW w \in Workers, NEW p \in Paths, Claim(w, p)
    PROVE  KeptInv'
  <1> USE DEF KeptInv
  <1>1. UNCHANGED <<view, status, ver, seen, pass, dead>>
    BY DEF Claim, ClaimNextJob, daemonVars, history
  <1>2. \A q \in Paths : /\ jobs'[q].hash = jobs[q].hash /\ jobs'[q].gen = jobs[q].gen
                         /\ Queued(q)' <=> Queued(q)
    BY DEF Claim, ClaimNextJob, EngineInv, CatalogInv, CatalogTypeOK, Job, Queued
  <1>3. /\ work'[w].pc = "precheck"
        /\ \A v \in Workers : v # w => work'[v] = work[v]
    BY DEF Claim, EngineInv, EngineTypes
  <1>4. \A v \in Workers : InFlight(v)' => InFlight(v) /\ work'[v] = work[v] /\ work[v].path \in Paths
    BY <1>1, <1>3 DEF InFlight, IsActive, Held, EngineInv, EngineTypes
  <1>5. FlightIsQueued'
    BY <1>1, <1>2, <1>4 DEF FlightIsQueued
  <1>6. NoLateUpdate'
    BY <1>1, <1>4 DEF NoLateUpdate, Present, Disk
  <1>7. \A q \in Paths : Kept(q) => Kept(q)'
    BY <1>1, <1>2 DEF Kept, Disk, IsActive
  <1>8. FoundIsKept' /\ SeenIsKept'
    BY <1>1, <1>7 DEF FoundIsKept, SeenIsKept, Disk
  <1> QED
    BY <1>5, <1>6, <1>8

\* A pass enqueues what it did not find, and what it found is kept.
LEMMA PassKeptInv ==
    ASSUME EngineInv, FlightInv, KeptInv, BeginPass(Watcher) \/ PassStep(Watcher)
    PROVE  KeptInv'
  <1> USE DEF KeptInv
  <1>1. UNCHANGED <<view, status, work, ver, dead>>
    BY DEF BeginPass, PassStep, ReadIndex, ReadTruth, EnqueuePlan, AbortPass, UpsertJobs,
       catalogVars, workVars
  <1>2. ASSUME UNCHANGED <<jobs, seen>>
        PROVE  \A p \in Paths : (Kept(p)' <=> Kept(p)) /\ Disk(p)' = Disk(p)
    BY <1>1, <1>2 DEF Kept, Disk, Queued, IsActive
  <1>3. ASSUME \A p \in Paths : Queued(p) => Queued(p)'
        PROVE  FlightIsQueued' /\ NoLateUpdate'
    <2>1. \A w \in Workers : /\ InFlight(w)' <=> InFlight(w)
                             /\ InFlight(w) => work[w].path \in Paths
      BY <1>1 DEF InFlight, IsActive, Held, EngineInv, EngineTypes
    <2>2. FlightIsQueued'
      BY <1>1, <1>3, <2>1 DEF FlightIsQueued
    <2> QED
      BY <1>1, <2>1, <2>2 DEF NoLateUpdate, Present, Disk
  <1>4. CASE BeginPass(Watcher) \/ AbortPass(Watcher)
    <2>1. UNCHANGED <<jobs, seen>> /\ pass'[Watcher].pc # "truth"
      <3>1. CASE BeginPass(Watcher)
        BY <3>1, EngineAssumption DEF BeginPass, catalogVars, history, EngineInv, EngineTypes,
           Pass
      <3>2. CASE AbortPass(Watcher)
        BY <3>2, EngineAssumption, Nothing DEF AbortPass, catalogVars, history, EngineInv,
           EngineTypes
      <3> QED
        BY <1>4, <3>1, <3>2
    <2> QED
      BY <1>1, <1>2, <1>3, <2>1 DEF FoundIsKept, SeenIsKept, Queued
  <1>5. CASE ReadIndex(Watcher)
    <2>1. /\ UNCHANGED <<jobs, seen>>
          /\ \A p \in Paths : pass'[Watcher].indexed[p] = view[p].hash
      BY <1>5, EngineAssumption DEF ReadIndex, catalogVars, history, EngineInv, EngineTypes, Pass
    <2>2. FoundIsKept'
      BY <1>1, <1>2, <2>1 DEF FoundIsKept, Kept
    <2> QED
      BY <1>1, <1>2, <1>3, <2>1, <2>2 DEF SeenIsKept, Queued
  <1>6. ASSUME NEW p \in Paths, ReadTruth(Watcher, p)
        PROVE  KeptInv'
    <2>1. /\ UNCHANGED <<jobs, seen>> /\ pass[Watcher].pc = "truth"
          /\ pass'[Watcher].began = pass[Watcher].began
          /\ pass'[Watcher].indexed = pass[Watcher].indexed
      <3>1. /\ UNCHANGED <<jobs, seen>> /\ pass[Watcher].pc = "truth"
            /\ pass'[Watcher] = [pass[Watcher] EXCEPT !.truth[p] = ver[p]]
        BY <1>6, EngineAssumption DEF ReadTruth, catalogVars, history, EngineInv, EngineTypes
      <3> QED
        BY <3>1, Versions DEF Pass
    <2> QED
      BY <1>1, <1>2, <1>3, <2>1 DEF FoundIsKept, SeenIsKept, Queued
  <1>7. CASE EnqueuePlan(Watcher)
    <2>1. /\ pass[Watcher].pc = "truth" /\ seen' = pass[Watcher].began
          /\ pass'[Watcher] = NoPass /\ IsActive(pass[Watcher].gen) /\ pass[Watcher].gen \in Gens
      BY <1>7, EngineAssumption DEF EnqueuePlan, FlightInv, AllActive, PassOn, EngineInv,
         EngineTypes,
         OnlyServed
    <2>2. \A p \in Paths :
             IF pass[Watcher].indexed[p] # Read(p)
             THEN jobs'[p].hash = Read(p) /\ jobs'[p].gen = pass[Watcher].gen
             ELSE jobs'[p] = jobs[p]
      BY <1>7, PlanIsEnqueued
    <2>3. \A p \in Paths : Queued(p) => Queued(p)'
      BY <2>1, <2>2 DEF Queued, Gens
    <2>4. ASSUME NEW p \in Paths, seen'[p] = ver'[p]
          PROVE  Kept(p)'
      <3>1. Read(p) = Disk(p)
        <4>1. TruthOf(p) > 0
          BY <1>7 DEF EnqueuePlan, TruthOf
        <4>2. TruthOf(p) = ver[p]
          BY <1>1, <2>1, <2>4, <4>1, Versions DEF FlightInv, ReadsOrdered
        <4> QED
          BY <4>2 DEF Read, Disk
      <3>2. CASE pass[Watcher].indexed[p] # Read(p)
        BY <1>1, <2>1, <2>2, <3>1, <3>2 DEF Kept, Queued, Disk, IsActive, Gens
      <3>3. CASE pass[Watcher].indexed[p] = Read(p)
        <4>1. Kept(p) /\ jobs'[p] = jobs[p]
          BY <1>1, <2>1, <2>2, <2>4, <3>1, <3>3 DEF FoundIsKept
        <4> QED
          BY <1>1, <4>1 DEF Kept, Queued, Disk, IsActive
      <3> QED
        BY <3>2, <3>3
    <2> QED
      BY <1>3, <2>1, <2>3, <2>4, Nothing DEF FoundIsKept, SeenIsKept
  <1> QED
    BY <1>4, <1>5, <1>6, <1>7 DEF PassStep

\* The registration keeps the queue, or drops it with the view and forgets
\* what was seen.
LEMMA DaemonKeptInv ==
    ASSUME EngineInv, FlightInv, KeptInv, DaemonStep
    PROVE  KeptInv'
  <1> USE DEF KeptInv
  <1>1. /\ UNCHANGED <<ver, work, pass, dead>>
        /\ \A w \in Workers : InFlight(w)' => InFlight(w)
    <2>1. dead' = dead
      BY DEF DaemonStep, RegisterStep, Start, Register, FingerprintMatches, FindSlot, Roll,
         CheckView, RegisterFails, RegisterAgain, Recover, RecoverFails, catalogVars,
         EnsureActiveGeneration, CreateGeneration, RollWorktreeGeneration, RequeueClaimedJobs
    <2>2. UNCHANGED <<ver, work, pass>>
      BY DEF DaemonStep, RegisterStep, Start, Register, FingerprintMatches, FindSlot, Roll,
         CheckView, RegisterFails, RegisterAgain, Recover, RecoverFails, workVars
    <2> QED
      BY <2>1, <2>2, QuietDaemon DEF Quiet
  <1>2. NoLateUpdate'
    BY <1>1 DEF NoLateUpdate, Present, Disk
  <1>3. CASE Roll
    <2>1. \A w \in Workers : ~InFlight(w)'
      BY <1>1, <1>3, RollActivates DEF InFlight, Held, EngineInv, EngineTypes, IsActive
    <2>2. ~PassOn
      BY <1>3, RollActivates DEF FlightInv, AllActive
    <2>3. FlightIsQueued' /\ FoundIsKept' /\ SeenIsKept'
      BY <1>1, <1>3, <2>1, <2>2, RollActivates, Versions DEF FlightIsQueued, FoundIsKept,
         SeenIsKept,
         PassOn
    <2> QED
      BY <1>2, <2>3
  <1>4. CASE ~Roll
    <2>1. /\ UNCHANGED <<view, seen>>
          /\ \A p \in Paths : jobs'[p].hash = jobs[p].hash /\ jobs'[p].gen = jobs[p].gen
      BY <1>4 DEF DaemonStep, RegisterStep, Start, Register, FingerprintMatches, FindSlot,
         CheckView, RegisterFails, RegisterAgain, Recover, RecoverFails, history, catalogVars,
         EnsureActiveGeneration, CreateGeneration, RequeueClaimedJobs
    <2>2. AllActive'
      BY QuietDaemon DEF Quiet
    <2>3. \A p \in Paths : Kept(p) => Kept(p)'
      BY <1>1, <2>1, <2>2 DEF Kept, AllActive, Queued, Disk
    <2>4. FlightIsQueued'
      BY <1>1, <2>1 DEF FlightIsQueued, Queued, InFlight, Held, EngineInv, EngineTypes
    <2>5. FoundIsKept' /\ SeenIsKept'
      BY <1>1, <2>1, <2>3 DEF FoundIsKept, SeenIsKept, Disk
    <2> QED
      BY <1>2, <2>4, <2>5
  <1> QED
    BY <1>3, <1>4

\* An edit makes the newest content one that no pass has seen; a calm delete
\* finds nothing in flight.
LEMMA EditKeptInv ==
    ASSUME CalmDeletes, EngineInv, FlightInv, KeptInv, NEW p \in Paths, Edit(p)
    PROVE  KeptInv'
  <1> USE DEF KeptInv
  <1>1. /\ UNCHANGED <<view, jobs, status, work, pass, seen, dead>>
        /\ \A w \in Workers : /\ InFlight(w)' <=> InFlight(w)
                              /\ InFlight(w) => work[w].path \in Paths
    BY DEF Edit, catalogVars, workVars, InFlight, IsActive, Held, EngineInv, EngineTypes
  <1>2. /\ ver'[p] = ver[p] + 1
        /\ \A q \in Paths : q # p => /\ ver'[q] = ver[q] /\ Disk(q)' = Disk(q)
                                     /\ Present(q)' <=> Present(q)
                                     /\ Kept(q)' <=> Kept(q)
    BY <1>1 DEF Edit, EngineInv, EngineTypes, Disk, Present, Kept, Queued, IsActive
  <1>3. ~Present(p)' => ~Queued(p)
    <2>1. Disk(p)' = Script[p][ver[p] + 1]
      BY <1>2 DEF Disk
    <2> QED
      BY <2>1 DEF Edit, Present, CalmDeletes
  <1>4. FlightIsQueued'
    BY <1>1 DEF FlightIsQueued, Queued
  <1>5. NoLateUpdate'
    BY <1>1, <1>2, <1>3 DEF NoLateUpdate, FlightIsQueued
  <1>6. seen[p] # ver'[p] /\ (PassOn => pass[Watcher].began[p] # ver'[p])
    BY <1>2, Versions DEF FlightInv, ReadsOrdered
  <1>7. FoundIsKept' /\ SeenIsKept'
    BY <1>1, <1>2, <1>6 DEF FoundIsKept, SeenIsKept, PassOn
  <1> QED
    BY <1>4, <1>5, <1>7

\* A stop takes everything that is in flight with it.
LEMMA EndKeptInv ==
    ASSUME EngineInv, FlightInv, KeptInv, Stop \/ UNCHANGED engineVars
    PROVE  KeptInv'
  <1> USE DEF KeptInv
  <1>1. /\ UNCHANGED <<view, jobs, status, ver, seen, dead>>
        /\ work' = work \/ work' = [w \in Workers |-> NoWork]
        /\ pass'[Watcher] = NoPass \/ pass' = pass
    BY EngineAssumption DEF Stop, engineVars, catalogVars, workVars, history
  <1>2. \A p \in Paths : (Kept(p)' <=> Kept(p)) /\ (Queued(p)' <=> Queued(p))
                         /\ Disk(p)' = Disk(p) /\ (Present(p)' <=> Present(p))
    BY <1>1 DEF Kept, Disk, Present, Queued, IsActive
  <1>3. \A w \in Workers : InFlight(w)' => /\ InFlight(w) /\ work' = work
                                           /\ work[w].path \in Paths
    BY <1>1, Nothing DEF InFlight, IsActive, Held, EngineInv, EngineTypes
  <1>4. FlightIsQueued' /\ NoLateUpdate'
    BY <1>1, <1>2, <1>3 DEF FlightIsQueued, NoLateUpdate
  <1>5. FoundIsKept' /\ SeenIsKept'
    BY <1>1, <1>2, Nothing DEF FoundIsKept, SeenIsKept
  <1> QED
    BY <1>4, <1>5

\* Every step keeps the newest content that a pass has seen.
LEMMA KeptStep ==
    ASSUME OnlyWatcher, CalmDeletes, EngineInv, FlightInv, OneAtWork, KeptInv,
           [EngineNext]_engineVars
    PROVE  KeptInv'
  BY DispatchKeptInv, ClaimKeptInv, PassKeptInv, DaemonKeptInv, EditKeptInv, EndKeptInv
  DEF EngineNext, DaemonStep, OnlyWatcher

\* KeptInv holds of the engine.
LEMMA KeptInvariant ==
    ASSUME OnlyWatcher, NothingComesBack, OneSlot, CalmDeletes
    PROVE  EngineSpec => [](EngineInv /\ FlightInv /\ KeptInv)
  <1>1. EngineInit => KeptInv
    <2> SUFFICES ASSUME EngineInit
                 PROVE  KeptInv
      OBVIOUS
    <2>1. /\ seen = [p \in Paths |-> 0] /\ pass[Watcher] = NoPass
          /\ \A p \in Paths : ver[p] = 1
          /\ \A w \in Workers : work[w] = NoWork
      BY EngineAssumption DEF EngineInit
    <2>2. \A w \in Workers : ~InFlight(w) /\ work[w].pc \notin Slotted
      BY <2>1, Nothing DEF InFlight, Slotted
    <2>3. FlightIsQueued /\ NoLateUpdate
      BY <2>2 DEF FlightIsQueued, NoLateUpdate
    <2>4. FoundIsKept
      BY <2>1, Nothing DEF FoundIsKept
    <2>5. SeenIsKept
      BY <2>1 DEF SeenIsKept
    <2> QED
      BY <2>3, <2>4, <2>5 DEF KeptInv
  <1>2. EngineInv /\ FlightInv /\ OneAtWork /\ KeptInv /\ [EngineNext]_engineVars => KeptInv'
    BY KeptStep
  <1> QED
    BY <1>1, <1>2, FlightInvariant, OneInvariant, PTL DEF EngineSpec

\* No save is lost: content that a pass of the watch loop had from its
\* beginning to look at, if it still is on disk, is what the view shows, or is
\* queued under the active generation, or was dead-lettered.  One index slot,
\* no content that comes back and deletes that find the file indexed and at
\* rest are what it takes; the number of files, goroutines, retries, faults,
\* rolls and restarts does not matter.
THEOREM NoSaveLost ==
    ASSUME OnlyWatcher, NothingComesBack, OneSlot, CalmDeletes
    PROVE  EngineSpec => []SeenIsShownOrQueued
  <1>1. KeptInv => SeenIsShownOrQueued
    BY DEF KeptInv, SeenIsKept, Kept, SeenIsShownOrQueued
  <1> QED
    BY <1>1, KeptInvariant, PTL

(***************************************************************************)
(* An idle engine is up to date                                            *)
(***************************************************************************)

\* A change that the last pass has not seen left something behind: the hint
\* or, when it was taken, the pass; before the worktree is registered, the pass
\* that an empty view calls for.
HintLeft ==
    \A p \in Paths \ missed :
       \/ seen[p] = ver[p]
       \/ reg = "done" /\ (dirty \/ (PassOn /\ pass[Watcher].began[p] = ver[p]))
       \/ reg # "done" /\ seen[p] = 0 /\ (PassOn => pass[Watcher].began[p] = ver[p])

\* An edit leaves a hint, or counts as missed.
LEMMA EditHint ==
    ASSUME EngineInv, FlightInv, HintLeft, NEW p \in Paths, Edit(p)
    PROVE  HintLeft'
  <1>1. /\ UNCHANGED <<reg, pass, seen>>
        /\ \A q \in Paths : q # p => ver'[q] = ver[q]
        /\ dirty' = (dirty \/ reg = "done")
        /\ missed' = IF reg = "done" THEN missed ELSE missed \cup {p}
    BY DEF Edit, EngineInv, EngineTypes
  <1> QED
    BY <1>1 DEF HintLeft, PassOn

\* A stop counts as missed what it takes away.
LEMMA StopHint ==
    ASSUME EngineInv, FlightInv, HintLeft, Stop
    PROVE  HintLeft'
  <1>1. /\ UNCHANGED <<ver, seen>> /\ reg' = "absent" /\ pass'[Watcher] = NoPass
        /\ missed' = IF dirty \/ pass[Watcher] # NoPass
                     THEN missed \cup {p \in Paths : seen[p] < ver[p]} ELSE missed
    BY EngineAssumption DEF Stop
  <1>2. SUFFICES ASSUME NEW p \in Paths, p \notin missed'
                 PROVE  seen[p] = ver[p] \/ seen[p] = 0
    BY <1>1, <1>2, Nothing DEF HintLeft, PassOn
  <1>3. seen[p] \in Nat /\ seen[p] <= ver[p] /\ ver[p] \in Nat
    BY Versions DEF FlightInv, ReadsOrdered
  <1>4. CASE dirty \/ pass[Watcher] # NoPass
    BY <1>1, <1>2, <1>3, <1>4
  <1>5. CASE ~dirty /\ pass[Watcher] = NoPass
    BY <1>1, <1>2, <1>5, Nothing DEF HintLeft, PassOn
  <1> QED
    BY <1>4, <1>5

\* The registration either finds an empty view, as it is when something has
\* not been planned, or makes one.
LEMMA DaemonHint ==
    ASSUME EngineInv, FlightInv, PlanInv, HintLeft, DaemonStep
    PROVE  HintLeft'
  <1>1. UNCHANGED <<ver, pass, missed>>
    BY DEF DaemonStep, RegisterStep, Start, Register, FingerprintMatches, FindSlot, Roll,
       CheckView, RegisterFails, RegisterAgain, Recover, RecoverFails, history
  <1>2. CASE Roll
    BY <1>1, <1>2, RollActivates DEF HintLeft, FlightInv, AllActive, PassOn
  <1>3. CASE CheckView
    <2>1. /\ UNCHANGED <<seen, dirty>> /\ reg = "check" /\ reg' \in {"pass", "done"}
          /\ (reg' = "done" => ~ViewEmpty)
      BY <1>3 DEF CheckView, history
    <2>2. ASSUME ~ViewEmpty, NEW p \in Paths
          PROVE  seen[p] # 0
      BY <2>2 DEF PlanInv, NothingPlanned
    <2> QED
      BY <1>1, <2>1, <2>2 DEF HintLeft, PassOn
  <1>4. CASE ~Roll /\ ~CheckView
    <2>1. ~Up => reg = "absent"
      BY CatalogAssumption DEF EngineInv, EngineTypes, Up
    <2>2. UNCHANGED <<seen, dirty>> /\ (reg' # reg => reg # "done" /\ reg' # "done")
      BY <1>4, <2>1 DEF DaemonStep, RegisterStep, Start, Register, FingerprintMatches, FindSlot,
         RegisterFails, RegisterAgain, Recover, RecoverFails, history
    <2> QED
      BY <1>1, <2>2 DEF HintLeft, PassOn
  <1> QED
    BY <1>2, <1>3, <1>4

\* A pass takes the hint, and leaves it again if it fails.
LEMMA PassHint ==
    ASSUME EngineInv, FlightInv, HintLeft, BeginPass(Watcher) \/ PassStep(Watcher)
    PROVE  HintLeft'
  <1>1. ver' = ver
    BY DEF BeginPass, PassStep, ReadIndex, ReadTruth, EnqueuePlan, AbortPass
  <1>2. CASE BeginPass(Watcher)
    <2>1. /\ UNCHANGED <<reg, seen, missed>> /\ pass'[Watcher].began = ver
          /\ pass'[Watcher].pc = "index"
      BY <1>2, EngineAssumption DEF BeginPass, history, EngineInv, EngineTypes, Pass
    <2> QED
      BY <1>1, <2>1 DEF HintLeft, PassOn
  <1>3. CASE ReadIndex(Watcher) \/ \E p \in Paths : ReadTruth(Watcher, p)
    <2>1. UNCHANGED <<reg, dirty, seen, missed>>
      BY <1>3 DEF ReadIndex, ReadTruth, daemonVars, history
    <2>2. pass'[Watcher].began = pass[Watcher].began /\ PassOn /\ PassOn'
      <3>1. CASE ReadIndex(Watcher)
        BY <3>1, EngineAssumption DEF ReadIndex, EngineInv, EngineTypes, Pass, PassOn
      <3>2. ASSUME NEW p \in Paths, ReadTruth(Watcher, p)
            PROVE  pass'[Watcher].began = pass[Watcher].began /\ PassOn /\ PassOn'
        <4>1. pass'[Watcher] = [pass[Watcher] EXCEPT !.truth[p] = ver[p]] /\ pass[Watcher].pc = "truth"
          BY <3>2, EngineAssumption DEF ReadTruth, EngineInv, EngineTypes
        <4> QED
          BY <4>1, Versions DEF Pass, PassOn
      <3> QED
        BY <1>3, <3>1, <3>2
    <2> QED
      BY <1>1, <2>1, <2>2 DEF HintLeft
  <1>4. CASE EnqueuePlan(Watcher)
    <2>1. PassOn /\ IsActive(pass[Watcher].gen) /\ reg \in {"pass", "done"}
      BY <1>4 DEF EnqueuePlan, PassOn, FlightInv, AllActive
    <2>2. /\ seen' = pass[Watcher].began /\ missed' = {p \in missed : seen'[p] < ver[p]}
          /\ reg' = "done" /\ dirty' = dirty
      BY <1>4, <2>1 DEF EnqueuePlan
    <2>3. ASSUME NEW p \in Paths, p \notin missed'
          PROVE  seen'[p] = ver[p] \/ dirty
      <3>1. /\ seen[p] \in Nat /\ ver[p] \in Nat /\ pass[Watcher].began[p] \in Nat
            /\ seen[p] <= pass[Watcher].began[p] /\ pass[Watcher].began[p] <= ver[p]
        BY <2>1, Versions DEF FlightInv, ReadsOrdered
      <3>2. CASE p \in missed
        BY <2>2, <2>3, <3>1, <3>2
      <3>3. CASE p \notin missed
        <4>1. seen[p] = ver[p] \/ pass[Watcher].began[p] = ver[p] \/ dirty
          BY <2>1, <3>3 DEF HintLeft
        <4> QED
          BY <2>2, <3>1, <4>1
      <3> QED
        BY <3>2, <3>3
    <2> QED
      BY <1>1, <2>2, <2>3 DEF HintLeft
  <1>5. CASE AbortPass(Watcher)
    <2>1. /\ UNCHANGED <<seen, missed>> /\ pass'[Watcher] = NoPass
          /\ dirty' = (dirty \/ reg = "done")
          /\ reg' = IF reg = "pass" THEN "failed" ELSE reg
      BY <1>5, EngineAssumption DEF AbortPass, history, EngineInv, EngineTypes
    <2> QED
      BY <1>1, <2>1, Nothing DEF HintLeft, PassOn
  <1> QED
    BY <1>2, <1>3, <1>4, <1>5 DEF PassStep

\* Every step leaves something behind for a change not seen.
LEMMA HintStep ==
    ASSUME OnlyWatcher, EngineInv, FlightInv, PlanInv, HintLeft, [EngineNext]_engineVars
    PROVE  HintLeft'
  <1>1. ASSUME NEW w \in Workers, WorkerStep(w) \/ Redispatch(w)
        PROVE  HintLeft'
    BY <1>1, DispatchFrame DEF HintLeft, PassOn
  <1>2. ASSUME NEW w \in Workers, NEW p \in Paths, Claim(w, p)
        PROVE  HintLeft'
    BY <1>2 DEF Claim, daemonVars, history, HintLeft, PassOn
  <1>3. UNCHANGED engineVars => HintLeft'
    BY DEF engineVars, daemonVars, history, HintLeft, PassOn
  <1> QED
    BY <1>1, <1>2, <1>3, EditHint, StopHint, DaemonHint, PassHint
    DEF EngineNext, DaemonStep, OnlyWatcher

\* Idle means fresh: when no hint is pending, no pass under way and nothing
\* queued, held or dead-lettered, the view shows every file as it is on disk,
\* but for the changes that were made while no watch ran or whose hint a stop
\* took.
THEOREM IdleIsFresh ==
    ASSUME OnlyWatcher, NothingComesBack, OneSlot, CalmDeletes
    PROVE  EngineSpec => []IdleMeansFresh
  <1>1. EngineInit => HintLeft
    <2> SUFFICES ASSUME EngineInit
                 PROVE  HintLeft
      OBVIOUS
    <2>1. reg = "absent" /\ pass[Watcher] = NoPass /\ seen = [p \in Paths |-> 0]
      BY EngineAssumption DEF EngineInit
    <2> QED
      BY <2>1, Nothing DEF HintLeft, PassOn
  <1>2. EngineInv /\ FlightInv /\ PlanInv /\ HintLeft /\ [EngineNext]_engineVars => HintLeft'
    BY HintStep
  <1>3. KeptInv /\ HintLeft => IdleMeansFresh
    <2> SUFFICES ASSUME KeptInv, HintLeft, Idle, NEW p \in Paths \ missed
                 PROVE  view[p].hash = Disk(p)
      BY DEF IdleMeansFresh
    <2>1. seen[p] = ver[p]
      BY EngineAssumption DEF HintLeft, Idle, PassOn
    <2>2. Kept(p)
      BY <2>1 DEF KeptInv, SeenIsKept
    <2> QED
      BY <2>2 DEF Kept, Idle
  <1> QED
    BY <1>1, <1>2, <1>3, KeptInvariant, PlanInvariant, PTL DEF EngineSpec

(***************************************************************************)
(* Nothing old comes back                                                  *)
(***************************************************************************)

\* No content of a file comes back, and the file is absent only once.
NoneTwice == \A p \in Paths : \A u, v \in DOMAIN Script[p] : Script[p][u] = Script[p][v] => u = v

\* The versions of content h are from n on; they are up to n.
NotBefore(p, n, h) == \A v \in DOMAIN Script[p] : Script[p][v] = h => n <= v
NotAfter(p, n, h) == \A v \in DOMAIN Script[p] : Script[p][v] = h => v <= n

\* The history variable is the version that the view shows.
ShownIsShown ==
    /\ shown \in [Paths -> Nat]
    /\ \A p \in Paths : /\ shown[p] <= ver[p]
                        /\ shown[p] > 0 => Script[p][shown[p]] = view[p].hash
                        /\ shown[p] = 0 => view[p].hash = NoHash
                        /\ Indexed(p) => view[p].hash # NoHash

\* What the queue holds is no older than what is shown, and known to the pass.
QueueIsNewer ==
    \A p \in Paths : Queued(p) => /\ NotBefore(p, shown[p], jobs[p].hash)
                                  /\ PassOn => NotAfter(p, pass[Watcher].began[p], jobs[p].hash)

\* What is in flight lies between what is shown and what the queue holds.
FlightIsBetween ==
    \A w \in Workers : InFlight(w) /\ work[w].hash # NoHash =>
        LET p == work[w].path IN
          /\ NotBefore(p, shown[p], work[w].hash)
          /\ PassOn => NotAfter(p, pass[Watcher].began[p], work[w].hash)
          /\ Queued(p) => \A v \in DOMAIN Script[p] :
                             Script[p][v] = work[w].hash => NotBefore(p, v, jobs[p].hash)

ShownInv == /\ ShownIsShown /\ QueueIsNewer /\ FlightIsBetween
            /\ \A p \in Paths : PassOn => shown[p] <= pass[Watcher].began[p]

\* A step that shows nothing and puts nothing into the queue or in flight.
LEMMA ShownFrame ==
    ASSUME ShownInv, UNCHANGED <<shown, view>>,
           \A p \in Paths : ver[p] \in Nat /\ ver'[p] \in Nat /\ ver[p] <= ver'[p],
           \A p \in Paths : Queued(p)' => Queued(p) /\ jobs'[p].hash = jobs[p].hash,
           \A w \in Workers : InFlight(w)' => /\ InFlight(w) /\ work[w].path \in Paths
                                              /\ work'[w].path = work[w].path
                                              /\ work'[w].hash = work[w].hash,
           PassOn' => PassOn /\ pass'[Watcher].began = pass[Watcher].began
    PROVE  ShownInv'
  <1> USE DEF ShownInv
  <1>1. ShownIsShown'
    BY DEF ShownIsShown, Indexed
  <1>2. QueueIsNewer'
    BY DEF QueueIsNewer, NotBefore, NotAfter
  <1>3. FlightIsBetween'
    <2> SUFFICES ASSUME NEW w \in Workers, InFlight(w)', work'[w].hash # NoHash
                 PROVE  LET p == work[w].path IN
                          /\ NotBefore(p, shown[p], work[w].hash)
                          /\ PassOn' => NotAfter(p, pass[Watcher].began[p], work[w].hash)
                          /\ Queued(p)' => \A v \in DOMAIN Script[p] :
                                Script[p][v] = work[w].hash => NotBefore(p, v, jobs[p].hash)
      BY DEF FlightIsBetween, NotBefore, NotAfter
    <2> QED
      BY DEF FlightIsBetween
  <1> QED
    BY <1>1, <1>2, <1>3

\* A quiet step that leaves the view alone is one.
LEMMA QuietShown ==
    ASSUME EngineInv, FlightInv, ShownInv, Quiet, UNCHANGED <<shown, view>>
    PROVE  ShownInv'
  <1>1. \A p \in Paths : ver[p] \in Nat /\ ver'[p] = ver[p]
    BY Versions DEF Quiet
  <1>2. \A p \in Paths : Queued(p)' => Queued(p) /\ jobs'[p].hash = jobs[p].hash
    BY Nothing DEF Quiet, Queued
  <1>3. \A w \in Workers : InFlight(w)' => /\ InFlight(w) /\ work[w].path \in Paths
                                           /\ work'[w].path = work[w].path
                                           /\ work'[w].hash = work[w].hash
    BY Nothing DEF Quiet, InFlight, Held, EngineInv, EngineTypes
  <1>4. PassOn' => PassOn /\ pass'[Watcher].began = pass[Watcher].began
    BY Nothing DEF Quiet, PassOn
  <1> QED
    BY <1>1, <1>2, <1>3, <1>4, ShownFrame

\* The version of a content that a file has had is found by its content.
LEMMA VersionFound ==
    ASSUME NoneTwice, EngineInv, NEW p \in Paths, NEW v \in DOMAIN Script[p], v <= ver[p]
    PROVE  VersionOf(p, Script[p][v]) = v
  <1>1. /\ v \in 1..ver[p]
        /\ \A u \in 1..ver[p] : u \in DOMAIN Script[p]
    <2>1. Script[p] \in Seq(Desired) /\ ver[p] \in DOMAIN Script[p]
      BY EngineAssumption DEF EngineInv, EngineTypes
    <2> QED
      BY <2>1
  <1>2. \A u \in 1..ver[p] : Script[p][u] = Script[p][v] => u = v
    BY <1>1 DEF NoneTwice
  <1> QED
    BY <1>1, <1>2 DEF VersionOf

\* A commit that changes what is shown shows a later version, no later than
\* the queue's, and the running pass began after it.
LEMMA CommitMoves ==
    ASSUME NoneTwice, EngineInv, FlightInv, ShownInv, NEW w \in Workers, Commit(w),
           NEW p \in Paths, p = work[w].path, view'[p] # view[p]
    PROVE  \E v \in DOMAIN Script[p] :
              /\ v > shown[p] /\ v <= ver[p] /\ shown' = [shown EXCEPT ![p] = v]
              /\ view'[p].hash = Script[p][v] /\ (Indexed(p)' => Script[p][v] # NoHash)
              /\ PassOn => v <= pass[Watcher].began[p]
              /\ Queued(p)' => NotBefore(p, v, jobs[p].hash)
  <1> USE DEF ShownInv
  <1>1. /\ WorkerStep(w) /\ work[w].pc = "commit" /\ work[w].gen \in Gens
        /\ shown' = [shown EXCEPT ![p] = VersionOf(p, work[w].hash)]
        /\ view[p] \in Row
    BY DispatchKeeps DEF WorkerStep, Commit, EngineInv, CatalogInv, CatalogTypeOK
  <1>2. ASSUME NEW v \in DOMAIN Script[p], v <= ver[p], Script[p][v] = work[w].hash,
               shown[p] <= v, work[w].hash # view[p].hash
        PROVE  v > shown[p] /\ shown' = [shown EXCEPT ![p] = v]
    <2>1. VersionOf(p, work[w].hash) = v
      BY <1>2, VersionFound
    <2>2. v \in Nat /\ v > 0 /\ shown[p] \in Nat /\ shown[p] # v
      BY <1>2, Versions DEF ShownIsShown
    <2> QED
      BY <1>1, <1>2, <2>1, <2>2
  <1>3. CASE work[w].hash = NoHash
    <2>1. Matches(p, NoHash, work[w].gen) /\ view'[p] = NoRow /\ jobs'[p] = NoJob
      BY <1>1, <1>3 DEF Commit, CommitDelete, Complete, EngineInv, CatalogInv, CatalogTypeOK
    <2>2. Queued(p) /\ jobs[p].hash = NoHash /\ Indexed(p)
      BY <2>1 DEF Matches, EngineInv, CatalogInv, CatalogTypeOK
    <2>3. PICK v \in DOMAIN Script[p] : v <= ver[p] /\ Script[p][v] = NoHash
      BY <2>2 DEF FlightInv, DeletesAreFounded
    <2>4. shown[p] <= v /\ (PassOn => v <= pass[Watcher].began[p])
      BY <2>2, <2>3 DEF QueueIsNewer, NotBefore, NotAfter
    <2>5. v > shown[p] /\ shown' = [shown EXCEPT ![p] = v]
      BY <1>2, <1>3, <2>2, <2>3, <2>4 DEF ShownIsShown
    <2>6. view'[p].hash = NoHash /\ ~Indexed(p)' /\ ~Queued(p)'
      BY <2>1, NullRows, Nothing DEF Indexed, Queued
    <2> QED
      BY <2>3, <2>4, <2>5, <2>6
  <1>4. CASE work[w].hash # NoHash
    <2>1. InFlight(w) /\ view'[p].hash = work[w].hash
      BY <1>4, CommitShows
    <2>2. work[w].hash # view[p].hash
      <3> SUFFICES ASSUME work[w].hash = view[p].hash
                   PROVE  view'[p] = view[p]
        OBVIOUS
      <3>1. Indexed(p)
        BY <1>4, NullRows DEF EngineInv, CatalogInv, CatalogTypeOK
      <3>2. /\ view[p].gen \in Gens /\ IsActive(view[p].gen) /\ view[p].fp = genFp[view[p].gen]
            /\ IsActive(work[w].gen)
        BY <1>1, <2>1, <3>1 DEF InFlight, EngineInv, CatalogInv, FingerprintCorrect, Indexed,
           Row, Gens
      <3>3. view[p].gen = work[w].gen
        BY <1>1, <3>2 DEF EngineInv, CatalogInv, OneActive
      <3>4. view[p] = [hash |-> work[w].hash, fp |-> genFp[work[w].gen], gen |-> work[w].gen]
        BY <1>1, <3>2, <3>3 DEF Row
      <3> QED
        BY <1>4, <3>4 DEF Commit, CommitUpdate, EngineInv, CatalogInv, CatalogTypeOK
    <2>3. PICK v \in DOMAIN Script[p] : v <= ver[p] /\ Script[p][v] = work[w].hash
      BY <1>4 DEF FlightInv, NothingAhead, Had
    <2>4. /\ shown[p] <= v
          /\ PassOn => v <= pass[Watcher].began[p]
          /\ Queued(p) => NotBefore(p, v, jobs[p].hash)
      BY <1>4, <2>1, <2>3 DEF FlightIsBetween, NotBefore, NotAfter
    <2>5. Queued(p)' => Queued(p)
      BY <1>1, DispatchKeeps, Nothing DEF Queued
    <2> QED
      BY <1>2, <1>4, <2>1, <2>2, <2>3, <2>4, <2>5
  <1> QED
    BY <1>3, <1>4

\* After a commit the slot is empty, so nothing is in flight.
LEMMA CommitShown ==
    ASSUME NoneTwice, EngineInv, FlightInv, OneAtWork, ShownInv, NEW w \in Workers, Commit(w)
    PROVE  ShownInv'
  <1> USE DEF ShownInv
  <1>1. /\ WorkerStep(w) /\ work[w].path \in Paths /\ UNCHANGED <<ver, pass>>
        /\ \A v \in Workers : v # w => work'[v] = work[v]
        /\ \A q \in Paths : jobs'[q] = jobs[q] \/ jobs'[q] = NoJob
    BY DispatchKeeps, DispatchFrame DEF WorkerStep
  <1>2. \A v \in Workers : ~InFlight(v)'
    BY <1>1, Nothing DEF Commit, Finish, OneAtWork, InFlight, Slotted, EngineInv, EngineTypes
  <1>3. \A q \in Paths : Queued(q)' => Queued(q) /\ jobs'[q] = jobs[q]
    BY <1>1, Nothing DEF Queued
  <1>4. \A q \in Paths : q # work[w].path => view'[q] = view[q]
    BY <1>1 DEF Commit, CommitUpdate, CommitDelete, EngineInv, CatalogInv, CatalogTypeOK
  <1>5. CASE view'[work[w].path] = view[work[w].path]
    <2>1. view' = view /\ shown' = shown
      BY <1>1, <1>4, <1>5 DEF Commit, CommitUpdate, CommitDelete, EngineInv, CatalogInv,
         CatalogTypeOK
    <2>2. \A p \in Paths : ver[p] \in Nat /\ ver'[p] = ver[p]
      BY <1>1, Versions
    <2> QED
      BY <1>1, <1>2, <1>3, <2>1, <2>2, ShownFrame DEF PassOn
  <1>6. CASE view'[work[w].path] # view[work[w].path]
    <2>0. PICK p \in Paths : p = work[w].path
      BY <1>1
    <2>1. PICK v \in DOMAIN Script[p] :
              /\ v > shown[p] /\ v <= ver[p] /\ shown' = [shown EXCEPT ![p] = v]
              /\ view'[p].hash = Script[p][v] /\ (Indexed(p)' => Script[p][v] # NoHash)
              /\ PassOn => v <= pass[Watcher].began[p]
              /\ Queued(p)' => NotBefore(p, v, jobs[p].hash)
      BY <1>6, <2>0, CommitMoves
    <2>2. v \in Nat /\ v > 0 /\ PassOn' = PassOn
      BY <1>1, Versions DEF PassOn
    <2>3. shown' \in [Paths -> Nat] /\ shown'[p] = v /\ \A q \in Paths : q # p => shown'[q] = shown[q]
      BY <1>1, <2>1, <2>2 DEF ShownIsShown
    <2>4. ShownIsShown'
      <3> SUFFICES ASSUME NEW q \in Paths
                   PROVE  /\ shown'[q] <= ver[q]
                          /\ shown'[q] > 0 => Script[q][shown'[q]] = view'[q].hash
                          /\ shown'[q] = 0 => view'[q].hash = NoHash
                          /\ Indexed(q)' => view'[q].hash # NoHash
        BY <1>1, <2>3 DEF ShownIsShown
      <3>1. CASE q = p
        BY <2>1, <2>2, <2>3, <3>1
      <3>2. CASE q # p
        BY <1>4, <2>0, <2>3, <3>2 DEF ShownIsShown, Indexed
      <3> QED
        BY <3>1, <3>2
    <2>5. QueueIsNewer'
      <3> SUFFICES ASSUME NEW q \in Paths, Queued(q)'
                   PROVE  /\ NotBefore(q, shown'[q], jobs[q].hash)
                          /\ PassOn => NotAfter(q, pass[Watcher].began[q], jobs[q].hash)
        BY <1>1, <1>3, <2>2 DEF QueueIsNewer, NotBefore, NotAfter
      <3>1. CASE q = p
        BY <1>3, <2>1, <2>3, <3>1 DEF QueueIsNewer
      <3>2. CASE q # p
        BY <1>3, <2>3, <3>2 DEF QueueIsNewer
      <3> QED
        BY <3>1, <3>2
    <2>6. \A q \in Paths : PassOn' => shown'[q] <= pass'[Watcher].began[q]
      BY <1>1, <2>1, <2>2, <2>3
    <2> QED
      BY <1>2, <2>4, <2>5, <2>6 DEF FlightIsBetween
  <1> QED
    BY <1>5, <1>6

\* A pass begins with every version there is, and reads nothing older.
LEMMA PassShown ==
    ASSUME NoneTwice, EngineInv, FlightInv, ShownInv, BeginPass(Watcher) \/ PassStep(Watcher)
    PROVE  ShownInv'
  <1> USE DEF ShownInv
  <1>1. /\ UNCHANGED <<ver, view, status, work>>
        /\ \A w \in Workers : /\ InFlight(w)' <=> InFlight(w)
                              /\ InFlight(w) => work[w].path \in Paths
    BY DEF BeginPass, PassStep, ReadIndex, ReadTruth, EnqueuePlan, AbortPass, UpsertJobs,
       catalogVars, workVars, InFlight, IsActive, Held, EngineInv, EngineTypes
  <1>2. \A p \in Paths : ver[p] \in Nat
    BY Versions
  <1>3. shown' = shown
    BY DEF BeginPass, PassStep, ReadIndex, ReadTruth, EnqueuePlan, AbortPass, history
  <1>4. CASE BeginPass(Watcher)
    <2>1. jobs' = jobs /\ pass'[Watcher].began = ver
      BY <1>4, EngineAssumption DEF BeginPass, catalogVars, EngineInv, EngineTypes, Pass
    <2>2. ASSUME NEW p \in Paths, NEW h \in Desired, Had(p, h), h # NoHash
          PROVE  NotAfter(p, ver[p], h)
      BY <2>2 DEF Had, NoneTwice, NotAfter
    <2>3. ASSUME NEW p \in Paths, Queued(p)
          PROVE  NotAfter(p, ver[p], jobs[p].hash)
      <3>1. CASE jobs[p].hash = NoHash
        BY <2>3, <3>1 DEF FlightInv, DeletesAreFounded, NoneTwice, NotAfter
      <3>2. CASE jobs[p].hash # NoHash
        BY <2>2, <3>2, Contents DEF FlightInv, NothingAhead
      <3> QED
        BY <3>1, <3>2
    <2>4. ASSUME NEW w \in Workers, InFlight(w), work[w].hash # NoHash
          PROVE  NotAfter(work[w].path, ver[work[w].path], work[w].hash)
      BY <1>1, <2>2, <2>4, Contents DEF FlightInv, NothingAhead
    <2>5. ShownIsShown'
      BY <1>1, <1>3 DEF ShownIsShown, Indexed
    <2>6. QueueIsNewer'
      BY <1>3, <2>1, <2>3 DEF QueueIsNewer, Queued, NotBefore, NotAfter
    <2>7. FlightIsBetween'
      BY <1>1, <1>3, <2>1, <2>4 DEF FlightIsBetween, Queued, NotBefore, NotAfter
    <2>8. \A p \in Paths : shown'[p] <= pass'[Watcher].began[p]
      BY <1>3, <2>1 DEF ShownIsShown
    <2> QED
      BY <2>5, <2>6, <2>7, <2>8
  <1>5. CASE ReadIndex(Watcher) \/ \E p \in Paths : ReadTruth(Watcher, p)
    <2>1. jobs' = jobs
      BY <1>5 DEF ReadIndex, ReadTruth, catalogVars
    <2>2. PassOn /\ pass'[Watcher].began = pass[Watcher].began
      <3>1. CASE ReadIndex(Watcher)
        BY <3>1, EngineAssumption DEF ReadIndex, EngineInv, EngineTypes, Pass, PassOn
      <3>2. ASSUME NEW p \in Paths, ReadTruth(Watcher, p)
            PROVE  PassOn /\ pass'[Watcher].began = pass[Watcher].began
        <4>1. pass'[Watcher] = [pass[Watcher] EXCEPT !.truth[p] = ver[p]] /\ pass[Watcher].pc = "truth"
          BY <3>2, EngineAssumption DEF ReadTruth, EngineInv, EngineTypes
        <4> QED
          BY <4>1, Versions DEF Pass, PassOn
      <3> QED
        BY <1>5, <3>1, <3>2
    <2> QED
      BY <1>1, <1>2, <1>3, <2>1, <2>2, ShownFrame DEF Queued
  <1>6. CASE AbortPass(Watcher)
    BY <1>1, <1>3, <1>6, QuietEnd, QuietShown
  <1>7. CASE EnqueuePlan(Watcher)
    <2>1. PassOn /\ ~PassOn'
      BY <1>7, EngineAssumption, Nothing DEF EnqueuePlan, PassOn, EngineInv, EngineTypes
    <2>2. ASSUME NEW p \in Paths
          PROVE  \/ jobs'[p] = jobs[p]
                 \/ /\ jobs'[p].hash = Read(p) /\ TruthOf(p) \in DOMAIN Script[p]
                    /\ pass[Watcher].began[p] <= TruthOf(p)
                    /\ shown[p] <= pass[Watcher].began[p]
                    /\ {shown[p], pass[Watcher].began[p], TruthOf(p)} \subseteq Nat
      <3>1. TruthOf(p) > 0
        BY <1>7 DEF EnqueuePlan, TruthOf
      <3>2. /\ TruthOf(p) \in DOMAIN Script[p] /\ pass[Watcher].began[p] <= TruthOf(p)
            /\ {shown[p], pass[Watcher].began[p], TruthOf(p)} \subseteq Nat
        BY <3>1, Versions DEF FlightInv, ReadsOrdered, ShownIsShown
      <3> QED
        BY <1>7, <2>1, <3>2, PlanIsEnqueued
    <2>3. ASSUME NEW p \in Paths, jobs'[p] # jobs[p], NEW v \in DOMAIN Script[p],
                 Script[p][v] = jobs'[p].hash
          PROVE  v = TruthOf(p)
      BY <2>2, <2>3 DEF NoneTwice, Read
    <2>4. QueueIsNewer'
      <3> SUFFICES ASSUME NEW p \in Paths, Queued(p)'
                   PROVE  NotBefore(p, shown[p], jobs'[p].hash)
        BY <1>3, <2>1 DEF QueueIsNewer, NotBefore
      <3>1. CASE jobs'[p] = jobs[p]
        BY <3>1 DEF QueueIsNewer, Queued
      <3>2. CASE jobs'[p] # jobs[p]
        BY <2>2, <2>3, <3>2 DEF NotBefore
      <3> QED
        BY <3>1, <3>2
    <2>5. FlightIsBetween'
      <3> SUFFICES ASSUME NEW w \in Workers, InFlight(w), work[w].hash # NoHash,
                          NEW p \in Paths, p = work[w].path, Queued(p)',
                          NEW u \in DOMAIN Script[p], Script[p][u] = work[w].hash
                   PROVE  NotBefore(p, u, jobs'[p].hash)
        BY <1>1, <1>3, <2>1 DEF FlightIsBetween, NotBefore
      <3>1. CASE jobs'[p] = jobs[p]
        BY <3>1 DEF FlightIsBetween, Queued
      <3>2. CASE jobs'[p] # jobs[p]
        <4>1. u <= pass[Watcher].began[p] /\ u \in Nat
          BY <2>1, Versions DEF FlightIsBetween, NotAfter
        <4> QED
          BY <2>2, <2>3, <3>2, <4>1 DEF NotBefore
      <3> QED
        BY <3>1, <3>2
    <2>6. ShownIsShown'
      BY <1>1, <1>3 DEF ShownIsShown, Indexed
    <2> QED
      BY <2>1, <2>4, <2>5, <2>6
  <1> QED
    BY <1>4, <1>5, <1>6, <1>7 DEF PassStep

\* A dispatch puts in flight what the queue holds.
LEMMA DispatchShown ==
    ASSUME NoneTwice, EngineInv, FlightInv, OneAtWork, ShownInv, NEW w \in Workers,
           WorkerStep(w) \/ Redispatch(w)
    PROVE  ShownInv'
  <1> USE DEF ShownInv
  <1>1. CASE Commit(w)
    BY <1>1, CommitShown
  <1>2. CASE PreCheck(w) /\ InFlight(w)'
    <2>1. /\ UNCHANGED <<ver, view, shown, pass, jobs>>
          /\ Queued(work[w].path) /\ jobs[work[w].path].hash = work[w].hash
          /\ work[w].path \in Paths
          /\ work'[w].path = work[w].path /\ work'[w].hash = work[w].hash
      BY <1>2, PreCheckPasses DEF PreCheck, catalogVars, history, FlightInv
    <2>2. \A v \in Workers : v # w => work'[v] = work[v] /\ (InFlight(v)' <=> InFlight(v))
      BY <1>2, DispatchKeeps DEF WorkerStep, InFlight, IsActive, PreCheck, catalogVars
    <2>3. ShownIsShown' /\ QueueIsNewer'
      BY <2>1 DEF ShownIsShown, QueueIsNewer, Indexed, Queued, PassOn, NotBefore, NotAfter
    <2>4. ASSUME NEW u \in DOMAIN Script[work[w].path], NEW v \in DOMAIN Script[work[w].path],
                 Script[work[w].path][u] = work[w].hash, Script[work[w].path][v] = work[w].hash
          PROVE  u <= v
      <3>1. u = v /\ u \in Nat
        BY <2>1, <2>4, Versions DEF NoneTwice
      <3> QED
        BY <3>1
    <2>5. ASSUME NEW x \in Workers, InFlight(x)', work'[x].hash # NoHash
          PROVE  LET p == work[x].path IN
                   /\ work'[x].path = p /\ work'[x].hash = work[x].hash
                   /\ NotBefore(p, shown[p], work[x].hash)
                   /\ PassOn => NotAfter(p, pass[Watcher].began[p], work[x].hash)
                   /\ Queued(p) => \A v \in DOMAIN Script[p] :
                         Script[p][v] = work[x].hash => NotBefore(p, v, jobs[p].hash)
      <3>1. CASE x = w
        BY <2>1, <2>4, <3>1 DEF QueueIsNewer, NotBefore
      <3>2. CASE x # w
        BY <2>2, <2>5, <3>2 DEF FlightIsBetween
      <3> QED
        BY <3>1, <3>2
    <2>6. FlightIsBetween'
      BY <2>1, <2>5 DEF FlightIsBetween, Queued, PassOn, NotBefore, NotAfter
    <2> QED
      BY <2>1, <2>3, <2>6 DEF PassOn
  <1>3. CASE ~Commit(w) /\ ~(PreCheck(w) /\ InFlight(w)')
    <2>1. shown' = shown
      BY <1>3 DEF WorkerStep, Redispatch, PreCheck, Load, Build, PostCheck, Transient, Permanent,
         Terminate, TerminateFails, history
    <2> QED
      BY <1>3, <2>1, QuietDispatch, QuietShown, DispatchFrame
  <1> QED
    BY <1>1, <1>2, <1>3

\* Every step shows what is newer, or starts over.
LEMMA ShownStep ==
    ASSUME OnlyWatcher, NoneTwice, EngineInv, FlightInv, OneAtWork, ShownInv,
           [EngineNext]_engineVars
    PROVE  ShownInv'
  <1>1. ASSUME NEW w \in Workers, NEW p \in Paths, Claim(w, p)
        PROVE  ShownInv'
    <2>1. UNCHANGED <<ver, view, shown, pass, status>>
      BY <1>1 DEF Claim, ClaimNextJob, history
    <2>2. \A q \in Paths : Queued(q)' => Queued(q) /\ jobs'[q].hash = jobs[q].hash
      BY <1>1 DEF Claim, ClaimNextJob, EngineInv, CatalogInv, CatalogTypeOK, Job, Queued
    <2>3. \A v \in Workers : InFlight(v)' => InFlight(v) /\ work'[v] = work[v] /\ work[v].path \in Paths
      BY <1>1, <2>1 DEF Claim, InFlight, IsActive, Held, EngineInv, EngineTypes
    <2>4. \A q \in Paths : ver[q] \in Nat
      BY Versions
    <2> QED
      BY <2>1, <2>2, <2>3, <2>4, ShownFrame DEF PassOn
  <1>2. ASSUME NEW p \in Paths, Edit(p)
        PROVE  ShownInv'
    <2>1. UNCHANGED <<view, jobs, status, work, pass, shown>>
      BY <1>2 DEF Edit, catalogVars, workVars
    <2>2. \A q \in Paths : ver[q] \in Nat /\ (ver'[q] = ver[q] \/ ver'[q] = ver[q] + 1)
      BY <1>2, Versions DEF Edit, EngineInv, EngineTypes
    <2>3. \A w \in Workers : InFlight(w)' => InFlight(w) /\ work[w].path \in Paths
      BY <2>1 DEF InFlight, IsActive, Held, EngineInv, EngineTypes
    <2> QED
      BY <2>1, <2>2, <2>3, ShownFrame DEF Queued, PassOn
  <1>3. CASE DaemonStep
    <2>1. CASE Roll
      <3>1. \A w \in Workers : ~InFlight(w)'
        BY <1>3, <2>1, QuietDaemon, RollActivates DEF Quiet, InFlight, Held, EngineInv,
           EngineTypes,
           IsActive
      <3>2. ~PassOn'
        BY <2>1, RollActivates DEF FlightInv, AllActive, PassOn
      <3>3. \A p \in Paths : ~Queued(p)'
        BY <2>1, RollActivates, Nothing DEF Queued
      <3>4. ShownIsShown'
        BY <2>1, RollActivates, Versions, NullRows DEF ShownIsShown, Indexed
      <3> QED
        BY <3>1, <3>2, <3>3, <3>4 DEF ShownInv, QueueIsNewer, FlightIsBetween
    <2>2. CASE ~Roll
      <3>1. UNCHANGED <<shown, view>>
        BY <1>3, <2>2 DEF DaemonStep, RegisterStep, Start, Register, FingerprintMatches, FindSlot,
           CheckView, RegisterFails, RegisterAgain, Recover, RecoverFails, history, catalogVars,
           EnsureActiveGeneration, CreateGeneration, RequeueClaimedJobs
      <3> QED
        BY <1>3, <3>1, QuietDaemon, QuietShown
    <2> QED
      BY <2>1, <2>2
  <1>4. CASE Stop \/ UNCHANGED engineVars
    <2>1. UNCHANGED <<shown, view>>
      BY <1>4 DEF Stop, engineVars, catalogVars, history
    <2> QED
      BY <1>4, <2>1, QuietEnd, QuietShown
  <1> QED
    BY <1>1, <1>2, <1>3, <1>4, PassShown, DispatchShown DEF EngineNext, DaemonStep, OnlyWatcher

\* Every step is one of the promise's.
LEMMA PromiseStep ==
    ASSUME NoneTwice, EngineInv, FlightInv, ShownInv, [EngineNext]_engineVars
    PROVE  Promise!ViewNext \/ UNCHANGED <<ver, shown>>
  <1>1. ASSUME NEW w \in Workers, WorkerStep(w) \/ Redispatch(w)
        PROVE  Promise!ViewNext \/ UNCHANGED <<ver, shown>>
    <2>1. ver' = ver
      BY <1>1, DispatchFrame
    <2>2. CASE Commit(w) /\ view'[work[w].path] # view[work[w].path]
      <3>1. PICK p \in Paths : p = work[w].path
        BY <1>1, DispatchKeeps
      <3>2. PICK v \in DOMAIN Script[p] : v > shown[p] /\ v <= ver[p] /\ shown' = [shown EXCEPT ![p] = v]
        BY <2>2, <3>1, CommitMoves
      <3>3. v \in (shown[p] + 1)..ver[p]
        BY <3>2, Versions DEF ShownInv, ShownIsShown
      <3> QED
        BY <2>1, <3>2, <3>3 DEF Promise!ViewNext, Promise!ViewShow
    <2>3. CASE ~(Commit(w) /\ view'[work[w].path] # view[work[w].path])
      BY <1>1, <2>1, <2>3 DEF WorkerStep, Redispatch, PreCheck, Load, Build, PostCheck, Commit,
         Transient, Permanent, Terminate, TerminateFails, history
    <2> QED
      BY <2>2, <2>3
  <1>2. ASSUME NEW p \in Paths, Edit(p)
        PROVE  Promise!ViewNext
    BY <1>2 DEF Edit, Promise!ViewNext, Promise!ViewEdit
  <1>3. CASE Roll
    BY <1>3, RollActivates DEF Promise!ViewNext, Promise!ViewWipe
  <1>4. CASE ~Roll /\ DaemonStep
    BY <1>4 DEF DaemonStep, RegisterStep, Start, Register, FingerprintMatches, FindSlot,
       CheckView,
       RegisterFails, RegisterAgain, Recover, RecoverFails, history
  <1>5. ASSUME NEW r \in Passes, BeginPass(r) \/ PassStep(r)
        PROVE  UNCHANGED <<ver, shown>>
    BY <1>5 DEF BeginPass, PassStep, ReadIndex, ReadTruth, EnqueuePlan, AbortPass, history
  <1>6. Stop \/ UNCHANGED engineVars \/ (\E w \in Workers, p \in Paths : Claim(w, p))
           => UNCHANGED <<ver, shown>>
    BY DEF Stop, Claim, engineVars, history
  <1> QED
    BY <1>1, <1>2, <1>3, <1>4, <1>5, <1>6 DEF EngineNext, DaemonStep

\* The engine keeps what a search relies on, with one index slot and contents
\* that do not come back: a path is never shown in a version of the future and
\* never goes back to an older one, but that a roll starts over; whatever
\* stops, failures, retries and dead letters there are.
THEOREM ViewNeverRegresses ==
    ASSUME OnlyWatcher, NoneTwice, OneSlot
    PROVE  EngineSpec => NeverRegresses
  <1>1. EngineInit => Promise!ViewInit /\ ShownInv
    <2> SUFFICES ASSUME EngineInit
                 PROVE  Promise!ViewInit /\ ShownInv
      OBVIOUS
    <2>1. /\ ver = [p \in Paths |-> 1] /\ shown = [p \in Paths |-> 0] /\ pass[Watcher] = NoPass
          /\ \A p \in Paths : view[p] = NoRow /\ jobs[p] = NoJob
          /\ \A w \in Workers : work[w] = NoWork
      BY EngineAssumption DEF EngineInit, CatalogInit
    <2>2. /\ ~PassOn /\ (\A w \in Workers : ~InFlight(w))
          /\ \A p \in Paths : ~Queued(p) /\ ~Indexed(p) /\ view[p].hash = NoHash
      BY <2>1, Nothing, NullRows DEF PassOn, InFlight, Queued, Indexed
    <2>3. ShownIsShown
      BY <2>1, <2>2 DEF ShownIsShown
    <2> QED
      BY <2>1, <2>2, <2>3 DEF Promise!ViewInit, ShownInv, QueueIsNewer, FlightIsBetween
  <1>2. EngineInv /\ FlightInv /\ OneAtWork /\ ShownInv /\ [EngineNext]_engineVars => ShownInv'
    BY ShownStep
  <1>3. EngineInv /\ FlightInv /\ ShownInv /\ [EngineNext]_engineVars
           => [Promise!ViewNext]_(Promise!viewVars)
    BY PromiseStep DEF Promise!viewVars
  <1>4. NothingComesBack
    BY DEF NoneTwice, NothingComesBack
  <1> QED
    BY <1>1, <1>2, <1>3, <1>4, FlightInvariant, OneInvariant, PTL
    DEF EngineSpec, NeverRegresses, Promise!ViewSpec

=============================================================================
