--------------------------- MODULE Scheduler_proofs ---------------------------
(***************************************************************************)
(* For any number of callers, any threshold and any number of openings:    *)
(* the breaker never wedges, never admits a second probe, and no late      *)
(* completion reaches the state of a later epoch.  For any number of       *)
(* repositories, jobs and goroutines: the engine uses its breaker as the   *)
(* breaker demands, its slots and its wait group count the work under way, *)
(* and it starves no repository.                                           *)
(***************************************************************************)
EXTENDS Scheduler, FiniteSetTheorems, WellFoundedInduction, TLAPS

(***************************************************************************)
(* The circuit breaker                                                     *)
(***************************************************************************)

\* The probe in flight belongs to the current epoch: only its own record can
\* open the breaker, and with it end the epoch.
ProbeIsCurrent == \A c \in Callers : Probing(c) => adm[c].epoch = epoch

\* Admissions stop at the bound, so no record opens the breaker beyond it.
AdmittedBelowBound == \A c \in Callers : adm[c].ok => adm[c].epoch < MaxEpoch

BreakerInv ==
    /\ BreakerTypeOK
    /\ OneProbe
    /\ InFlightIsStale
    /\ ClosedMeansHealthy
    /\ ProbeIsCurrent
    /\ AdmittedBelowBound

\* No admission is a well-formed admission, and is not granted.
LEMMA NoAdmissionIsNone == NoAdmission \in Admission /\ ~NoAdmission.ok /\ ~NoAdmission.probe
  BY DEF NoAdmission, Admission

\* The epoch is a number the code can compare.
LEMMA EpochIsNat == BreakerTypeOK => epoch \in Nat /\ epoch <= MaxEpoch
  BY BreakerAssumption DEF BreakerTypeOK

\* Only an open breaker waits for its probe interval.
LEMMA ElapsedWhenOpen == BreakerTypeOK /\ state # "open" => elapsed = FALSE
  BY Zenon DEF BreakerTypeOK

\* Granting an admission changes the caller's only.
LEMMA GrantIsOwn ==
    ASSUME BreakerTypeOK, NEW c \in Callers, NEW probe \in BOOLEAN, Grant(c, probe)
    PROVE  /\ adm' \in [Callers -> Admission]
           /\ adm'[c] = [epoch |-> epoch, probe |-> probe, ok |-> TRUE]
           /\ adm'[c].epoch = epoch /\ adm'[c].probe = probe /\ adm'[c].ok
           /\ \A d \in Callers : d # c => adm'[d] = adm[d]
  <1>1. [epoch |-> epoch, probe |-> probe, ok |-> TRUE] \in Admission
    BY EpochIsNat DEF Admission
  <1>2. adm \in [Callers -> Admission]
    BY DEF BreakerTypeOK
  <1> QED
    BY <1>1, <1>2 DEF Grant

\* A bounded epoch and typed admissions are all that is left of the types.
LEMMA BreakerTypes ==
    ASSUME state' \in {"closed", "open", "half-open"}, failures' \in Nat,
           epoch' \in Nat, epoch' <= MaxEpoch,
           elapsed' \in BOOLEAN, elapsed' => state' = "open",
           adm' \in [Callers -> Admission],
           \A d \in Callers : adm'[d].ok \/ adm'[d] = NoAdmission
    PROVE  BreakerTypeOK'
  BY BreakerAssumption DEF BreakerTypeOK

\* A new breaker satisfies the invariant.
LEMMA BreakerInitInv == BreakerInit => BreakerInv
  <1> SUFFICES ASSUME BreakerInit
               PROVE  BreakerInv
    OBVIOUS
  <1>1. \A c \in Callers : adm[c] = NoAdmission /\ ~adm[c].ok
    BY NoAdmissionIsNone DEF BreakerInit
  <1>2. BreakerTypeOK
    <2>1. adm \in [Callers -> Admission]
      BY NoAdmissionIsNone DEF BreakerInit
    <2>2. epoch \in 0..MaxEpoch
      BY BreakerAssumption DEF BreakerInit
    <2> QED
      BY <1>1, <2>1, <2>2 DEF BreakerInit, BreakerTypeOK
  <1> QED
    BY <1>1, <1>2, BreakerAssumption
    DEF BreakerInit, BreakerInv, OneProbe, InFlightIsStale, ClosedMeansHealthy,
        ProbeIsCurrent, AdmittedBelowBound, Probing

\* The probe interval passing lets nobody in by itself.
LEMMA ElapseInv ==
    ASSUME BreakerInv, Elapse
    PROVE  BreakerInv'
  BY DEF Elapse, BreakerInv, BreakerTypeOK, OneProbe, InFlightIsStale, ClosedMeansHealthy,
         ProbeIsCurrent, AdmittedBelowBound, Probing

\* An admission either joins a closed breaker or is the one probe.
LEMMA AllowInv ==
    ASSUME BreakerInv, NEW c \in Callers, Allow(c)
    PROVE  BreakerInv'
  <1>1. failures' = failures /\ epoch' = epoch /\ epoch < MaxEpoch /\ BreakerTypeOK
    BY DEF Allow, BreakerInv
  <1>2. CASE state = "closed" /\ Grant(c, FALSE) /\ UNCHANGED <<state, elapsed>>
    <2>1. /\ adm' \in [Callers -> Admission]
          /\ adm'[c].epoch = epoch /\ ~adm'[c].probe /\ adm'[c].ok
          /\ \A d \in Callers : d # c => adm'[d] = adm[d]
      BY <1>1, <1>2, GrantIsOwn
    <2>2. BreakerTypeOK'
      BY <1>1, <1>2, <2>1, BreakerTypes, EpochIsNat DEF BreakerTypeOK
    <2>3. OneProbe' /\ ProbeIsCurrent'
      BY <1>1, <1>2, <2>1 DEF BreakerInv, OneProbe, ProbeIsCurrent, Probing
    <2>4. InFlightIsStale' /\ ClosedMeansHealthy' /\ AdmittedBelowBound'
      BY <1>1, <1>2, <2>1
      DEF BreakerInv, InFlightIsStale, ClosedMeansHealthy, AdmittedBelowBound
    <2> QED
      BY <2>2, <2>3, <2>4 DEF BreakerInv
  <1>3. CASE state = "open" /\ state' = "half-open" /\ elapsed' = FALSE /\ Grant(c, TRUE)
    <2>1. /\ adm' \in [Callers -> Admission]
          /\ adm'[c].epoch = epoch /\ adm'[c].probe /\ adm'[c].ok
          /\ \A d \in Callers : d # c => adm'[d] = adm[d]
      BY <1>1, <1>3, GrantIsOwn
    <2>2. \A d \in Callers : ~Probing(d)
      BY <1>3 DEF BreakerInv, OneProbe
    <2>3. BreakerTypeOK'
      BY <1>1, <1>3, <2>1, BreakerTypes, EpochIsNat DEF BreakerTypeOK
    <2>4. OneProbe' /\ ProbeIsCurrent'
      BY <1>1, <1>3, <2>1, <2>2 DEF BreakerInv, OneProbe, ProbeIsCurrent, Probing
    <2>5. InFlightIsStale' /\ ClosedMeansHealthy' /\ AdmittedBelowBound'
      BY <1>1, <1>3, <2>1
      DEF BreakerInv, InFlightIsStale, ClosedMeansHealthy, AdmittedBelowBound
    <2> QED
      BY <2>3, <2>4, <2>5 DEF BreakerInv
  <1> QED
    BY <1>2, <1>3 DEF Allow

\* The record of the probe finds the breaker half-open and ends the episode.
LEMMA RecordProbeInv ==
    ASSUME BreakerInv, NEW c \in Callers, NEW r, Record(c, r), adm[c].probe
    PROVE  BreakerInv'
  <1>1. /\ Probing(c) /\ state = "half-open" /\ adm[c].epoch = epoch /\ epoch < MaxEpoch
        /\ \A d \in Callers : d # c => ~Probing(d)
    BY DEF Record, Probing, BreakerInv, OneProbe, ProbeIsCurrent, AdmittedBelowBound
  <1>2. /\ \A d \in Callers : d # c => adm'[d] = adm[d]
        /\ adm' \in [Callers -> Admission]
        /\ adm'[c] = NoAdmission /\ ~adm'[c].ok
    BY NoAdmissionIsNone DEF Record, BreakerInv, BreakerTypeOK
  <1>3. \/ state' = "closed" /\ failures' = 0 /\ epoch' = epoch /\ elapsed' = elapsed
        \/ state' = "open" /\ epoch' = epoch + 1 /\ failures' = failures /\ elapsed' = FALSE
    BY <1>1 DEF Record, RecordProbe, Open
  <1>4. BreakerTypeOK'
    <2>1. BreakerTypeOK /\ epoch \in Nat /\ elapsed = FALSE
      BY <1>1, EpochIsNat, ElapsedWhenOpen DEF BreakerInv
    <2>2. \A d \in Callers : adm'[d].ok \/ adm'[d] = NoAdmission
      BY <1>2, <2>1 DEF BreakerTypeOK
    <2>3. epoch' \in Nat /\ epoch' <= MaxEpoch
      BY <1>1, <1>3, <2>1, BreakerAssumption
    <2>4. state' \in {"closed", "open", "half-open"} /\ failures' \in Nat
      BY <1>3, <2>1 DEF BreakerTypeOK
    <2>5. elapsed' = FALSE
      BY <1>3, <2>1
    <2> QED
      BY <1>2, <2>2, <2>3, <2>4, <2>5, BreakerTypes
  <1>5. OneProbe' /\ ProbeIsCurrent'
    BY <1>1, <1>2, <1>3 DEF OneProbe, ProbeIsCurrent, Probing
  <1>6. \A d \in Callers : adm'[d].ok => adm'[d] = adm[d] /\ adm[d].epoch < epoch
    BY <1>1, <1>2 DEF BreakerInv, InFlightIsStale, Probing
  <1>7. InFlightIsStale'
    <2>1. epoch \in Nat /\ \A d \in Callers : adm[d].epoch \in Nat
      BY DEF BreakerInv, BreakerTypeOK, Admission
    <2> QED
      BY <1>3, <1>6, <2>1 DEF InFlightIsStale
  <1>8. ClosedMeansHealthy' /\ AdmittedBelowBound'
    BY <1>2, <1>3, BreakerAssumption
    DEF BreakerInv, ClosedMeansHealthy, AdmittedBelowBound
  <1> QED
    BY <1>4, <1>5, <1>7, <1>8 DEF BreakerInv

\* The record of any other call counts only while its epoch lasts, and then
\* the breaker is closed.
LEMMA RecordCallInv ==
    ASSUME BreakerInv, NEW c \in Callers, NEW r, Record(c, r), ~adm[c].probe
    PROVE  BreakerInv'
  <1>1. /\ \A d \in Callers : d # c => adm'[d] = adm[d]
        /\ adm' \in [Callers -> Admission]
        /\ adm'[c] = NoAdmission /\ ~adm'[c].ok /\ adm[c].ok
    BY NoAdmissionIsNone DEF Record, BreakerInv, BreakerTypeOK
  <1>2. ~Probing(c) /\ RecordCall(adm[c], r)
    BY DEF Probing, Record
  <1>3. CASE UNCHANGED <<state, epoch, elapsed>> /\ failures' \in {0, failures}
    BY <1>1, <1>2, <1>3, BreakerAssumption
    DEF BreakerInv, BreakerTypeOK, OneProbe, InFlightIsStale, ClosedMeansHealthy,
        ProbeIsCurrent, AdmittedBelowBound, Probing
  <1>4. CASE adm[c].epoch = epoch /\ CountAndTrip
    <2>1. state = "closed" /\ epoch < MaxEpoch
      BY <1>1, <1>2, <1>4
      DEF BreakerInv, BreakerTypeOK, InFlightIsStale, AdmittedBelowBound, Probing, Admission
    <2>2. \A d \in Callers : ~Probing(d) /\ ~Probing(d)'
      BY <1>1, <2>1 DEF BreakerInv, OneProbe, Probing
    <2>3. /\ failures' = failures + 1
          /\ \/ state' = "open" /\ epoch' = epoch + 1 /\ elapsed' = FALSE
             \/ UNCHANGED <<state, epoch, elapsed>> /\ failures' < OpenAfter
      BY <1>4, BreakerAssumption DEF CountAndTrip, Open, BreakerInv, BreakerTypeOK
    <2>4. BreakerTypeOK'
      <3>1. BreakerTypeOK /\ epoch \in Nat /\ epoch <= MaxEpoch
        BY EpochIsNat DEF BreakerInv
      <3>2. \A d \in Callers : adm'[d].ok \/ adm'[d] = NoAdmission
        BY <1>1, <3>1 DEF BreakerTypeOK
      <3>3. epoch' \in Nat /\ epoch' <= MaxEpoch /\ failures' \in Nat
        BY <2>1, <2>3, <3>1, BreakerAssumption DEF BreakerTypeOK
      <3>4. state' \in {"closed", "open", "half-open"}
        BY <2>3, <3>1 DEF BreakerTypeOK
      <3>5. elapsed' = FALSE
        BY <2>1, <2>3, <3>1, ElapsedWhenOpen
      <3> QED
        BY <1>1, <3>2, <3>3, <3>4, <3>5, BreakerTypes
    <2>5. OneProbe' /\ ProbeIsCurrent'
      BY <2>1, <2>2, <2>3 DEF OneProbe, ProbeIsCurrent
    <2>6. InFlightIsStale'
      <3>1. epoch \in Nat /\ \A d \in Callers : adm[d].epoch \in Nat
        BY DEF BreakerInv, BreakerTypeOK, Admission
      <3> QED
        BY <1>1, <2>1, <2>3, <3>1 DEF BreakerInv, InFlightIsStale
    <2>7. ClosedMeansHealthy' /\ AdmittedBelowBound'
      BY <1>1, <2>3 DEF BreakerInv, ClosedMeansHealthy, AdmittedBelowBound
    <2> QED
      BY <2>4, <2>5, <2>6, <2>7 DEF BreakerInv
  <1> QED
    BY <1>2, <1>3, <1>4 DEF RecordCall

\* An admission that changes hands stays one admission.
LEMMA HandOverInv ==
    ASSUME BreakerInv, NEW c \in Callers, NEW d \in Callers, HandOver(c, d)
    PROVE  BreakerInv'
  <1>1. UNCHANGED <<state, failures, epoch, elapsed>> /\ c # d
    BY DEF HandOver
  <1>2. /\ adm' \in [Callers -> Admission]
        /\ adm'[d] = adm[c] /\ adm'[c] = NoAdmission /\ ~adm'[c].ok
        /\ \A e \in Callers : e # c /\ e # d => adm'[e] = adm[e]
    BY <1>1, NoAdmissionIsNone DEF HandOver, BreakerInv, BreakerTypeOK
  <1>3. adm[c].ok /\ ~adm[d].ok
    BY DEF HandOver
  <1>4. BreakerTypeOK'
    BY <1>1, <1>2, <1>3, BreakerTypes, EpochIsNat DEF BreakerInv, BreakerTypeOK
  <1>5. \A e \in Callers : adm'[e].ok =>
            \E f \in Callers : /\ adm[f].ok /\ adm'[e] = adm[f]
                             /\ IF e = d THEN f = c ELSE f = e /\ f # c
    BY <1>2, <1>3
  <1>6. OneProbe'
    <2>1. ASSUME state = "half-open"
          PROVE  \E e \in Callers : Probing(e)'
      <3>1. PICK f \in Callers : Probing(f)
        BY <2>1 DEF BreakerInv, OneProbe
      <3>2. f # d
        BY <1>3, <3>1 DEF Probing
      <3>3. Probing(IF f = c THEN d ELSE f)'
        BY <1>2, <3>1, <3>2 DEF Probing
      <3> QED
        BY <3>3
    <2>2. ASSUME NEW e \in Callers, Probing(e)'
          PROVE  state = "half-open"
      BY <1>5, <2>2 DEF BreakerInv, OneProbe, Probing
    <2>3. ASSUME NEW e \in Callers, NEW f \in Callers, Probing(e)', Probing(f)'
          PROVE  e = f
      BY <1>5, <2>3 DEF BreakerInv, OneProbe, Probing
    <2> QED
      BY <1>1, <2>1, <2>2, <2>3 DEF OneProbe
  <1>7. InFlightIsStale' /\ ProbeIsCurrent' /\ AdmittedBelowBound' /\ ClosedMeansHealthy'
    BY <1>1, <1>5 DEF BreakerInv, InFlightIsStale, ProbeIsCurrent, AdmittedBelowBound,
                      ClosedMeansHealthy, Probing
  <1> QED
    BY <1>4, <1>6, <1>7 DEF BreakerInv

\* Every step of any caller preserves the invariant.
LEMMA BreakerStepInv == BreakerInv /\ [BreakerNext]_breakerVars => BreakerInv'
  <1> SUFFICES ASSUME BreakerInv, [BreakerNext]_breakerVars
               PROVE  BreakerInv'
    OBVIOUS
  <1>1. CASE Elapse
    BY <1>1, ElapseInv
  <1>2. ASSUME NEW c \in Callers, Allow(c)
        PROVE  BreakerInv'
    BY <1>2, AllowInv
  <1>5. ASSUME NEW c \in Callers, NEW d \in Callers, HandOver(c, d)
        PROVE  BreakerInv'
    BY <1>5, HandOverInv
  <1>3. ASSUME NEW c \in Callers, NEW r \in {"success", "failure", "abort"}, Record(c, r)
        PROVE  BreakerInv'
    BY <1>3, RecordProbeInv, RecordCallInv
  <1>4. CASE UNCHANGED breakerVars
    BY <1>4
    DEF breakerVars, BreakerInv, BreakerTypeOK, OneProbe, InFlightIsStale,
        ClosedMeansHealthy, ProbeIsCurrent, AdmittedBelowBound, Probing
  <1> QED
    BY <1>1, <1>2, <1>3, <1>4, <1>5 DEF BreakerNext

\* The invariant holds along every interleaving of the callers.
THEOREM BreakerInvariant == BreakerSpec => []BreakerInv
  BY BreakerInitInv, BreakerStepInv, PTL DEF BreakerSpec

\* The breaker is half-open exactly while one caller has the probe.
THEOREM NeverWedgedNorFlooded == BreakerSpec => []OneProbe
  BY BreakerInvariant, PTL DEF BreakerInv

\* One probe, answers that come late are stale, and a closed breaker has not
\* seen OpenAfter failures in a row (circuitBreaker.Allow, record).
THEOREM BreakerAlwaysSafe == BreakerSpec => []BreakerSafe
  BY BreakerInvariant, PTL DEF BreakerInv, BreakerSafe

\* Types: what waits for a probe is open, what is not admitted has no token.
THEOREM BreakerTypeCorrect == BreakerSpec => []BreakerTypeOK
  BY BreakerInvariant, PTL DEF BreakerInv

(***************************************************************************)
(* The engine                                                              *)
(***************************************************************************)

LoopPc == {"acquire", "gate", "list", "claim", "wait", "drain", "returned"}
LoopHolds == {"gate", "list", "claim"}
TaskState == [pc : {"free", "work", "terminate", "delay", "acquire", "gate", "wait"},
              job : Jobs \cup {"none"}, done : Nat]

\* Where the engine is.  The loop goes on only with a goroutine to hand its
\* admission to, and only the loop makes a goroutine busy.
EngineInv ==
    /\ row \in [Paths -> Row] /\ broken \subseteq Repos
    /\ loop \in LoopPc
    /\ task \in [Tasks -> TaskState]
    /\ AdmittedAtWork
    /\ loop \in LoopHolds => \E t \in Tasks : FreeTask(t)

Holders == {t \in Tasks : task[t].pc \in Holding}
LoopSlot == IF loop \in LoopHolds THEN 1 ELSE 0

SlotInv == slots = Cardinality(Holders) + LoopSlot /\ slots <= MaxIndexInflight

SchedulerInv == BreakerInv /\ EngineInv /\ SlotInv

\* What every step of the engine is to the breaker.
BreakerMay == [BreakerNext]_breakerVars

LEMMA FreeIsState == Free \in TaskState /\ Free.pc = "free"
  BY DEF Free, TaskState

LEMMA LoopIsCaller == Loop \in Callers /\ Tasks \subseteq Callers /\ Loop \notin Tasks
  BY SchedulerAssumption

\* The holders are counted by a number, and one more or less by the next.
LEMMA HoldersCount ==
    ASSUME EngineInv
    PROVE  IsFiniteSet(Holders) /\ Cardinality(Holders) \in Nat
  BY SchedulerAssumption, FS_Subset, FS_CardinalityType DEF Holders

LEMMA OneHolderMore ==
    ASSUME EngineInv, NEW t \in Tasks, t \notin Holders, Holders' = Holders \cup {t}
    PROVE  Cardinality(Holders)' = Cardinality(Holders) + 1
  BY HoldersCount, FS_AddElement

LEMMA OneHolderLess ==
    ASSUME EngineInv, NEW t \in Tasks, t \in Holders, Holders' = Holders \ {t}
    PROVE  Cardinality(Holders)' = Cardinality(Holders) - 1
  BY HoldersCount, FS_RemoveElement

\* A goroutine that moves on takes no place from the loop.
LEMMA OthersStayFree ==
    ASSUME EngineInv, NEW t \in Tasks, task[t] # Free, NEW v,
           task' = [task EXCEPT ![t] = v], loop' = loop
    PROVE  loop' \in LoopHolds => \E u \in Tasks : FreeTask(u)'
  BY DEF EngineInv, FreeTask

\* The engine starts idle.
LEMMA SchedulerInitInv == SchedulerInit => SchedulerInv
  <1> SUFFICES ASSUME SchedulerInit
               PROVE  SchedulerInv
    OBVIOUS
  <1>1. BreakerInv
    BY BreakerInitInv DEF SchedulerInit
  <1>2. EngineInv
    BY FreeIsState, LoopIsCaller, NoAdmissionIsNone
    DEF SchedulerInit, BreakerInit, EngineInv, AdmittedAtWork, Row, LoopPc, LoopHolds
  <1>3. Holders = {}
    BY FreeIsState DEF SchedulerInit, Holders, Holding
  <1>4. SlotInv
    BY <1>3, FS_EmptySet, SchedulerAssumption DEF SchedulerInit, SlotInv, LoopSlot, LoopHolds
  <1> QED
    BY <1>1, <1>2, <1>4 DEF SchedulerInv

\* The steps that concern neither the breaker, nor a goroutine, nor the loop.
LEMMA OutsideInv ==
    ASSUME SchedulerInv, (\E j \in Jobs : Submit(j)) \/ RepairCatalog \/ Cancel
    PROVE  EngineInv' /\ SlotInv' /\ BreakerMay
  <1>1. UNCHANGED <<breakerVars, loop, task, slots>>
    BY DEF Submit, RepairCatalog, Cancel, loopVars
  <1>2. row' \in [Paths -> Row] /\ broken' \subseteq Repos
    <2>1. row \in [Paths -> Row] /\ broken \subseteq Repos
      BY DEF SchedulerInv, EngineInv
    <2>2. ASSUME NEW j \in Jobs, Submit(j)
          PROVE  row' \in [Paths -> Row] /\ broken' = broken
      <3>1. [job |-> j, claimed |-> FALSE] \in Row
        BY DEF Row
      <3> QED
        BY <2>1, <2>2, <3>1 DEF Submit
    <2> QED
      BY <2>1, <2>2 DEF RepairCatalog, Cancel, queueVars
  <1> QED
    BY <1>1, <1>2
    DEF SchedulerInv, EngineInv, SlotInv, BreakerMay, breakerVars, AdmittedAtWork, FreeTask,
        Holders, LoopSlot

LEMMA ElapseStepInv ==
    ASSUME SchedulerInv, ElapseStep
    PROVE  EngineInv' /\ SlotInv' /\ BreakerMay
  <1>1. UNCHANGED <<adm, row, broken, loop, task, slots>>
    BY DEF ElapseStep, Elapse, queueVars, loopVars
  <1> QED
    BY <1>1
    DEF SchedulerInv, EngineInv, SlotInv, BreakerMay, BreakerNext, ElapseStep, AdmittedAtWork,
        FreeTask, Holders, LoopSlot

\* The loop's own steps between two dispatches.
LEMMA LoopMovesInv ==
    ASSUME SchedulerInv,
           LoopAcquire \/ LoopAllowed \/ LoopDenied \/ ListRepos \/ ListFails \/ NothingToClaim
             \/ ClaimNone \/ LoopWakes \/ LoopStops \/ RunReturns
    PROVE  EngineInv' /\ SlotInv' /\ BreakerMay
  <1>1. UNCHANGED <<row, broken, task>>
    BY DEF LoopAcquire, LoopAllowed, LoopDenied, ListRepos, ListFails, NothingToClaim, ClaimNone,
           LoopWakes, LoopStops, RunReturns, queueVars
  <1>2. Holders' = Holders /\ Cardinality(Holders) \in Nat
    BY <1>1, HoldersCount DEF Holders, SchedulerInv
  <1>3. adm \in [Callers -> Admission]
    BY DEF SchedulerInv, BreakerInv, BreakerTypeOK
  <1>4. CASE LoopAcquire
    <2>1. loop = "acquire" /\ loop' = "gate" /\ UNCHANGED breakerVars
          /\ (\E t \in Tasks : FreeTask(t)) /\ slots < MaxIndexInflight /\ slots' = slots + 1
      BY <1>4 DEF LoopAcquire, Acquire
    <2>2. EngineInv'
      BY <1>1, <2>1
      DEF SchedulerInv, EngineInv, AdmittedAtWork, FreeTask, LoopPc, LoopHolds, breakerVars
    <2>3. SlotInv'
      BY <1>2, <2>1, SchedulerAssumption DEF SchedulerInv, SlotInv, LoopSlot, LoopHolds
    <2> QED
      BY <2>1, <2>2, <2>3 DEF BreakerMay
  <1>5. CASE LoopAllowed
    <2>1. loop = "gate" /\ loop' = "list" /\ slots' = slots /\ Allow(Loop)
      BY <1>5 DEF LoopAllowed
    <2>2. \E probe \in BOOLEAN : Grant(Loop, probe)
      BY <2>1 DEF Allow
    <2>3. adm'[Loop].ok /\ \A t \in Tasks : adm'[t] = adm[t]
      BY <2>2, GrantIsOwn, LoopIsCaller DEF SchedulerInv, BreakerInv
    <2>4. EngineInv'
      BY <1>1, <2>1, <2>3
      DEF SchedulerInv, EngineInv, AdmittedAtWork, FreeTask, LoopPc, LoopHolds
    <2>5. SlotInv'
      BY <1>2, <2>1 DEF SchedulerInv, SlotInv, LoopSlot, LoopHolds
    <2>6. BreakerMay
      BY <2>1, LoopIsCaller DEF BreakerMay, BreakerNext
    <2> QED
      BY <2>4, <2>5, <2>6
  <1>6. CASE LoopDenied
    <2>1. loop = "gate" /\ loop' = "wait" /\ slots' = slots - 1 /\ UNCHANGED breakerVars
      BY <1>6 DEF LoopDenied, Release
    <2>2. EngineInv'
      BY <1>1, <2>1
      DEF SchedulerInv, EngineInv, AdmittedAtWork, FreeTask, LoopPc, LoopHolds, breakerVars
    <2>3. SlotInv'
      BY <1>2, <2>1, SchedulerAssumption DEF SchedulerInv, SlotInv, LoopSlot, LoopHolds
    <2> QED
      BY <2>1, <2>2, <2>3 DEF BreakerMay
  <1>7. CASE GiveUp /\ loop \in {"list", "claim"}
    <2>1. /\ loop' = "wait" /\ slots' = slots - 1 /\ Record(Loop, "abort")
      BY <1>7 DEF GiveUp, Release
    <2>2. ~adm'[Loop].ok /\ \A t \in Tasks : adm'[t] = adm[t]
      BY <1>3, <2>1, LoopIsCaller, NoAdmissionIsNone DEF Record
    <2>3. EngineInv'
      BY <1>1, <1>7, <2>1, <2>2
      DEF SchedulerInv, EngineInv, AdmittedAtWork, FreeTask, LoopPc, LoopHolds
    <2>4. SlotInv'
      BY <1>2, <1>7, <2>1, SchedulerAssumption DEF SchedulerInv, SlotInv, LoopSlot, LoopHolds
    <2>5. BreakerMay
      BY <2>1, LoopIsCaller DEF BreakerMay, BreakerNext
    <2> QED
      BY <2>3, <2>4, <2>5
  <1>8. CASE ListRepos \/ ClaimNone
    <2>1. /\ loop \in {"list", "claim"} /\ loop' = "claim"
          /\ UNCHANGED <<breakerVars, slots>>
      BY <1>8 DEF ListRepos, ClaimNone
    <2>2. EngineInv'
      BY <1>1, <2>1
      DEF SchedulerInv, EngineInv, AdmittedAtWork, FreeTask, LoopPc, LoopHolds, breakerVars
    <2>3. SlotInv'
      BY <1>2, <2>1 DEF SchedulerInv, SlotInv, LoopSlot, LoopHolds
    <2> QED
      BY <2>1, <2>2, <2>3 DEF BreakerMay
  <1>9. CASE LoopWakes \/ LoopStops \/ RunReturns
    <2>1. /\ loop \in {"acquire", "wait", "drain"} /\ loop' \in {"acquire", "drain", "returned"}
          /\ UNCHANGED <<breakerVars, slots>>
      BY <1>9 DEF LoopWakes, LoopStops, RunReturns
    <2>2. EngineInv'
      BY <1>1, <2>1
      DEF SchedulerInv, EngineInv, AdmittedAtWork, FreeTask, LoopPc, LoopHolds, breakerVars
    <2>3. SlotInv'
      BY <1>2, <2>1 DEF SchedulerInv, SlotInv, LoopSlot, LoopHolds
    <2> QED
      BY <2>1, <2>2, <2>3 DEF BreakerMay
  <1> QED
    BY <1>4, <1>5, <1>6, <1>7, <1>8, <1>9 DEF ListFails, NothingToClaim

\* A claim hands the loop's admission and slot to a goroutine that was free.
LEMMA ClaimInv ==
    ASSUME SchedulerInv, Claim
    PROVE  EngineInv' /\ SlotInv' /\ BreakerMay
  <1> DEFINE t == CHOOSE free \in Tasks : FreeTask(free)
  <1>1. loop = "claim" /\ loop' = "acquire" /\ slots' = slots /\ broken' = broken
        /\ HandOver(Loop, t)
    BY DEF Claim
  <1>2. t \in Tasks /\ task[t] = Free
    BY <1>1 DEF SchedulerInv, EngineInv, FreeTask, LoopHolds
  <1>3. PICK p \in Paths :
          /\ row[p] # NoRow /\ row' = [row EXCEPT ![p].claimed = TRUE]
          /\ task' = [task EXCEPT ![t] = [pc |-> "work", job |-> row[p].job, done |-> 1]]
    BY DEF Claim
  <1> HIDE DEF t
  <1>4. row \in [Paths -> Row] /\ row[p] \in [job : Jobs, claimed : BOOLEAN]
    BY <1>3 DEF SchedulerInv, EngineInv, Row
  <1>5. row' \in [Paths -> Row]
    BY <1>3, <1>4 DEF Row
  <1>6. task' \in [Tasks -> TaskState] /\ task'[t].pc = "work"
        /\ \A u \in Tasks : u # t => task'[u] = task[u]
    BY <1>2, <1>3, <1>4 DEF SchedulerInv, EngineInv, TaskState
  <1>7. /\ adm'[t] = adm[Loop] /\ adm[Loop].ok /\ ~adm'[Loop].ok
        /\ \A u \in Tasks : u # t => adm'[u] = adm[u]
    BY <1>1, <1>2, LoopIsCaller, NoAdmissionIsNone
    DEF HandOver, SchedulerInv, BreakerInv, BreakerTypeOK
  <1>8. EngineInv'
    BY <1>1, <1>2, <1>5, <1>6, <1>7
    DEF SchedulerInv, EngineInv, AdmittedAtWork, LoopPc, LoopHolds
  <1>9. SlotInv'
    <2>1. t \notin Holders /\ Holders' = Holders \cup {t}
      BY <1>2, <1>6, FreeIsState DEF Holders, Holding
    <2>2. Cardinality(Holders)' = Cardinality(Holders) + 1 /\ Cardinality(Holders) \in Nat
      BY <1>2, <2>1, OneHolderMore, HoldersCount DEF SchedulerInv
    <2> QED
      BY <1>1, <2>2 DEF SchedulerInv, SlotInv, LoopSlot, LoopHolds
  <1>10. BreakerMay
    BY <1>1, <1>2, LoopIsCaller DEF BreakerMay, BreakerNext
  <1> QED
    BY <1>8, <1>9, <1>10

\* What holds when one busy goroutine moves on, with its slot and admission.
LEMMA OneTaskInv ==
    ASSUME SchedulerInv, NEW t \in Tasks, task[t] # Free, NEW s \in TaskState,
           task' = [task EXCEPT ![t] = s], loop' = loop, broken' = broken,
           row' \in [Paths -> Row],
           adm'[t].ok <=> s.pc = "work",
           \A c \in Callers : c # t => adm'[c] = adm[c],
           slots' <= MaxIndexInflight,
           slots' = slots + (IF s.pc \in Holding THEN 1 ELSE 0)
                          - (IF task[t].pc \in Holding THEN 1 ELSE 0)
    PROVE  EngineInv' /\ SlotInv'
  <1>1. task' \in [Tasks -> TaskState] /\ task'[t] = s
        /\ \A u \in Tasks : u # t => task'[u] = task[u]
    BY DEF SchedulerInv, EngineInv
  <1>2. AdmittedAtWork'
    BY <1>1, LoopIsCaller DEF SchedulerInv, EngineInv, AdmittedAtWork
  <1>3. EngineInv'
    <2>1. loop' \in LoopHolds => \E u \in Tasks : FreeTask(u)'
      BY OthersStayFree DEF SchedulerInv
    <2> QED
      BY <1>1, <1>2, <2>1 DEF SchedulerInv, EngineInv
  <1>4. Cardinality(Holders)' = Cardinality(Holders) + (IF s.pc \in Holding THEN 1 ELSE 0)
                                - (IF task[t].pc \in Holding THEN 1 ELSE 0)
        /\ Cardinality(Holders) \in Nat
    <2>1. Cardinality(Holders) \in Nat /\ EngineInv
      BY HoldersCount DEF SchedulerInv
    <2>2. CASE s.pc \in Holding /\ task[t].pc \notin Holding
      <3>1. t \notin Holders /\ Holders' = Holders \cup {t}
        BY <1>1, <2>2 DEF Holders
      <3>2. Cardinality(Holders)' = Cardinality(Holders) + 1
        BY <2>1, <3>1, OneHolderMore
      <3> QED
        BY <2>1, <2>2, <3>2
    <2>3. CASE s.pc \notin Holding /\ task[t].pc \in Holding
      <3>1. t \in Holders /\ Holders' = Holders \ {t}
        BY <1>1, <2>3 DEF Holders
      <3>2. Cardinality(Holders)' = Cardinality(Holders) - 1
        BY <2>1, <3>1, OneHolderLess
      <3> QED
        BY <2>1, <2>3, <3>2
    <2>4. CASE s.pc \in Holding <=> task[t].pc \in Holding
      <3>1. Holders' = Holders
        BY <1>1, <2>4 DEF Holders
      <3> QED
        BY <2>1, <2>4, <3>1
    <2> QED
      BY <2>2, <2>3, <2>4
  <1>5. SlotInv'
    BY <1>4, SchedulerAssumption DEF SchedulerInv, SlotInv, LoopSlot
  <1> QED
    BY <1>3, <1>5

\* Taking a job out of the queue leaves a queue.
LEMMA RemovedIsQueue ==
    ASSUME SchedulerInv, NEW j
    PROVE  Removed(j) \in [Paths -> Row]
  BY DEF SchedulerInv, EngineInv, Removed, Row

\* A call that is answered gives back its slot and resolves its admission.
LEMMA FinishInv ==
    ASSUME SchedulerInv, NEW t \in Tasks,
           NEW outcome, NEW endpoint \in {"success", "failure", "abort"}, Finish(t, outcome, endpoint)
    PROVE  EngineInv' /\ SlotInv' /\ BreakerMay
  <1>1. /\ task[t].pc = "work" /\ Record(t, endpoint) /\ slots' = slots - 1
        /\ loop' = loop /\ broken' = broken
    BY DEF Finish, At, Release, loopVars
  <1>2. task[t] \in TaskState /\ task[t] # Free
    BY <1>1, FreeIsState DEF SchedulerInv, EngineInv
  <1>3. \E s \in TaskState : /\ task' = [task EXCEPT ![t] = s]
                            /\ s.pc \in {"free", "delay", "terminate"}
    BY <1>2, FreeIsState DEF Finish, Terminate, Ends, Delays, TaskState
  <1>4. row' \in [Paths -> Row]
    <2>1. row' = Removed(task[t].job) \/ row' = row
      BY DEF Finish, Terminate
    <2> QED
      BY <2>1, RemovedIsQueue DEF SchedulerInv, EngineInv
  <1>5. ~adm'[t].ok /\ \A c \in Callers : c # t => adm'[c] = adm[c]
    BY <1>1, LoopIsCaller, NoAdmissionIsNone DEF Record, SchedulerInv, BreakerInv, BreakerTypeOK
  <1>6. slots \in Int /\ slots <= MaxIndexInflight
    BY HoldersCount DEF SchedulerInv, SlotInv, LoopSlot
  <1>7. EngineInv' /\ SlotInv'
    <2>1. PICK s \in TaskState : /\ task' = [task EXCEPT ![t] = s]
                               /\ s.pc \in {"free", "delay", "terminate"}
      BY <1>3
    <2>2. slots' <= MaxIndexInflight /\ slots' = slots + 0 - 1
      BY <1>1, <1>6, SchedulerAssumption
    <2>3. s.pc \notin Holding /\ s.pc # "work" /\ task[t].pc \in Holding
      BY <1>1, <2>1 DEF Holding
    <2> QED
      BY <1>1, <1>2, <1>4, <1>5, <2>1, <2>2, <2>3, OneTaskInv
  <1>8. BreakerMay
    BY <1>1, LoopIsCaller DEF BreakerMay, BreakerNext
  <1> QED
    BY <1>7, <1>8

\* The steps of a goroutine that waits, for a delay, a slot or the breaker.
LEMMA TaskMovesInv ==
    ASSUME SchedulerInv, NEW t \in Tasks,
           TaskTerminates(t) \/ TaskDelayed(t) \/ TaskAcquires(t) \/ TaskDenied(t)
             \/ TaskWakes(t) \/ TaskStops(t)
    PROVE  EngineInv' /\ SlotInv' /\ BreakerMay
  <1>1. UNCHANGED <<breakerVars, loop, broken>>
    BY DEF TaskTerminates, TaskDelayed, TaskAcquires, TaskDenied, TaskWakes, TaskStops,
           queueVars, loopVars
  <1>2. UNCHANGED adm /\ BreakerMay
    BY <1>1 DEF breakerVars, BreakerMay
  <1>3. task[t].pc \in {"terminate", "delay", "acquire", "gate", "wait"} /\ task[t] # Free
    BY FreeIsState
    DEF TaskTerminates, TaskDelayed, TaskAcquires, TaskDenied, TaskWakes, TaskStops, At
  <1>4. ~adm'[t].ok
    BY <1>2, <1>3 DEF SchedulerInv, EngineInv, AdmittedAtWork
  <1>5. row' \in [Paths -> Row]
    <2>1. row' = Removed(task[t].job) \/ row' = row
      BY DEF TaskTerminates, TaskDelayed, TaskAcquires, TaskDenied, TaskWakes, TaskStops,
         queueVars
    <2> QED
      BY <2>1, RemovedIsQueue DEF SchedulerInv, EngineInv
  <1>6. slots \in Int /\ slots <= MaxIndexInflight
    BY HoldersCount DEF SchedulerInv, SlotInv, LoopSlot
  <1>7. task[t] \in TaskState /\ \A pc \in {"acquire", "gate", "wait"} :
            [task[t] EXCEPT !.pc = pc] \in TaskState /\ [task[t] EXCEPT !.pc = pc].pc = pc
    BY DEF SchedulerInv, EngineInv, TaskState
  <1>8. ASSUME NEW s \in TaskState, task' = [task EXCEPT ![t] = s], s.pc # "work",
               slots' <= MaxIndexInflight,
               slots' = slots + (IF s.pc \in Holding THEN 1 ELSE 0)
                              - (IF task[t].pc \in Holding THEN 1 ELSE 0)
        PROVE  EngineInv' /\ SlotInv'
    BY <1>1, <1>2, <1>3, <1>4, <1>5, <1>8, OneTaskInv
  <1>9. CASE TaskTerminates(t) \/ TaskStops(t)
    <2>1. task' = [task EXCEPT ![t] = Free] /\ slots' = slots
          /\ task[t].pc \in {"terminate", "delay", "acquire", "wait"}
      BY <1>9 DEF TaskTerminates, TaskStops, Ends, At
    <2>2. Free.pc \notin Holding /\ task[t].pc \notin Holding
      BY <2>1, FreeIsState DEF Holding
    <2>3. slots' <= MaxIndexInflight /\ slots' = slots + 0 - 0
      BY <1>6, <2>1
    <2> QED
      BY <1>2, <1>8, <2>1, <2>2, <2>3, FreeIsState
  <1> DEFINE to(pc) == [task[t] EXCEPT !.pc = pc]
  <1>10. CASE TaskDelayed(t) \/ TaskWakes(t)
    <2>1. task' = [task EXCEPT ![t] = to("acquire")] /\ slots' = slots
          /\ task[t].pc \in {"delay", "wait"}
      BY <1>10, <1>7 DEF TaskDelayed, TaskWakes, GoOn, At
    <2>2. to("acquire") \in TaskState /\ to("acquire").pc = "acquire"
      BY <1>7
    <2>3. "acquire" \notin Holding /\ task[t].pc \notin Holding
      BY <2>1 DEF Holding
    <2>4. slots' <= MaxIndexInflight /\ slots' = slots + 0 - 0
      BY <1>6, <2>1
    <2> HIDE DEF to
    <2> QED
      BY <1>2, <1>8, <2>1, <2>2, <2>3, <2>4
  <1>11. CASE TaskAcquires(t)
    <2>1. task' = [task EXCEPT ![t] = to("gate")] /\ slots' = slots + 1
          /\ task[t].pc = "acquire" /\ slots < MaxIndexInflight
      BY <1>11, <1>7 DEF TaskAcquires, GoOn, At, Acquire
    <2>2. to("gate") \in TaskState /\ to("gate").pc = "gate"
      BY <1>7
    <2>3. "gate" \in Holding /\ task[t].pc \notin Holding
      BY <2>1 DEF Holding
    <2>4. slots' <= MaxIndexInflight /\ slots' = slots + 1 - 0
      BY <1>6, <2>1, SchedulerAssumption
    <2> HIDE DEF to
    <2> QED
      BY <1>2, <1>8, <2>1, <2>2, <2>3, <2>4
  <1>12. CASE TaskDenied(t)
    <2>1. task' = [task EXCEPT ![t] = to("wait")] /\ slots' = slots - 1
          /\ task[t].pc = "gate"
      BY <1>12, <1>7 DEF TaskDenied, GoOn, At, Release
    <2>2. to("wait") \in TaskState /\ to("wait").pc = "wait"
      BY <1>7
    <2>3. "wait" \notin Holding /\ task[t].pc \in Holding
      BY <2>1 DEF Holding
    <2>4. slots' <= MaxIndexInflight /\ slots' = slots + 0 - 1
      BY <1>6, <2>1, SchedulerAssumption
    <2> HIDE DEF to
    <2> QED
      BY <1>2, <1>8, <2>1, <2>2, <2>3, <2>4
  <1> QED
    BY <1>2, <1>9, <1>10, <1>11, <1>12

\* A retry that the breaker lets in goes to work in the slot it has.
LEMMA TaskAllowedInv ==
    ASSUME SchedulerInv, NEW t \in Tasks, TaskAllowed(t)
    PROVE  EngineInv' /\ SlotInv' /\ BreakerMay
  <1>1. /\ task[t].pc = "gate" /\ Allow(t) /\ slots' = slots /\ loop' = loop
        /\ row' = row /\ broken' = broken
        /\ task' = [task EXCEPT ![t].pc = "work", ![t].done = 2]
    BY DEF TaskAllowed, At, queueVars, loopVars
  <1>2. task[t] # Free /\ task[t] \in TaskState
    BY <1>1, FreeIsState DEF SchedulerInv, EngineInv
  <1>3. PICK s \in TaskState : task' = [task EXCEPT ![t] = s] /\ s.pc = "work"
    <2> DEFINE at == [task[t] EXCEPT !.pc = "work"]
               s == [at EXCEPT !.done = 2]
    <2>1. at \in TaskState /\ at.pc = "work"
      BY <1>2 DEF TaskState
    <2>2. s \in TaskState /\ s.pc = "work"
      BY <2>1 DEF TaskState
    <2>3. task' = [task EXCEPT ![t] = s]
      BY <1>1, <1>2 DEF SchedulerInv, EngineInv
    <2> HIDE DEF s
    <2> QED
      BY <2>2, <2>3
  <1>4. adm'[t].ok /\ \A c \in Callers : c # t => adm'[c] = adm[c]
    <2>1. \E probe \in BOOLEAN : Grant(t, probe)
      BY <1>1 DEF Allow
    <2> QED
      BY <2>1, GrantIsOwn, LoopIsCaller DEF SchedulerInv, BreakerInv
  <1>5. slots \in Int /\ slots <= MaxIndexInflight
    BY HoldersCount DEF SchedulerInv, SlotInv, LoopSlot
  <1>6. EngineInv' /\ SlotInv'
    <2>1. row' \in [Paths -> Row] /\ slots' = slots + 1 - 1 /\ slots' <= MaxIndexInflight
      BY <1>1, <1>5 DEF SchedulerInv, EngineInv
    <2>2. s.pc \in Holding /\ task[t].pc \in Holding
      BY <1>1, <1>3 DEF Holding
    <2> QED
      BY <1>1, <1>2, <1>3, <1>4, <2>1, <2>2, OneTaskInv
  <1>7. BreakerMay
    BY <1>1, LoopIsCaller DEF BreakerMay, BreakerNext
  <1> QED
    BY <1>6, <1>7

\* Every step of the engine keeps the invariant and is a step of its breaker.
LEMMA SchedulerStepInv == SchedulerInv /\ [SchedulerNext]_vars => SchedulerInv' /\ BreakerMay
  <1> SUFFICES ASSUME SchedulerInv, [SchedulerNext]_vars
               PROVE  SchedulerInv' /\ BreakerMay
    OBVIOUS
  <1>1. EngineInv' /\ SlotInv' /\ BreakerMay
    <2>1. CASE (\E j \in Jobs : Submit(j)) \/ RepairCatalog \/ Cancel
      BY <2>1, OutsideInv
    <2>2. CASE ElapseStep
      BY <2>2, ElapseStepInv
    <2>3. CASE LoopStep
      BY <2>3, LoopMovesInv, ClaimInv DEF LoopStep
    <2>4. ASSUME NEW t \in Tasks, TaskStep(t)
          PROVE  EngineInv' /\ SlotInv' /\ BreakerMay
      <3>1. CASE Finishes(t)
        BY <3>1, FinishInv DEF Finishes
      <3>2. CASE TaskAllowed(t)
        BY <3>2, TaskAllowedInv
      <3> QED
        BY <2>4, <3>1, <3>2, TaskMovesInv DEF TaskStep
    <2>5. CASE UNCHANGED vars
      BY <2>5
      DEF vars, breakerVars, queueVars, loopVars, SchedulerInv, EngineInv, SlotInv, BreakerMay,
          AdmittedAtWork, FreeTask, Holders, LoopSlot
    <2> QED
      BY <2>1, <2>2, <2>3, <2>4, <2>5 DEF SchedulerNext
  <1>2. BreakerInv'
    BY <1>1, BreakerStepInv DEF SchedulerInv, BreakerMay
  <1> QED
    BY <1>1, <1>2 DEF SchedulerInv

\* The invariant holds along every interleaving of the loop and its goroutines.
THEOREM SchedulerInvariant == SchedulerSpec => []SchedulerInv
  <1>1. SchedulerInv /\ [SchedulerNext]_vars => SchedulerInv'
    BY SchedulerStepInv
  <1> QED
    BY <1>1, SchedulerInitInv, PTL DEF SchedulerSpec

\* The engine's loop and goroutines use the breaker as the breaker's own
\* specification says: every admission is resolved once, by whom it was given to.
THEOREM EngineKeepsToBreaker == SchedulerSpec => BreakerSpec
  <1>1. SchedulerInit => BreakerInit
    BY DEF SchedulerInit
  <1>2. SchedulerInv /\ [SchedulerNext]_vars => [BreakerNext]_breakerVars
    BY SchedulerStepInv DEF BreakerMay
  <1> QED
    BY <1>1, <1>2, SchedulerInvariant, PTL DEF SchedulerSpec, BreakerSpec

\* So in the engine, too, an open breaker lets exactly one probe through and no
\* late answer opens or closes it.
THEOREM EngineBreakerSafe == SchedulerSpec => []BreakerSafe
  BY EngineKeepsToBreaker, BreakerAlwaysSafe, PTL

\* Whoever calls the endpoint has the admission to resolve (dispatch, account).
THEOREM WorkIsAdmitted == SchedulerSpec => []AdmittedAtWork
  BY SchedulerInvariant, PTL DEF SchedulerInv, EngineInv

\* Both: the admissions that the breaker counts on are those of the calls under way.
THEOREM BreakerAlwaysKept == SchedulerSpec => []BreakerIsKept
  BY EngineBreakerSafe, WorkIsAdmitted, PTL DEF BreakerIsKept

\* Slots count the work under way and never exceed the limit.
THEOREM SchedulerTypeCorrect == SchedulerSpec => []SchedulerTypeOK
  <1>1. SchedulerInv => SchedulerTypeOK
    BY DEF SchedulerInv, EngineInv, SlotInv, BreakerInv, SchedulerTypeOK, LoopPc, Holders,
       LoopSlot,
           LoopHolds
  <1> QED
    BY <1>1, SchedulerInvariant, PTL

(***************************************************************************)
(* The wait group                                                          *)
(***************************************************************************)

\* One token for each wg.Done that a goroutine owes.
Tokens == {x \in Tasks \X {1, 2} : x[2] <= task[x[1]].done}

\* A retry that is dispatched owes two, whoever else is busy owes one.
Owes == \A t \in Tasks : /\ task[t].pc = "free" => task[t] = Free
                         /\ task[t].pc = "work" => task[t].done \in {1, 2}
                         /\ task[t].pc \notin {"free", "work"} => task[t].done = 1

AllFree == \A t \in Tasks : task[t] = Free

CountInv ==
    /\ Owes
    /\ wg = Cardinality(Tokens)
    /\ loop = "returned" => AllFree

LEMMA OneAndTwo == IsFiniteSet({1, 2})
  <1>1. IsFiniteSet({1})
    BY FS_Singleton
  <1>2. IsFiniteSet({1} \cup {2})
    BY <1>1, FS_AddElement
  <1>3. {1, 2} = {1} \cup {2}
    OBVIOUS
  <1> QED
    BY <1>2, <1>3

\* A goroutine owes no wg.Done, one, or two.
LEMMA OwesFew ==
    ASSUME EngineInv, Owes, NEW t \in Tasks
    PROVE  task[t].done \in {0, 1, 2} /\ (task[t].done = 0 <=> task[t] = Free)
  BY FreeIsState DEF EngineInv, Owes, TaskState, Free

\* When one goroutine owes d instead, so many tokens come or go.
LEMMA TokensOfOne ==
    ASSUME EngineInv, Owes, NEW t \in Tasks, NEW s \in TaskState, s.done \in {0, 1, 2},
           task' = [task EXCEPT ![t] = s]
    PROVE  /\ Cardinality(Tokens) \in Nat
           /\ Cardinality(Tokens)' = Cardinality(Tokens) - task[t].done + s.done
  <1> DEFINE Others == {x \in (Tasks \ {t}) \X {1, 2} : x[2] <= task[x[1]].done}
             Own(d) == {t} \X {i \in {1, 2} : i <= d}
  <1>1. IsFiniteSet(Others) /\ Cardinality(Others) \in Nat
    <2>1. IsFiniteSet(Tasks \ {t}) /\ IsFiniteSet({1, 2})
      BY OneAndTwo, SchedulerAssumption, FS_Subset
    <2>2. IsFiniteSet((Tasks \ {t}) \X {1, 2})
      BY <2>1, FS_Product
    <2> QED
      BY <2>2, FS_Subset, FS_CardinalityType
  <1>2. ASSUME NEW d \in {0, 1, 2}
        PROVE  IsFiniteSet(Own(d)) /\ Cardinality(Own(d)) = d
    <2>1. CASE d = 0
      <3>1. Own(d) = {}
        BY <2>1
      <3> QED
        BY <2>1, <3>1, FS_EmptySet
    <2>2. CASE d = 1
      <3>1. Own(d) = {<<t, 1>>}
        BY <2>2
      <3> QED
        BY <2>2, <3>1, FS_Singleton
    <2>3. CASE d = 2
      <3>1. Own(d) = {<<t, 1>>} \cup {<<t, 2>>} /\ <<t, 2>> \notin {<<t, 1>>}
        BY <2>3
      <3>2. IsFiniteSet({<<t, 1>>}) /\ Cardinality({<<t, 1>>}) = 1
        BY FS_Singleton
      <3>3. IsFiniteSet({<<t, 1>>} \cup {<<t, 2>>})
            /\ Cardinality({<<t, 1>>} \cup {<<t, 2>>}) = 1 + 1
        BY <3>1, <3>2, FS_AddElement
      <3> QED
        BY <2>3, <3>1, <3>3
    <2> QED
      BY <2>1, <2>2, <2>3
  <1>3. ASSUME NEW d \in {0, 1, 2}
        PROVE  Cardinality(Others \cup Own(d)) = Cardinality(Others) + d
    <2>1. Others \cap Own(d) = {}
      OBVIOUS
    <2>2. IsFiniteSet(Own(d)) /\ Cardinality(Own(d)) = d
      BY <1>2
    <2> HIDE DEF Others, Own
    <2>3. Cardinality(Others \cup Own(d)) = Cardinality(Others) + d - Cardinality({})
      BY <1>1, <2>1, <2>2, FS_Union
    <2> QED
      BY <1>1, <2>3, FS_EmptySet
  <1>4. task[t].done \in {0, 1, 2}
    BY OwesFew
  <1>5. /\ task'[t] = s
        /\ \A u \in Tasks : u # t => task'[u] = task[u]
    BY DEF EngineInv
  <1>6. Tokens = Others \cup Own(task[t].done)
    <2>1. ASSUME NEW x \in Tasks \X {1, 2}
          PROVE  x \in Tokens <=> x \in Others \cup Own(task[t].done)
      <3>1. PICK u \in Tasks, i \in {1, 2} : x = <<u, i>>
        OBVIOUS
      <3> QED
        BY <3>1 DEF Tokens
    <2>2. Tokens \subseteq Tasks \X {1, 2} /\ Others \cup Own(task[t].done) \subseteq Tasks \X {1, 2}
      BY DEF Tokens
    <2> HIDE DEF Others, Own
    <2> QED
      BY <2>1, <2>2
  <1>7. Tokens' = Others \cup Own(s.done)
    <2>1. ASSUME NEW x \in Tasks \X {1, 2}
          PROVE  x \in Tokens' <=> x \in Others \cup Own(s.done)
      <3>1. PICK u \in Tasks, i \in {1, 2} : x = <<u, i>>
        OBVIOUS
      <3> QED
        BY <1>5, <3>1 DEF Tokens
    <2>2. Tokens' \subseteq Tasks \X {1, 2} /\ Others \cup Own(s.done) \subseteq Tasks \X {1, 2}
      BY DEF Tokens
    <2> HIDE DEF Others, Own
    <2> QED
      BY <2>1, <2>2
  <1> HIDE DEF Others, Own
  <1>8. Cardinality(Tokens) = Cardinality(Others) + task[t].done
    BY <1>3, <1>4, <1>6
  <1>9. Cardinality(Tokens') = Cardinality(Others) + s.done
    BY <1>3, <1>7
  <1> QED
    BY <1>1, <1>4, <1>8, <1>9

\* The tokens are counted by a number.
LEMMA TokenCount == IsFiniteSet(Tokens) /\ Cardinality(Tokens) \in Nat
  <1>1. IsFiniteSet(Tasks \X {1, 2})
    BY OneAndTwo, SchedulerAssumption, FS_Product
  <1> QED
    BY <1>1, FS_Subset, FS_CardinalityType DEF Tokens

\* Nobody owes anything when no token is left.
LEMMA NoTokens ==
    ASSUME EngineInv, Owes, Cardinality(Tokens) = 0
    PROVE  AllFree
  <1> SUFFICES ASSUME NEW t \in Tasks, task[t] # Free
               PROVE  FALSE
    BY DEF AllFree
  <1>1. <<t, 1>> \in Tokens
    BY OwesFew DEF Tokens
  <1> QED
    BY <1>1, TokenCount, FS_EmptySet

\* What one goroutine does to its debt, it does to the wait group.
LEMMA OneTaskCounts ==
    ASSUME SchedulerInv, CountInv, NEW t \in Tasks, task[t] # Free \/ loop # "returned",
           NEW s \in TaskState, task' = [task EXCEPT ![t] = s], loop' = "returned" => loop = "returned",
           \/ s = Free
           \/ s.pc = "work" /\ s.done \in {1, 2}
           \/ s.pc \notin {"free", "work"} /\ s.done = 1,
           wg' = wg - task[t].done + s.done
    PROVE  CountInv'
  <1>1. EngineInv /\ Owes /\ task[t].done \in {0, 1, 2}
    BY OwesFew DEF SchedulerInv, CountInv
  <1>2. s.done \in {0, 1, 2}
    BY DEF Free
  <1>3. wg' = Cardinality(Tokens)'
    BY <1>1, <1>2, TokensOfOne DEF CountInv
  <1>4. Owes'
    BY <1>1, FreeIsState DEF Owes, EngineInv
  <1>5. loop' = "returned" => AllFree'
    BY DEF CountInv, AllFree
  <1> QED
    BY <1>3, <1>4, <1>5 DEF CountInv

\* The steps in which no goroutine moves.
LEMMA OutsideCounts ==
    ASSUME SchedulerInv, CountInv, UNCHANGED <<task, wg>>,
           loop' = "returned" => loop = "returned" \/ RunReturns
    PROVE  CountInv'
  <1>1. Owes' /\ wg' = Cardinality(Tokens)'
    BY DEF CountInv, Owes, Tokens
  <1>2. ASSUME RunReturns
        PROVE  AllFree
    BY <1>2, NoTokens DEF RunReturns, CountInv, SchedulerInv
  <1> QED
    BY <1>1, <1>2 DEF CountInv, AllFree

\* A goroutine comes with its wg.Add, and what it adds it takes off.
LEMMA CountStep ==
    ASSUME SchedulerInv, CountInv, [SchedulerNext]_vars
    PROVE  CountInv'
  <1> USE DEF SchedulerInv
  <1>1. CASE UNCHANGED <<task, wg>> /\ (loop' = "returned" => loop = "returned" \/ RunReturns)
    BY <1>1, OutsideCounts
  <1>2. CASE Claim
    <2> DEFINE t == CHOOSE free \in Tasks : FreeTask(free)
    <2>1. loop = "claim" /\ loop' = "acquire" /\ wg' = wg + 1
      BY <1>2 DEF Claim
    <2>2. t \in Tasks /\ task[t] = Free
      BY <2>1 DEF EngineInv, FreeTask, LoopHolds
    <2>3. PICK p \in Paths :
            /\ row[p] # NoRow
            /\ task' = [task EXCEPT ![t] = [pc |-> "work", job |-> row[p].job, done |-> 1]]
      BY <1>2 DEF Claim
    <2> DEFINE s == [pc |-> "work", job |-> row[p].job, done |-> 1]
    <2>4. s \in TaskState /\ s.pc = "work" /\ s.done = 1
      BY <2>3 DEF EngineInv, Row, TaskState
    <2>5. wg' = wg - task[t].done + s.done
      <3>1. task[t].done = 0 /\ wg \in Nat
        <4>1. Cardinality(Tokens) \in Nat
          BY <2>2, TokenCount
        <4> QED
          BY <2>2, <4>1 DEF Free, CountInv
      <3> QED
        BY <2>1, <2>4, <3>1
    <2> HIDE DEF s, t
    <2> QED
      BY <2>1, <2>2, <2>3, <2>4, <2>5, OneTaskCounts DEF s
  <1>3. ASSUME NEW t \in Tasks, TaskStep(t)
        PROVE  CountInv'
    <2>1. /\ task[t] # Free /\ loop' = loop /\ task[t] \in TaskState
          /\ task[t].done \in {1, 2} /\ (task[t].pc # "work" => task[t].done = 1)
      <3>1. task[t].pc # "free" /\ loop' = loop
        BY <1>3 DEF TaskStep, Finishes, Finish, TaskTerminates, TaskDelayed, TaskAcquires,
           TaskAllowed, TaskDenied,
           TaskWakes, TaskStops, At, loopVars
      <3> QED
        BY <3>1, FreeIsState DEF EngineInv, CountInv, Owes
    <2>2. wg \in Nat
      BY TokenCount DEF CountInv
    <2>3. ASSUME task' = [task EXCEPT ![t] = Free], wg' = wg - task[t].done
          PROVE  CountInv'
      <3>1. Free \in TaskState /\ wg' = wg - task[t].done + Free.done
        BY <2>1, <2>2, <2>3, FreeIsState DEF Free
      <3> QED
        BY <2>1, <2>3, <3>1, OneTaskCounts
    <2>4. ASSUME NEW pc \in {"terminate", "delay"}, Delays(t, pc)
          PROVE  CountInv'
      <3> DEFINE s == [pc |-> pc, job |-> task[t].job, done |-> 1]
      <3>1. s \in TaskState /\ s.pc = pc /\ s.done = 1
        BY <2>1, <2>4 DEF TaskState
      <3>2. task' = [task EXCEPT ![t] = s] /\ wg' = wg - task[t].done + s.done
        BY <2>1, <2>2, <2>4 DEF Delays
      <3> HIDE DEF s
      <3> QED
        BY <2>1, <2>4, <3>1, <3>2, OneTaskCounts
    <2>5. ASSUME NEW pc \in {"acquire", "gate", "wait"}, GoOn(t, pc), wg' = wg, task[t].pc # "work"
          PROVE  CountInv'
      <3> DEFINE s == [task[t] EXCEPT !.pc = pc]
      <3>1. s \in TaskState /\ s.pc = pc /\ s.done = 1
        BY <2>1, <2>5 DEF TaskState
      <3>2. task' = [task EXCEPT ![t] = s] /\ wg' = wg - task[t].done + s.done
        BY <2>1, <2>2, <2>5 DEF GoOn, EngineInv
      <3> HIDE DEF s
      <3> QED
        BY <2>1, <2>5, <3>1, <3>2, OneTaskCounts
    <2>6. CASE TaskAllowed(t)
      <3> DEFINE at == [task[t] EXCEPT !.pc = "work"]
                 s == [at EXCEPT !.done = 2]
      <3>1. at \in TaskState /\ at.pc = "work"
        BY <2>1 DEF TaskState
      <3>2. s \in TaskState /\ s.pc = "work" /\ s.done = 2
        BY <3>1 DEF TaskState
      <3>3. task' = [task EXCEPT ![t] = s]
        BY <2>6 DEF TaskAllowed, EngineInv
      <3>4. wg' = wg - task[t].done + s.done
        BY <2>1, <2>2, <2>6, <3>2 DEF TaskAllowed, At
      <3> HIDE DEF s
      <3> QED
        BY <2>1, <3>2, <3>3, <3>4, OneTaskCounts
    <2>7. CASE Finishes(t)
      BY <2>3, <2>4, <2>7 DEF Finishes, Finish, Terminate, Ends
    <2>8. CASE TaskTerminates(t) \/ TaskStops(t)
      BY <2>3, <2>8 DEF TaskTerminates, TaskStops, Ends
    <2>9. CASE TaskDelayed(t) \/ TaskAcquires(t) \/ TaskDenied(t) \/ TaskWakes(t)
      BY <2>5, <2>9 DEF TaskDelayed, TaskAcquires, TaskDenied, TaskWakes, At
    <2> QED
      BY <1>3, <2>6, <2>7, <2>8, <2>9 DEF TaskStep
  <1>4. CASE LoopStep /\ ~Claim
    <2>1. UNCHANGED <<task, wg>> /\ (loop' = "returned" => RunReturns)
      BY <1>4 DEF LoopStep, LoopAcquire, LoopAllowed, LoopDenied, ListRepos, ListFails,
         NothingToClaim, ClaimNone,
         LoopWakes, LoopStops, RunReturns, GiveUp
    <2> QED
      BY <1>1, <2>1
  <1>5. CASE (\E j \in Jobs : Submit(j)) \/ RepairCatalog \/ Cancel \/ ElapseStep \/ UNCHANGED vars
    <2>1. UNCHANGED <<task, wg, loop>>
      BY <1>5 DEF Submit, RepairCatalog, Cancel, ElapseStep, vars, loopVars
    <2> QED
      BY <1>1, <2>1
  <1> QED
    BY <1>2, <1>3, <1>4, <1>5 DEF SchedulerNext

\* Nobody owes at the start.
LEMMA CountInit == SchedulerInit => CountInv
  <1> SUFFICES ASSUME SchedulerInit
               PROVE  CountInv
    OBVIOUS
  <1>1. Tokens = {}
    <2>1. ASSUME NEW u \in Tasks, NEW i \in {1, 2}
          PROVE  <<u, i>> \notin Tokens
      BY DEF SchedulerInit, Tokens, Free
    <2> QED
      BY <2>1 DEF Tokens
  <1>2. Owes
    BY FreeIsState DEF SchedulerInit, Owes
  <1> QED
    BY <1>1, <1>2, FS_EmptySet DEF SchedulerInit, CountInv

LEMMA CountInvariant == SchedulerSpec => []CountInv
  <1>1. SchedulerInv /\ CountInv /\ [SchedulerNext]_vars => CountInv'
    BY CountStep
  <1> QED
    BY <1>1, CountInit, SchedulerInvariant, PTL DEF SchedulerSpec

\* Run returns only when no goroutine of the engine is left, for any number of
\* goroutines and retries (Run's deferred wg.Wait, scheduleRetry).
THEOREM ReturnIsQuiet == SchedulerSpec => []ReturnedMeansQuiet
  <1>1. SchedulerInv /\ CountInv => ReturnedMeansQuiet
    BY FreeIsState DEF SchedulerInv, EngineInv, CountInv, AllFree, AdmittedAtWork,
       ReturnedMeansQuiet
  <1> QED
    BY <1>1, CountInvariant, SchedulerInvariant, PTL

\* Slots count exactly what holds one and never exceed their number, and a
\* returned engine has left no goroutine behind (Run, dispatch, scheduleRetry).
THEOREM RunAlwaysAccounted == SchedulerSpec => []RunIsAccounted
  <1>1. SchedulerTypeOK /\ ReturnedMeansQuiet => RunIsAccounted
    BY DEF RunIsAccounted
  <1> QED
    BY <1>1, SchedulerTypeCorrect, ReturnIsQuiet, PTL

(***************************************************************************)
(* Turns                                                                   *)
(***************************************************************************)

\* The repositories that are served between that of l and that of r.
Between(l, r) == {q \in Repos : IF l < r THEN l < q /\ q < r ELSE l < q \/ q < r}

RowsOfTheirPaths == \A p \in Paths : row[p] # NoRow => PathOf[row[p].job] = p

\* Who waits is listed and works, and what it has waited and what may come
\* before it make a round at most.
TurnInv ==
    /\ waited \in [Repos -> Nat] /\ lastRepo \in Nat /\ visit \subseteq Repos
    /\ \A r \in Repos : r \in broken \/ ~Pending(r) => waited[r] = 0
    /\ \A r \in Repos : waited[r] + Cardinality(Between(lastRepo, r)) < Cardinality(Repos)
    /\ loop = "claim" => \A r \in Repos : waited[r] > 0 => r \in visit

Turning == SchedulerInv /\ RowsOfTheirPaths /\ TurnInv

LEMMA ReposAreNumbers == IsFiniteSet(Repos) /\ Repos \subseteq Nat /\ Cardinality(Repos) \in Nat
  BY SchedulerAssumption, FS_CardinalityType

\* A part of a finite set has fewer elements.
LEMMA PartIsLess ==
    ASSUME NEW S, IsFiniteSet(S), NEW T \in SUBSET S, T # S
    PROVE  IsFiniteSet(T) /\ Cardinality(T) \in Nat /\ Cardinality(T) < Cardinality(S)
  <1>1. /\ IsFiniteSet(T) /\ Cardinality(T) <= Cardinality(S)
        /\ Cardinality(S) # Cardinality(T)
    BY FS_Subset
  <1>2. Cardinality(T) \in Nat /\ Cardinality(S) \in Nat
    BY <1>1, FS_CardinalityType
  <1> QED
    BY <1>1, <1>2

\* A round is shorter than there are repositories.
LEMMA BetweenIsShort ==
    ASSUME NEW l \in Nat, NEW r \in Repos
    PROVE  /\ IsFiniteSet(Between(l, r)) /\ Cardinality(Between(l, r)) \in Nat
           /\ Cardinality(Between(l, r)) < Cardinality(Repos)
  <1>1. Between(l, r) \subseteq Repos /\ r \notin Between(l, r)
    BY ReposAreNumbers DEF Between
  <1>2. Between(l, r) # Repos
    BY <1>1
  <1> QED
    BY <1>1, <1>2, ReposAreNumbers, PartIsLess

\* Whom a repository is served before has it behind.
LEMMA ServedMoveUp ==
    ASSUME NEW l \in Nat, NEW q \in Repos, NEW r \in Repos, q # r, q \in Between(l, r)
    PROVE  Cardinality(Between(q, r)) < Cardinality(Between(l, r))
  <1>1. /\ q \notin Between(q, r)
        /\ \A p \in Between(q, r) : p \in Between(l, r)
    <2>1. q \in Nat /\ r \in Nat /\ Repos \subseteq Nat
      BY ReposAreNumbers
    <2>2. q \notin Between(q, r)
      BY <2>1 DEF Between
    <2>3. ASSUME NEW p \in Between(q, r)
          PROVE  p \in Between(l, r)
      <3>1. p \in Repos /\ p \in Nat
        BY <2>1 DEF Between
      <3> QED
        BY <2>1, <2>3, <3>1 DEF Between
    <2> QED
      BY <2>2, <2>3
  <1>2. IsFiniteSet(Between(l, r))
    BY BetweenIsShort
  <1> QED
    BY <1>1, <1>2, PartIsLess

\* Of two repositories the served one is not between itself and the other.
LEMMA TwoAreLeftOut ==
    ASSUME NEW q \in Repos, NEW r \in Repos, q # r
    PROVE  Cardinality(Between(q, r)) + 1 < Cardinality(Repos)
  <1>1. /\ Between(q, r) \subseteq Repos \ {q}
        /\ Between(q, r) # Repos \ {q}
    <2>1. r \notin Between(q, r) /\ q \notin Between(q, r)
      BY ReposAreNumbers DEF Between
    <2> QED
      BY <2>1 DEF Between
  <1>2. IsFiniteSet(Repos \ {q}) /\ Cardinality(Repos \ {q}) = Cardinality(Repos) - 1
    BY ReposAreNumbers, FS_RemoveElement
  <1>3. Cardinality(Between(q, r)) < Cardinality(Repos) - 1
    BY <1>1, <1>2, PartIsLess
  <1>4. Cardinality(Between(q, r)) \in Nat
    BY BetweenIsShort, ReposAreNumbers
  <1> QED
    BY <1>3, <1>4, ReposAreNumbers

\* A set of numbers that is not empty has a least one.
LEMMA LeastOf ==
    ASSUME NEW S \in SUBSET Nat, S # {}
    PROVE  \E n \in S : \A m \in S \ {n} : n < m
  <1>1. PICK n \in S : \A m \in S : <<m, n>> \notin OpToRel(<, Nat)
    BY WFMin, NatLessThanWellFounded, Zenon
  <1>2. \A m \in S : ~(m < n)
    BY <1>1, Zenon DEF OpToRel
  <1> QED
    BY <1>2

\* While somebody is to be asked, one of them is the next.
LEMMA SomebodyIsNext ==
    ASSUME lastRepo \in Nat, visit \in SUBSET Nat, visit # {}
    PROVE  /\ Asked \in visit
           /\ \A q \in visit \ {Asked} : Sooner(Asked, q)
  <1>1. \E r \in visit : \A q \in visit \ {r} : Sooner(r, q)
    <2>1. CASE \E q \in visit : q > lastRepo
      <3>1. PICK r \in {q \in visit : q > lastRepo} : \A m \in {q \in visit : q > lastRepo} \ {r} : r < m
        BY <2>1, LeastOf
      <3> QED
        BY <3>1 DEF Sooner
    <2>2. CASE ~\E q \in visit : q > lastRepo
      <3>1. PICK r \in visit : \A m \in visit \ {r} : r < m
        BY LeastOf
      <3> QED
        BY <2>2, <3>1 DEF Sooner
    <2> QED
      BY <2>1, <2>2
  <1> QED
    BY <1>1 DEF Asked

\* Rows are replaced and removed whole.
LEMMA RowsStep ==
    ASSUME SchedulerInv, RowsOfTheirPaths, [SchedulerNext]_vars
    PROVE  RowsOfTheirPaths'
  <1> USE DEF RowsOfTheirPaths
  <1>1. row \in [Paths -> Row]
    BY DEF SchedulerInv, EngineInv
  <1>2. ASSUME NEW j \in Jobs, Submit(j)
        PROVE  RowsOfTheirPaths'
    <2>1. row' = [row EXCEPT ![PathOf[j]] = [job |-> j, claimed |-> FALSE]]
      BY <1>2 DEF Submit
    <2> QED
      BY <1>1, <2>1
  <1>3. ASSUME NEW j, row' = Removed(j)
        PROVE  RowsOfTheirPaths'
    BY <1>1, <1>3 DEF Removed
  <1>4. CASE Claim
    <2>1. PICK p \in Paths : row[p] # NoRow /\ row' = [row EXCEPT ![p].claimed = TRUE]
      BY <1>4 DEF Claim
    <2>2. row[p] \in [job : Jobs, claimed : BOOLEAN]
      BY <1>1, <2>1 DEF Row
    <2>3. row'[p].job = row[p].job /\ \A o \in Paths : o # p => row'[o] = row[o]
      BY <1>1, <2>1, <2>2
    <2> QED
      BY <2>1, <2>3
  <1>5. CASE row' = row
    BY <1>5
  <1>6. CASE LoopStep /\ ~Claim
    BY <1>5, <1>6 DEF LoopStep, LoopAcquire, LoopAllowed, LoopDenied, ListRepos, ListFails,
       NothingToClaim, ClaimNone,
       LoopWakes, LoopStops, RunReturns, queueVars
  <1>7. ASSUME NEW t \in Tasks, TaskStep(t)
        PROVE  RowsOfTheirPaths'
    <2>1. row' = row \/ \E j : row' = Removed(j)
      BY <1>7 DEF TaskStep, Finishes, Finish, Terminate, TaskTerminates, TaskDelayed,
         TaskAcquires, TaskAllowed,
         TaskDenied, TaskWakes, TaskStops, queueVars
    <2> QED
      BY <1>3, <1>5, <2>1
  <1>8. CASE RepairCatalog \/ Cancel \/ ElapseStep \/ UNCHANGED vars
    BY <1>5, <1>8 DEF RepairCatalog, Cancel, ElapseStep, vars, queueVars
  <1> QED
    BY <1>2, <1>4, <1>6, <1>7, <1>8 DEF SchedulerNext

\* A step that has nobody wait longer, or no longer.
LEMMA NobodyWaitsMore ==
    ASSUME Turning, UNCHANGED lastRepo, broken' \subseteq broken, visit' \subseteq Repos,
           waited' \in [Repos -> Nat], \A r \in Repos : waited'[r] \in {0, waited[r]},
           \A r \in Repos : (r \in broken \/ ~Pending(r))' => waited'[r] = 0,
           loop' = "claim" => \A r \in Repos : waited'[r] > 0 => r \in visit'
    PROVE  TurnInv'
  <1>1. ASSUME NEW r \in Repos
        PROVE  waited'[r] + Cardinality(Between(lastRepo', r)) < Cardinality(Repos)
    BY BetweenIsShort, ReposAreNumbers DEF Turning, TurnInv
  <1> QED
    BY <1>1 DEF Turning, TurnInv

\* Serving a repository brings the others nearer, or they have not waited.
LEMMA ClaimTurns ==
    ASSUME Turning, Claim
    PROVE  TurnInv'
  <1>1. /\ loop = "claim" /\ loop' = "acquire" /\ visit # {} /\ visit' = {} /\ broken' = broken
        /\ lastRepo' = Asked
        /\ waited' = [q \in Repos |-> IF q = Asked \/ q \in broken \/ ~Pending(q) THEN 0 ELSE waited[q] + 1]
    BY DEF Claim
  <1>2. /\ visit \in SUBSET Nat /\ lastRepo \in Nat /\ visit \subseteq Repos
        /\ waited \in [Repos -> Nat]
    BY ReposAreNumbers DEF Turning, TurnInv
  <1>3. Asked \in Repos /\ Asked \in visit /\ \A q \in visit \ {Asked} : Sooner(Asked, q)
    BY <1>1, <1>2, SomebodyIsNext
  <1>4. waited' \in [Repos -> Nat]
    BY <1>1, <1>2
  <1>5. ASSUME NEW r \in Repos
        PROVE  waited'[r] + Cardinality(Between(lastRepo', r)) < Cardinality(Repos)
    <2>1. Cardinality(Between(Asked, r)) \in Nat /\ Cardinality(Between(Asked, r)) < Cardinality(Repos)
      BY <1>3, BetweenIsShort, ReposAreNumbers
    <2>2. CASE waited'[r] = 0
      BY <1>1, <2>1, <2>2
    <2>3. CASE waited'[r] # 0 /\ waited[r] = 0
      <3>1. r # Asked /\ waited'[r] = 1
        BY <1>1, <2>3
      <3>2. Cardinality(Between(Asked, r)) + 1 < Cardinality(Repos)
        BY <1>3, <3>1, TwoAreLeftOut
      <3> QED
        BY <1>1, <2>1, <3>1, <3>2, ReposAreNumbers
    <2>4. CASE waited'[r] # 0 /\ waited[r] # 0
      <3>1. r # Asked /\ waited'[r] = waited[r] + 1 /\ waited[r] \in Nat /\ r \in visit
        BY <1>1, <1>2, <2>4 DEF Turning, TurnInv
      <3>2. Asked \in Between(lastRepo, r)
        BY <1>2, <1>3, <3>1, ReposAreNumbers DEF Sooner, Between
      <3>3. Cardinality(Between(Asked, r)) < Cardinality(Between(lastRepo, r))
        BY <1>2, <1>3, <3>1, <3>2, ServedMoveUp
      <3>4. waited[r] + Cardinality(Between(lastRepo, r)) < Cardinality(Repos)
        BY DEF Turning, TurnInv
      <3>5. Cardinality(Between(lastRepo, r)) \in Nat
        BY <1>2, BetweenIsShort
      <3> QED
        BY <1>1, <2>1, <3>1, <3>3, <3>4, <3>5, ReposAreNumbers
    <2> QED
      BY <2>2, <2>3, <2>4
  <1>6. ASSUME NEW r \in Repos, (r \in broken \/ ~Pending(r))'
        PROVE  waited'[r] = 0
    <2>1. CASE r \in broken \/ r = Asked
      BY <1>1, <2>1
    <2>2. CASE r \notin broken /\ r # Asked
      <3>1. PICK p \in Paths : /\ row[p] # NoRow /\ RepoOf[row[p].job] = Asked
                               /\ row' = [row EXCEPT ![p].claimed = TRUE]
        BY DEF Claim
      <3>2. \A o \in Paths : o # p => row'[o] = row[o]
        BY <3>1 DEF Turning, SchedulerInv, EngineInv
      <3>3. ~Pending(r)
        BY <1>1, <1>6, <2>2, <3>1, <3>2 DEF Pending
      <3> QED
        BY <1>1, <3>3
    <2> QED
      BY <2>1, <2>2
  <1> QED
    BY <1>1, <1>3, <1>4, <1>5, <1>6, ReposAreNumbers DEF TurnInv

\* The steps that keep or end a wait.
LEMMA TurnStep ==
    ASSUME Turning, [SchedulerNext]_vars
    PROVE  TurnInv'
  <1>1. /\ row \in [Paths -> Row] /\ waited \in [Repos -> Nat] /\ visit \subseteq Repos
        /\ \A r \in Repos : r \in broken \/ ~Pending(r) => waited[r] = 0
        /\ loop = "claim" => \A r \in Repos : waited[r] > 0 => r \in visit
    BY DEF Turning, TurnInv, SchedulerInv, EngineInv
  <1>2. ASSUME UNCHANGED <<row, lastRepo, visit, waited>>, broken' \subseteq broken,
               loop' = "claim" => loop = "claim"
        PROVE  TurnInv'
    <2>1. \A r \in Repos : (r \in broken \/ ~Pending(r))' => r \in broken \/ ~Pending(r)
      BY <1>2 DEF Pending
    <2> QED
      BY <1>1, <1>2, <2>1, NobodyWaitsMore
  <1>3. ASSUME NEW j \in Jobs, Submit(j)
        PROVE  TurnInv'
    <2>1. /\ row' = [row EXCEPT ![PathOf[j]] = [job |-> j, claimed |-> FALSE]]
          /\ UNCHANGED <<broken, loop, visit, lastRepo, waited>>
      BY <1>3 DEF Submit, loopVars
    <2>2. PathOf[j] \in Paths /\ row'[PathOf[j]] = [job |-> j, claimed |-> FALSE]
      BY <1>1, <2>1 DEF Paths
    <2>3. ASSUME NEW r \in Repos, Pending(r)
          PROVE  Pending(r)'
      <3>1. PICK p \in Paths : row[p] # NoRow /\ ~row[p].claimed /\ RepoOf[row[p].job] = r
        BY <2>3 DEF Pending
      <3>2. CASE p # PathOf[j]
        BY <1>1, <2>1, <3>1, <3>2 DEF Pending
      <3>3. CASE p = PathOf[j]
        <4>1. row[p].job \in Jobs /\ PathOf[row[p].job] = PathOf[j]
          BY <1>1, <3>1, <3>3 DEF Turning, RowsOfTheirPaths, Row
        <4>2. RepoOf[j] = r
          BY <3>1, <4>1, SchedulerAssumption
        <4>3. row'[p] # NoRow
          BY <2>2, <3>3, SchedulerAssumption DEF NoRow
        <4> QED
          BY <2>2, <3>3, <4>2, <4>3 DEF Pending
      <3> QED
        BY <3>2, <3>3
    <2> QED
      BY <1>1, <2>1, <2>3, NobodyWaitsMore
  <1>4. ASSUME NEW t \in Tasks, TaskStep(t)
        PROVE  TurnInv'
    <2>1. UNCHANGED <<broken, loop, visit, lastRepo>>
      BY <1>4 DEF TaskStep, Finishes, Finish, TaskTerminates, TaskDelayed, TaskAcquires,
         TaskAllowed, TaskDenied,
         TaskWakes, TaskStops, queueVars, loopVars
    <2>2. CASE KeepWaiting
      <3>1. waited' = [r \in Repos |-> IF Pending(r)' THEN waited[r] ELSE 0]
        BY <2>2 DEF KeepWaiting
      <3>2. \A r \in Repos : waited'[r] \in {0, waited[r]} /\ waited'[r] \in Nat
        BY <1>1, <3>1
      <3>3. waited' \in [Repos -> Nat]
        BY <1>1, <3>1
      <3>4. \A r \in Repos : (r \in broken \/ ~Pending(r))' => waited'[r] = 0
        BY <1>1, <2>1, <3>1
      <3> QED
        BY <1>1, <2>1, <3>2, <3>3, <3>4, NobodyWaitsMore
    <2>3. CASE ~KeepWaiting
      <3>1. UNCHANGED <<row, waited>>
        BY <1>4, <2>3 DEF TaskStep, Finishes, Finish, TaskTerminates, TaskDelayed, TaskAcquires,
           TaskAllowed,
           TaskDenied, TaskWakes, TaskStops, queueVars
      <3> QED
        BY <1>2, <2>1, <3>1
    <2> QED
      BY <2>2, <2>3
  <1>5. CASE ListRepos
    <2>1. /\ visit' = {r \in Repos \ broken : Pending(r)}
          /\ UNCHANGED <<row, broken, lastRepo, waited>>
      BY <1>5 DEF ListRepos, queueVars
    <2>2. \A r \in Repos : (r \in broken \/ ~Pending(r))' => waited'[r] = 0
      BY <1>1, <2>1 DEF Pending
    <2> QED
      BY <1>1, <2>1, <2>2, NobodyWaitsMore
  <1>6. CASE ClaimNone
    <2>1. /\ visit' = visit \ {Asked} /\ waited' = [waited EXCEPT ![Asked] = 0]
          /\ UNCHANGED <<row, broken, lastRepo, loop>> /\ visit # {} /\ loop = "claim"
      BY <1>6 DEF ClaimNone, queueVars
    <2>2. Asked \in Repos
      <3>1. lastRepo \in Nat /\ visit \in SUBSET Nat
        BY <1>1, ReposAreNumbers DEF Turning, TurnInv
      <3> QED
        BY <1>1, <2>1, <3>1, SomebodyIsNext
    <2>3. /\ waited' \in [Repos -> Nat] /\ \A r \in Repos : waited'[r] \in {0, waited[r]}
          /\ waited'[Asked] = 0
      BY <1>1, <2>1, <2>2
    <2>4. \A r \in Repos : (r \in broken \/ ~Pending(r))' => waited'[r] = 0
      BY <1>1, <2>1, <2>3 DEF Pending
    <2>5. \A r \in Repos : waited'[r] > 0 => r \in visit'
      BY <1>1, <2>1, <2>3
    <2> QED
      BY <1>1, <2>1, <2>3, <2>4, <2>5, NobodyWaitsMore
  <1>7. CASE ListFails \/ NothingToClaim
    <2>1. UNCHANGED <<row, broken, lastRepo, waited>> /\ visit' = {} /\ loop' = "wait"
      BY <1>7 DEF ListFails, NothingToClaim, GiveUp, queueVars
    <2>2. \A r \in Repos : (r \in broken \/ ~Pending(r))' => waited'[r] = 0
      BY <1>1, <2>1 DEF Pending
    <2> QED
      BY <1>1, <2>1, <2>2, NobodyWaitsMore
  <1>8. CASE LoopAcquire \/ LoopAllowed \/ LoopDenied \/ LoopWakes \/ LoopStops \/ RunReturns
    <2>1. UNCHANGED <<row, broken, lastRepo, visit, waited>> /\ loop' # "claim"
      BY <1>8 DEF LoopAcquire, LoopAllowed, LoopDenied, LoopWakes, LoopStops, RunReturns,
         queueVars
    <2> QED
      BY <1>2, <2>1
  <1>9. CASE RepairCatalog \/ Cancel \/ ElapseStep \/ UNCHANGED vars
    <2>1. UNCHANGED <<row, lastRepo, visit, waited, loop>> /\ broken' \subseteq broken
      BY <1>9 DEF RepairCatalog, Cancel, ElapseStep, vars, queueVars, loopVars
    <2> QED
      BY <1>2, <2>1
  <1> QED
    BY <1>3, <1>4, <1>5, <1>6, <1>7, <1>8, <1>9, ClaimTurns DEF SchedulerNext, LoopStep

LEMMA TurnInvariant == SchedulerSpec => [](RowsOfTheirPaths /\ TurnInv)
  <1>1. SchedulerInit => RowsOfTheirPaths /\ TurnInv
    <2> SUFFICES ASSUME SchedulerInit
                 PROVE  RowsOfTheirPaths /\ TurnInv
      OBVIOUS
    <2>1. RowsOfTheirPaths
      BY DEF SchedulerInit, RowsOfTheirPaths
    <2>2. ASSUME NEW r \in Repos
          PROVE  waited[r] + Cardinality(Between(lastRepo, r)) < Cardinality(Repos)
      BY BetweenIsShort, ReposAreNumbers DEF SchedulerInit
    <2> QED
      BY <2>1, <2>2 DEF SchedulerInit, TurnInv
  <1>2. SchedulerInv /\ RowsOfTheirPaths /\ TurnInv /\ [SchedulerNext]_vars => (RowsOfTheirPaths /\ TurnInv)'
    BY RowsStep, TurnStep DEF Turning
  <1> QED
    BY <1>1, <1>2, SchedulerInvariant, PTL DEF SchedulerSpec

\* For any number of repositories: while a job of one of them waits, every
\* other repository is served once at most before it is asked, however they
\* come and go in the list (claimRoundRobin).
THEOREM TurnsAreFair == SchedulerSpec => []FairTurn
  <1>1. TurnInv => FairTurn
    <2> SUFFICES ASSUME TurnInv, NEW r \in Repos
                 PROVE  waited[r] < Cardinality(Repos)
      BY DEF FairTurn
    <2>1. Cardinality(Between(lastRepo, r)) \in Nat /\ waited[r] \in Nat
      BY BetweenIsShort DEF TurnInv
    <2> QED
      BY <2>1, ReposAreNumbers DEF TurnInv
  <1> QED
    BY <1>1, TurnInvariant, PTL
=============================================================================
