--------------------------- MODULE CircuitBreaker ---------------------------
(***************************************************************************)
(* The host-wide circuit breaker in front of the embedding endpoint.  A    *)
(* caller (a dispatch or the scheduler's loop) asks Allow for an admission *)
(* and resolves the one it got by exactly one record, any time later and   *)
(* after any number of admissions and records of the others.               *)
(***************************************************************************)
EXTENDS Naturals

CONSTANTS
    Callers,
    OpenAfter,    \* consecutive failures that trip it, circuit_open_after
    MaxEpoch      \* bound: nothing is admitted once it opened MaxEpoch times

ASSUME BreakerAssumption == OpenAfter \in Nat \ {0} /\ MaxEpoch \in Nat

VARIABLES
    state,
    failures,  \* since the last success or closing
    epoch,     \* how often it opened
    elapsed,   \* openedAt + probeInterval has passed
    adm        \* the admission each caller has to resolve

breakerVars == <<state, failures, epoch, elapsed, adm>>

Admission == [epoch : Nat, probe : BOOLEAN, ok : BOOLEAN]
NoAdmission == [epoch |-> 0, probe |-> FALSE, ok |-> FALSE]
Grant(c, probe) == adm' = [adm EXCEPT ![c] = [epoch |-> epoch, probe |-> probe, ok |-> TRUE]]

BreakerInit ==
    /\ state = "closed" /\ failures = 0 /\ epoch = 0 /\ elapsed = FALSE
    /\ adm = [c \in Callers |-> NoAdmission]

Elapse ==
    /\ state = "open" /\ ~elapsed
    /\ elapsed' = TRUE
    /\ UNCHANGED <<state, failures, epoch, adm>>

AllowAnyway(c) ==                                               \* mutant
    /\ ~adm[c].ok /\ epoch < MaxEpoch
    /\ \/ state = "closed" /\ Grant(c, FALSE) /\ UNCHANGED <<state, elapsed>>
       \/ /\ state # "closed" /\ elapsed
          /\ state' = "half-open" /\ Grant(c, TRUE) /\ UNCHANGED elapsed
    /\ UNCHANGED <<failures, epoch>>

\* A denied call changes nothing and waits.
Allow(c) ==
    /\ ~adm[c].ok /\ epoch < MaxEpoch
    /\ \/ state = "closed" /\ Grant(c, FALSE) /\ UNCHANGED <<state, elapsed>>
       \/ /\ state = "open" /\ elapsed
          /\ state' = "half-open" /\ elapsed' = FALSE /\ Grant(c, TRUE)
    /\ UNCHANGED <<failures, epoch>>

Open ==
    /\ state' = "open" /\ elapsed' = FALSE
    /\ epoch' = epoch + 1

\* The probe's token decides a half-open breaker; an abort counts as a failure.
RecordProbe(r) ==
    IF state # "half-open" THEN UNCHANGED <<state, failures, epoch, elapsed>>
    ELSE IF r = "success" THEN /\ state' = "closed" /\ failures' = 0
                               /\ UNCHANGED <<epoch, elapsed>>
    ELSE Open /\ UNCHANGED failures

CountAndTrip ==
    /\ failures' = failures + 1
    /\ IF failures + 1 >= OpenAfter THEN Open ELSE UNCHANGED <<state, epoch, elapsed>>

\* A completion admitted before the breaker last opened says nothing of now.
RecordCall(a, r) ==
    IF a.epoch # epoch \/ r = "abort" THEN UNCHANGED <<state, failures, epoch, elapsed>>
    ELSE IF r = "success" THEN failures' = 0 /\ UNCHANGED <<state, epoch, elapsed>>
    ELSE CountAndTrip

Record(c, r) ==
    /\ adm[c].ok
    /\ IF adm[c].probe THEN RecordProbe(r) ELSE RecordCall(adm[c], r)
    /\ adm' = [adm EXCEPT ![c] = NoAdmission]

\* The loop's admission goes with the job to the dispatch.
HandOver(c, d) ==
    /\ adm[c].ok /\ ~adm[d].ok
    /\ adm' = [adm EXCEPT ![d] = adm[c], ![c] = NoAdmission]
    /\ UNCHANGED <<state, failures, epoch, elapsed>>

BreakerNext ==
    \/ Elapse
    \/ \E c, d \in Callers : HandOver(c, d)
    \/ \E c \in Callers : Allow(c)
    \/ \E c \in Callers, r \in {"success", "failure", "abort"} : Record(c, r)

BreakerSpec == BreakerInit /\ [][BreakerNext]_breakerVars

(***************************************************************************)
(* Properties                                                              *)
(***************************************************************************)

BreakerTypeOK ==
    /\ state \in {"closed", "open", "half-open"}
    /\ failures \in Nat /\ epoch \in 0..MaxEpoch
    /\ elapsed \in BOOLEAN /\ (elapsed => state = "open")
    /\ adm \in [Callers -> Admission]
    /\ \A c \in Callers : adm[c].ok \/ adm[c] = NoAdmission

Probing(c) == adm[c].ok /\ adm[c].probe

\* The breaker is half-open exactly while one caller has a probe to resolve:
\* it can neither wedge half-open, with nobody left to resolve it, nor let a
\* second probe reach an endpoint believed down.
OneProbe ==
    /\ state = "half-open" <=> \E c \in Callers : Probing(c)
    /\ \A c, d \in Callers : Probing(c) /\ Probing(d) => c = d

\* Once open, every call still in flight except the probe was admitted under
\* an earlier epoch, so no late completion can reset or trip what opened after
\* it was admitted.
InFlightIsStale ==
    \A c \in Callers : adm[c].ok =>
        \/ adm[c].epoch < epoch
        \/ adm[c].epoch = epoch /\ (adm[c].probe <=> state # "closed")

\* While calls are admitted freely, the endpoint has failed fewer times in a
\* row than trips the breaker, however late the answers came.
ClosedMeansHealthy ==
    state = "closed" => failures < OpenAfter

\* What the breaker promises its callers, all at once: one probe, late answers
\* that count for nothing, and no call while the endpoint is believed down.
BreakerSafe == OneProbe /\ InFlightIsStale /\ ClosedMeansHealthy
=============================================================================
