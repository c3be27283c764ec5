------------------------- MODULE WatchManager_proofs -------------------------
(***************************************************************************)
(* Proofs about the watch of one worktree: however many registrations race *)
(* and whatever the kernel and the passes do, one loop at most is alive,   *)
(* no backend is left open, and a change that no pass has read is on its   *)
(* way to one.                                                             *)
(***************************************************************************)
EXTENDS WatchManager, SequenceTheorems, TLAPS

(***************************************************************************)
(* The inductive invariant                                                 *)
(***************************************************************************)

Shapes ==
    /\ {root, unseen, early, closed} \subseteq BOOLEAN
    /\ owner \in Calls \cup {Nobody}
    /\ call \in [Calls -> {"idle", "checked", "started", "exhausted", "returned"}]
    /\ backend \in [Calls -> {"none", "open", "closed"}]
    /\ listening \subseteq Calls /\ dropped \subseteq Calls
    /\ kernel \in [Calls -> Held]
    /\ hints \in [Calls -> BOOLEAN] /\ errs \in [Calls -> Seq(Error)]
    /\ loop \in [Calls -> {"none", "select", "pass", "read", "ended"}]
    /\ dirty \in [Calls -> BOOLEAN]
    /\ quiet \in [Calls -> Timer] /\ maxLt \in [Calls -> Timer] /\ poll \in [Calls -> Timer]

\* Channels and timers within their bounds.
Bounds == \A c \in Calls : /\ Len(errs[c]) <= ErrCap
                           /\ (quiet[c] # "off" \/ maxLt[c] # "off") => dirty[c]

\* A call has a backend from its start on, a loop from its registration on.
\* Of the calls that registered only the owner's is not through.
Stages ==
    \A c \in Calls :
       /\ call[c] \in {"idle", "checked"} => backend[c] = "none"
       /\ call[c] = "exhausted" => backend[c] = "closed"
       /\ loop[c] # "none" => call[c] = "returned"
       /\ owner = c => call[c] = "returned" /\ (closed \/ Alive(c))
       /\ c \in listening => backend[c] = "open"

Pending(c, kinds) == \E i \in DOMAIN errs[c] : errs[c][i] \in kinds

\* Only the removal of the root takes the worktree from its owner.
GoneIsGone == \A c \in Calls : kernel[c] = "gone" \/ Pending(c, {"gone"}) => ~root

\* Who does not listen any more polls, or will when it reads its errors.
Hears(c) == \/ c \in listening \/ PollMode(c) \/ c \in dropped
            \/ Pending(c, {"exhausted", "gone"})

OwnerHears == \A c \in Calls : call[c] = "started" \/ (owner = c /\ ~closed) => Hears(c)

\* A change that came while nobody watched.
EarlyIsEarly == owner = Nobody /\ root /\ unseen => early

WatchInv == /\ Shapes /\ Bounds /\ Stages /\ OneLoop /\ NoBackendLeaks
            /\ GoneIsGone /\ OwnerHears /\ EarlyIsEarly /\ ChangeSignalled

(***************************************************************************)
(* The error channel                                                       *)
(***************************************************************************)

\* An error that is sent is in the channel or noted as dropped; the others
\* stay.
LEMMA Sent ==
    ASSUME Shapes, Bounds, NEW c \in Calls, NEW e \in Error, SendErr(c, e)
    PROVE  /\ errs' \in [Calls -> Seq(Error)] /\ dropped' \subseteq Calls
           /\ \A b \in Calls : Len(errs'[b]) <= ErrCap
           /\ dropped \subseteq dropped'
           /\ \A b \in Calls : b # c => errs'[b] = errs[b]
           /\ \A kinds : Pending(c, kinds) => Pending(c, kinds)'
           /\ \A kinds : Pending(c, kinds)' => Pending(c, kinds) \/ e \in kinds
           /\ c \in dropped' \/ \A kinds : e \in kinds => Pending(c, kinds)'
  <1> USE DEF Shapes, Bounds
  <1>1. CASE Len(errs[c]) < ErrCap
    <2>1. errs' = [errs EXCEPT ![c] = Append(@, e)] /\ dropped' = dropped
      BY <1>1 DEF SendErr
    <2>2. /\ errs'[c] = Append(errs[c], e) /\ errs[c] \in Seq(Error)
          /\ \A b \in Calls : b # c => errs'[b] = errs[b]
      BY <2>1
    <2>3. /\ Append(errs[c], e) \in Seq(Error) /\ Len(Append(errs[c], e)) = Len(errs[c]) + 1
          /\ DOMAIN errs[c] = 1..Len(errs[c])
          /\ DOMAIN Append(errs[c], e) = 1..(Len(errs[c]) + 1)
          /\ \A i \in 1..Len(errs[c]) : Append(errs[c], e)[i] = errs[c][i]
          /\ Append(errs[c], e)[Len(errs[c]) + 1] = e
          /\ Len(errs[c]) \in Nat
      BY <2>2
    <2>4. Len(errs'[c]) <= ErrCap
      BY <1>1, <2>2, <2>3, WatchAssumption
    <2>5. ASSUME NEW kinds
          PROVE  /\ Pending(c, kinds) => Pending(c, kinds)'
                 /\ Pending(c, kinds)' => Pending(c, kinds) \/ e \in kinds
                 /\ e \in kinds => Pending(c, kinds)'
      BY <2>2, <2>3 DEF Pending
    <2>6. errs' \in [Calls -> Seq(Error)] /\ \A b \in Calls : Len(errs'[b]) <= ErrCap
      BY <2>1, <2>2, <2>3, <2>4
    <2> QED
      BY <2>1, <2>2, <2>5, <2>6
  <1>2. CASE ~(Len(errs[c]) < ErrCap)
    BY <1>2 DEF SendErr, Pending
  <1> QED
    BY <1>1, <1>2

\* Reading takes the first error.
LEMMA Received ==
    ASSUME Shapes, Bounds, NEW c \in Calls, errs[c] # <<>>, errs' = [errs EXCEPT ![c] = Tail(@)]
    PROVE  /\ errs' \in [Calls -> Seq(Error)]
           /\ \A b \in Calls : Len(errs'[b]) <= ErrCap
           /\ \A b \in Calls : b # c => errs'[b] = errs[b]
           /\ \A kinds : Pending(c, kinds)' => Pending(c, kinds)
           /\ \A kinds : Pending(c, kinds) => Head(errs[c]) \in kinds \/ Pending(c, kinds)'
  <1> USE DEF Shapes, Bounds
  <1>1. /\ errs[c] \in Seq(Error) /\ errs'[c] = Tail(errs[c])
        /\ \A b \in Calls : b # c => errs'[b] = errs[b]
    OBVIOUS
  <1>2. /\ Tail(errs[c]) \in Seq(Error) /\ Len(errs[c]) \in Nat /\ Len(errs[c]) > 0
        /\ Len(Tail(errs[c])) = Len(errs[c]) - 1
        /\ DOMAIN errs[c] = 1..Len(errs[c]) /\ DOMAIN Tail(errs[c]) = 1..(Len(errs[c]) - 1)
        /\ Head(errs[c]) = errs[c][1]
        /\ \A i \in 1..(Len(errs[c]) - 1) : Tail(errs[c])[i] = errs[c][i + 1]
    BY <1>1
  <1>3. \A b \in Calls : Len(errs'[b]) <= ErrCap
    BY <1>1, <1>2, WatchAssumption
  <1>4. ASSUME NEW kinds, Pending(c, kinds)
        PROVE  Head(errs[c]) \in kinds \/ Pending(c, kinds)'
    <2>1. PICK i \in 1..Len(errs[c]) : errs[c][i] \in kinds
      BY <1>2, <1>4 DEF Pending
    <2>2. CASE i = 1
      BY <1>2, <2>1, <2>2
    <2>3. CASE i # 1
      <3>1. i - 1 \in 1..(Len(errs[c]) - 1) /\ errs'[c][i - 1] = errs[c][i]
        BY <1>1, <1>2, <2>1, <2>3
      <3> QED
        BY <1>1, <1>2, <2>1, <3>1 DEF Pending
    <2> QED
      BY <2>2, <2>3
  <1>5. ASSUME NEW kinds, Pending(c, kinds)'
        PROVE  Pending(c, kinds)
    <2>1. PICK i \in 1..(Len(errs[c]) - 1) : errs[c][i + 1] \in kinds
      BY <1>1, <1>2, <1>5 DEF Pending
    <2>2. i + 1 \in DOMAIN errs[c]
      BY <1>2
    <2> QED
      BY <2>1, <2>2 DEF Pending
  <1> QED
    BY <1>1, <1>2, <1>3, <1>4, <1>5

\* A closed backend has no errors left.
LEMMA Closed ==
    ASSUME Shapes, NEW c \in Calls, CloseBackend(c)
    PROVE  /\ errs' \in [Calls -> Seq(Error)] /\ errs'[c] = <<>>
           /\ \A b \in Calls : b # c => errs'[b] = errs[b]
           /\ \A kinds : ~Pending(c, kinds)'
           /\ backend' \in [Calls -> {"none", "open", "closed"}] /\ backend'[c] # "open"
           /\ \A b \in Calls : b # c => backend'[b] = backend[b] /\ kernel'[b] = kernel[b]
           /\ listening' = listening \ {c} /\ kernel' \in [Calls -> Held] /\ kernel'[c] = "nothing"
           /\ hints' \in [Calls -> BOOLEAN]
           /\ backend[c] # "none" => backend'[c] = "closed"
           /\ \A b \in Calls : b # c => hints'[b] = hints[b]
  BY DEF Shapes, CloseBackend, StopsListening, Set, Pending, Held

(***************************************************************************)
(* Types and bounds                                                        *)
(***************************************************************************)

\* The kernel's queue holds an event, the loss of one, or nothing.
LEMMA KernelTypes ==
    ASSUME Shapes, Bounds, Change \/ RemoveRoot
    PROVE  Shapes' /\ Bounds'
  <1> USE DEF Shapes, Bounds
  <1>1. /\ kernel' \in [Calls -> Held] /\ dropped' \subseteq Calls
        /\ {root', unseen', early'} \subseteq BOOLEAN
    BY DEF Change, RemoveRoot
  <1>2. UNCHANGED <<closed, owner, call, backend, listening, hints, errs, loop, timers>>
    BY DEF Change, RemoveRoot, calls
  <1> QED
    BY <1>1, <1>2 DEF timers

\* What the backend's goroutine sends has its place or is dropped.
LEMMA BackendTypes ==
    ASSUME Shapes, Bounds, NEW c \in Calls, BackendStep(c) \/ OtherError(c)
    PROVE  Shapes' /\ Bounds'
  <1> USE DEF Shapes, Bounds
  <1>1. UNCHANGED <<tree, calls, backend, loop, timers>>
    BY DEF BackendStep, Translate, TranslateOverflow, NoticeGone, OtherError
  <1>2. /\ kernel' \in [Calls -> Held] /\ listening' \subseteq Calls /\ hints' \in [Calls -> BOOLEAN]
    <2>1. kernel' \in [Calls -> Held]
      <3>1. kernel' = kernel \/ kernel' = Set(kernel, c, "nothing")
        BY DEF BackendStep, Translate, TranslateOverflow, NoticeGone, OtherError, StopsListening
      <3>2. "nothing" \in Held
        BY DEF Held
      <3> QED
        BY <3>1, <3>2 DEF Set
    <2>2. listening' \subseteq Calls /\ hints' \in [Calls -> BOOLEAN]
      BY DEF BackendStep, Translate, TranslateOverflow, NoticeGone, OtherError, StopsListening, Set
    <2> QED
      BY <2>1, <2>2
  <1>3. \/ UNCHANGED <<errs, dropped>>
        \/ \E e \in Error : SendErr(c, e)
    BY DEF BackendStep, Translate, TranslateOverflow, NoticeGone, OtherError, Error
  <1>4. /\ errs' \in [Calls -> Seq(Error)] /\ dropped' \subseteq Calls
        /\ \A b \in Calls : Len(errs'[b]) <= ErrCap
    BY <1>3, Sent
  <1> QED
    BY <1>1, <1>2, <1>4 DEF tree, calls, timers

\* A registration is one of the calls.
LEMMA CallTypes ==
    ASSUME Shapes, Bounds, NEW c \in Calls, CallStep(c)
    PROVE  Shapes' /\ Bounds'
  <1> USE DEF Shapes, Bounds
  <1>1. CASE CheckFirst(c) \/ StartBackend(c)
    <2>1. call' \in [Calls -> {"idle", "checked", "started", "exhausted", "returned"}]
      <3>1. PICK s \in {"returned", "checked", "started", "exhausted"} : call' = Set(call, c, s)
        BY <1>1 DEF CheckFirst, StartBackend
      <3> QED
        BY <3>1 DEF Set
    <2>2. backend' \in [Calls -> {"none", "open", "closed"}] /\ listening' \subseteq Calls
      BY <1>1 DEF CheckFirst, StartBackend, backends, Set
    <2>3. UNCHANGED <<tree, closed, owner, kernel, hints, errs, dropped, loop, timers>>
      BY <1>1 DEF CheckFirst, StartBackend, backends
    <2> QED
      BY <2>1, <2>2, <2>3 DEF tree, timers
  <1>2. CASE Register(c)
    BY <1>2 DEF Register, tree, backends, Set, Timer
  <1>3. CASE RegisterLost(c)
    <2>1. \A b \in Calls : Len(errs'[b]) <= ErrCap
      <3>1. Len(<<>>) <= ErrCap
        BY WatchAssumption
      <3> QED
        BY <1>3, <3>1, Closed DEF RegisterLost
    <2> QED
      BY <1>3, <2>1, Closed DEF RegisterLost, tree, timers, Set
  <1> QED
    BY <1>1, <1>2, <1>3 DEF CallStep

\* The loop's timers run only while it is dirty.
LEMMA LoopTypes ==
    ASSUME Shapes, Bounds, NEW c \in Calls,
           \/ LoopStep(c) \/ SafetyFires(c) \/ PassFails(c)
           \/ \E timer \in {"quiet", "maxLt", "poll"} : Elapse(c, timer)
    PROVE  Shapes' /\ Bounds'
  <1> USE DEF Shapes, Bounds
  <1>1. CASE ReceiveHint(c)
    BY <1>1 DEF ReceiveHint, Arm, Set, tree, calls, Timer
  <1>2. CASE DebounceFires(c) \/ SafetyFires(c) \/ PollFires(c)
    <2>1. UNCHANGED <<tree, calls, backends>> /\ Fire(c) /\ poll' \in [Calls -> Timer]
      BY <1>2 DEF DebounceFires, SafetyFires, PollFires, Set, Timer
    <2> QED
      BY <2>1 DEF Fire, Set, tree, calls, backends, Timer
  <1>3. CASE PassReads(c) \/ PassEnds(c) \/ PassFails(c)
    <2>1. /\ UNCHANGED <<root, calls, backends, maxLt, poll>>
          /\ unseen' \in BOOLEAN /\ early' \in BOOLEAN
          /\ loop' \in [Calls -> {"none", "select", "pass", "read", "ended"}]
      BY <1>3 DEF PassReads, PassEnds, PassFails, Set, tree, timers
    <2>2. \/ UNCHANGED <<dirty, quiet>>
          \/ dirty' = Set(dirty, c, TRUE) /\ quiet' = Set(quiet, c, "armed")
      BY <1>3 DEF PassReads, PassEnds, PassFails, timers
    <2>3. /\ dirty' \in [Calls -> BOOLEAN] /\ quiet' \in [Calls -> Timer]
          /\ \A b \in Calls : /\ dirty[b] => dirty'[b]
                              /\ quiet'[b] # "off" => quiet[b] # "off" \/ dirty'[b]
      <3>1. CASE UNCHANGED <<dirty, quiet>>
        BY <3>1
      <3>2. CASE dirty' = Set(dirty, c, TRUE) /\ quiet' = Set(quiet, c, "armed")
        BY <3>2 DEF Set, Timer
      <3> QED
        BY <2>2, <3>1, <3>2
    <2> QED
      BY <2>1, <2>3 DEF calls, backends
  <1>4. CASE LoopEnds(c) \/ ReceiveError(c)
    <2>1. Len(<<>>) <= ErrCap
      BY WatchAssumption
    <2>2. ASSUME CloseBackend(c)
          PROVE  /\ errs' \in [Calls -> Seq(Error)] /\ \A b \in Calls : Len(errs'[b]) <= ErrCap
                 /\ backend' \in [Calls -> {"none", "open", "closed"}] /\ listening' \subseteq Calls
                 /\ kernel' \in [Calls -> Held] /\ hints' \in [Calls -> BOOLEAN]
      <3>1. ASSUME NEW b \in Calls
            PROVE  Len(errs'[b]) <= ErrCap
        BY <2>1, <2>2, Closed
      <3> QED
        BY <2>2, <3>1, Closed
    <2>3. CASE LoopEnds(c)
      BY <2>2, <2>3 DEF LoopEnds, End, Set, tree, calls, timers, Timer
    <2>4. CASE ReceiveError(c) /\ CloseBackend(c)
      <3>1. /\ UNCHANGED <<tree, closed, call, dropped>> /\ owner' \in {owner, Nobody}
            /\ \/ poll' = Set(poll, c, "armed") /\ UNCHANGED <<loop, dirty, quiet, maxLt>>
               \/ End(c)
               \/ Arm(c) /\ loop' = loop
               \/ UNCHANGED <<loop, timers>>
        BY <2>4 DEF ReceiveError
      <3>2. /\ loop' \in [Calls -> {"none", "select", "pass", "read", "ended"}]
            /\ dirty' \in [Calls -> BOOLEAN]
            /\ {quiet', maxLt', poll'} \subseteq [Calls -> Timer]
            /\ \A b \in Calls : (quiet'[b] # "off" \/ maxLt'[b] # "off") => dirty'[b]
        <4>1. CASE Arm(c) /\ loop' = loop
          BY <4>1 DEF Arm, Set, Timer
        <4>2. CASE End(c)
          BY <4>2 DEF End, Set, Timer
        <4>3. CASE poll' = Set(poll, c, "armed") /\ UNCHANGED <<loop, dirty, quiet, maxLt>>
          BY <4>3 DEF Set, Timer
        <4>4. CASE UNCHANGED <<loop, timers>>
          BY <4>4 DEF timers
        <4> QED
          BY <3>1, <4>1, <4>2, <4>3, <4>4
      <3> QED
        BY <2>2, <2>4, <3>1, <3>2 DEF tree
    <2>5. CASE ReceiveError(c) /\ ~CloseBackend(c)
      <3>1. errs[c] # <<>> /\ errs' = [errs EXCEPT ![c] = Tail(@)]
        BY <2>5 DEF ReceiveError, End
      <3>2. errs' \in [Calls -> Seq(Error)] /\ \A b \in Calls : Len(errs'[b]) <= ErrCap
        BY <3>1, Received
      <3>3. /\ UNCHANGED <<tree, closed, call, dropped, owner, loop, backend, listening, kernel, hints>>
            /\ Arm(c) \/ UNCHANGED timers
        BY <2>5 DEF ReceiveError, End
      <3> QED
        <4>1. CASE Arm(c)
          BY <3>2, <3>3, <4>1 DEF Arm, Set, tree, Timer
        <4>2. CASE UNCHANGED timers
          BY <3>2, <3>3, <4>2 DEF tree, timers
        <4> QED
          BY <3>3, <4>1, <4>2
    <2> QED
      BY <1>4, <2>3, <2>4, <2>5
  <1>5. ASSUME NEW timer \in {"quiet", "maxLt", "poll"}, Elapse(c, timer)
        PROVE  Shapes' /\ Bounds'
    <2>1. /\ UNCHANGED <<tree, calls, backends, loop, dirty>>
          /\ {quiet', maxLt', poll'} \subseteq [Calls -> Timer]
          /\ \A b \in Calls : /\ quiet'[b] # "off" => quiet[b] # "off"
                              /\ maxLt'[b] # "off" => maxLt[b] # "off"
      <3>1. UNCHANGED <<tree, calls, backends, loop, dirty>>
        BY <1>5 DEF Elapse
      <3>2. CASE quiet[c] = "armed" /\ quiet' = Set(quiet, c, "due") /\ UNCHANGED <<maxLt, poll>>
        BY <3>1, <3>2 DEF Set, Timer
      <3>3. CASE maxLt[c] = "armed" /\ maxLt' = Set(maxLt, c, "due") /\ UNCHANGED <<quiet, poll>>
        BY <3>1, <3>3 DEF Set, Timer
      <3>4. CASE poll' = Set(poll, c, "due") /\ UNCHANGED <<quiet, maxLt>>
        BY <3>1, <3>4 DEF Set, Timer
      <3> QED
        BY <1>5, <3>2, <3>3, <3>4 DEF Elapse
    <2> QED
      BY <2>1 DEF tree, calls, backends
  <1> QED
    BY <1>1, <1>2, <1>3, <1>4, <1>5 DEF LoopStep

\* Every step keeps types and bounds.
LEMMA TypeStep ==
    ASSUME Shapes, Bounds, [WatchNext]_vars
    PROVE  Shapes' /\ Bounds'
  <1>1. CASE CloseManager \/ UNCHANGED vars
    BY <1>1 DEF CloseManager, vars, tree, calls, backends, timers, Shapes, Bounds
  <1> QED
    BY <1>1, KernelTypes, BackendTypes, CallTypes, LoopTypes DEF WatchNext, Disturbance, Work

(***************************************************************************)
(* One loop, and no backend without one                                    *)
(***************************************************************************)

Registered == Shapes /\ Stages /\ OneLoop /\ NoBackendLeaks

\* A call starts a backend and hands it to a loop or closes it.
LEMMA CallStages ==
    ASSUME Registered, NEW c \in Calls, CallStep(c)
    PROVE  (Stages /\ OneLoop /\ NoBackendLeaks)'
  <1> USE DEF Registered, Shapes, Stages, OneLoop, NoBackendLeaks, Alive
  <1>1. CASE CheckFirst(c)
    BY <1>1 DEF CheckFirst, backends, Set
  <1>2. CASE StartBackend(c)
    <2>1. /\ call[c] = "checked" /\ UNCHANGED <<closed, owner, loop>>
          /\ \A b \in Calls : b # c => /\ call'[b] = call[b] /\ backend'[b] = backend[b]
                                       /\ b \in listening' <=> b \in listening
      BY <1>2 DEF StartBackend, Set
    <2>2. \/ call'[c] = "started" /\ backend'[c] = "open"
          \/ /\ call'[c] \in {"exhausted", "returned"} /\ backend'[c] = "closed"
             /\ listening' = listening
      BY <1>2 DEF StartBackend, Set
    <2>3. owner # c /\ loop[c] = "none" /\ backend[c] = "none" /\ c \notin listening
      BY <2>1
    <2>4. ASSUME NEW b \in Calls, b # c
          PROVE  /\ UNCHANGED <<call[b], backend[b], loop[b], owner, closed>>
                 /\ b \in listening' <=> b \in listening
      BY <2>1, <2>4
    <2>5. Stages'
      <3>1. /\ call'[c] \in {"started", "exhausted", "returned"}
            /\ call'[c] = "exhausted" => backend'[c] = "closed"
            /\ loop'[c] = "none" /\ owner' # c
            /\ c \in listening' => backend'[c] = "open"
        BY <2>1, <2>2, <2>3
      <3> QED
        BY <2>4, <3>1
    <2>6. OneLoop'
      BY <2>1, <2>3
    <2>7. ASSUME NEW b \in Calls, backend'[b] = "open"
          PROVE  call'[b] = "started" \/ Alive(b)'
      <3>1. CASE b = c
        BY <2>2, <2>7, <3>1
      <3>2. CASE b # c
        BY <2>4, <2>7, <3>2
      <3> QED
        BY <3>1, <3>2
    <2> QED
      BY <2>5, <2>6, <2>7
  <1>3. CASE Register(c)
    BY <1>3, WatchAssumption DEF Register, backends, Set
  <1>4. CASE RegisterLost(c)
    <2>1. owner # c /\ ~Alive(c)
      BY <1>4 DEF RegisterLost
    <2>2. /\ UNCHANGED <<closed, owner, loop>> /\ call'[c] = "returned"
          /\ listening' = listening \ {c} /\ backend'[c] # "open"
          /\ \A b \in Calls : b # c => call'[b] = call[b] /\ backend'[b] = backend[b]
      BY <1>4, Closed DEF RegisterLost, Set
    <2>3. Stages'
      BY <2>1, <2>2
    <2>4. OneLoop' /\ NoBackendLeaks'
      BY <2>1, <2>2
    <2> QED
      BY <2>3, <2>4
  <1> QED
    BY <1>1, <1>2, <1>3, <1>4 DEF CallStep

\* A loop that ends closes its backend and leaves the worktree, or the manager
\* is closed.
LEMMA LoopStages ==
    ASSUME Registered, NEW c \in Calls,
           \/ LoopStep(c) \/ SafetyFires(c) \/ PassFails(c)
           \/ \E timer \in {"quiet", "maxLt", "poll"} : Elapse(c, timer)
    PROVE  (Stages /\ OneLoop /\ NoBackendLeaks)'
  <1> USE DEF Registered, Shapes, Stages, OneLoop, NoBackendLeaks, Alive
  <1>1. CASE LoopEnds(c)
    BY <1>1, Closed DEF LoopEnds, Selecting, End, Set, calls
  <1>2. CASE ReceiveError(c) /\ End(c) /\ owner' = Nobody
    BY <1>2, Closed, WatchAssumption DEF ReceiveError, Selecting, End, Set, calls
  <1>3. CASE ReceiveError(c) /\ CloseBackend(c) /\ UNCHANGED <<owner, loop>>
    BY <1>3, Closed DEF ReceiveError, Selecting, Set, calls
  <1>4. CASE ReceiveError(c) /\ UNCHANGED <<owner, loop, backend, listening>>
    BY <1>4 DEF ReceiveError
  <1>5. ReceiveError(c) => \/ End(c) /\ owner' = Nobody
                           \/ CloseBackend(c) /\ UNCHANGED <<owner, loop>>
                           \/ UNCHANGED <<owner, loop, backend, listening>>
    BY DEF ReceiveError
  <1>6. CASE ~LoopEnds(c) /\ ~ReceiveError(c)
    <2>1. /\ UNCHANGED <<calls, backend, listening>>
          /\ \A b \in Calls : b # c => loop'[b] = loop[b]
      BY <1>6 DEF LoopStep, ReceiveHint, DebounceFires, PollFires, PassReads, PassEnds,
         SafetyFires,
         PassFails, Elapse, Fire, Set, backends
    <2>2. loop'[c] = loop[c] \/ (Alive(c) /\ loop'[c] \in {"select", "pass", "read"})
      BY <1>6 DEF LoopStep, ReceiveHint, DebounceFires, PollFires, PassReads, PassEnds,
         SafetyFires,
         PassFails, Elapse, Fire, Set, Selecting
    <2>3. UNCHANGED <<closed, owner, call, backend, listening>>
      BY <2>1 DEF calls
    <2>4. \A b \in Calls : loop'[b] = loop[b] \/ (Alive(b) /\ loop'[b] \in {"select", "pass", "read"})
      BY <2>1, <2>2
    <2>5. Stages'
      BY <2>3, <2>4
    <2>6. OneLoop' /\ NoBackendLeaks'
      BY <2>3, <2>4
    <2> QED
      BY <2>5, <2>6
  <1> QED
    BY <1>1, <1>2, <1>3, <1>4, <1>5, <1>6

\* Every step leaves one loop and no backend without one.
LEMMA StageStep ==
    ASSUME Registered, [WatchNext]_vars
    PROVE  (Stages /\ OneLoop /\ NoBackendLeaks)'
  <1>1. ASSUME UNCHANGED <<closed, owner, call, backend, loop>>, listening' \subseteq listening
        PROVE  (Stages /\ OneLoop /\ NoBackendLeaks)'
    BY <1>1 DEF Registered, Stages, OneLoop, NoBackendLeaks, Alive
  <1>2. CASE Change \/ RemoveRoot \/ UNCHANGED vars
    BY <1>1, <1>2 DEF Change, RemoveRoot, vars, calls, backends
  <1>3. ASSUME NEW c \in Calls, BackendStep(c) \/ OtherError(c)
        PROVE  (Stages /\ OneLoop /\ NoBackendLeaks)'
    BY <1>1, <1>3 DEF BackendStep, Translate, TranslateOverflow, NoticeGone, OtherError,
       StopsListening, calls
  <1>4. CASE CloseManager
    BY <1>4 DEF CloseManager, backends, Registered, Stages, OneLoop, NoBackendLeaks, Alive
  <1> QED
    BY <1>2, <1>3, <1>4, CallStages, LoopStages DEF WatchNext, Disturbance, Work

(***************************************************************************)
(* A change is on its way                                                  *)
(***************************************************************************)

Signalled == GoneIsGone /\ OwnerHears /\ EarlyIsEarly /\ ChangeSignalled

Telling == Error \ {"other"}

\* What will bring the loop of c to a pass.
OnItsWay(c) == \/ kernel[c] # "nothing" \/ hints[c] \/ dirty[c] \/ loop[c] = "pass"
               \/ PollMode(c) \/ c \in dropped \/ Pending(c, Telling)

\* ChangeSignalled says that it is.
LEMMA Telltale ==
    ASSUME Shapes
    PROVE  ChangeSignalled <=> (unseen /\ root /\ ~early /\ ~closed /\ owner # Nobody => OnItsWay(owner))
  <1>1. ASSUME NEW c \in Calls
        PROVE  (\E i \in DOMAIN errs[c] : errs[c][i] # "other") <=> Pending(c, Telling)
    <2>1. \A i \in DOMAIN errs[c] : errs[c][i] \in Error
      BY DEF Shapes
    <2> QED
      BY <2>1 DEF Pending, Telling
  <1>2. owner # Nobody => owner \in Calls
    BY DEF Shapes
  <1>3. CASE owner = Nobody
    BY <1>3 DEF ChangeSignalled
  <1>4. CASE owner # Nobody
    BY <1>1, <1>2, <1>4 DEF ChangeSignalled, OnItsWay
  <1> QED
    BY <1>3, <1>4

\* A step that loses no signal of the owner.
LEMMA SignalFrame ==
    ASSUME WatchInv, Shapes', UNCHANGED <<root, unseen, early, closed, owner>>,
           \A c \in Calls : call'[c] = "started" => call[c] = "started",
           \A c \in Calls : (call'[c] = "started" \/ owner = c) /\ Hears(c) => Hears(c)',
           \A c \in Calls : owner = c /\ OnItsWay(c) => OnItsWay(c)',
           \A c \in Calls : (kernel[c] = "gone" \/ Pending(c, {"gone"}))'
                               => kernel[c] = "gone" \/ Pending(c, {"gone"}) \/ ~root
    PROVE  Signalled'
  <1> USE DEF WatchInv
  <1>1. GoneIsGone' /\ OwnerHears' /\ EarlyIsEarly'
    BY DEF GoneIsGone, OwnerHears, EarlyIsEarly
  <1>2. owner = Nobody \/ owner \in Calls
    BY DEF Shapes
  <1>3. (unseen /\ root /\ ~early /\ ~closed /\ owner # Nobody => OnItsWay(owner))'
    BY <1>2, Telltale
  <1>4. ChangeSignalled'
    <2>1. Shapes' => (ChangeSignalled <=>
              (unseen /\ root /\ ~early /\ ~closed /\ owner # Nobody => OnItsWay(owner)))'
      BY Telltale, PTL
    <2> QED
      BY <1>3, <2>1
  <1> QED
    BY <1>1, <1>4 DEF Signalled

\* A sender leaves its error or is noted as having lost it.
LEMMA BackendSignals ==
    ASSUME WatchInv, Shapes', NEW c \in Calls, BackendStep(c) \/ OtherError(c)
    PROVE  Signalled'
  <1> USE DEF WatchInv
  <1>1. UNCHANGED <<tree, calls, loop, timers>>
    BY DEF BackendStep, Translate, TranslateOverflow, NoticeGone, OtherError
  <1>2. \/ UNCHANGED <<errs, dropped>> /\ hints'[c] /\ listening' = listening
        \/ \E e \in Error : /\ SendErr(c, e)
                            /\ \/ e \in {"exhausted", "gone"}
                               \/ e = "overflow" /\ listening' = listening
                               \/ e = "other" /\ UNCHANGED <<listening, kernel>>
                            /\ e = "gone" => kernel[c] = "gone" \/ ~root
    BY DEF BackendStep, Translate, TranslateOverflow, NoticeGone, OtherError, Error, Set, Shapes
  <1>3. /\ \A b \in Calls : b # c => /\ kernel'[b] = kernel[b] /\ hints'[b] = hints[b]
                                     /\ b \in listening => b \in listening'
        /\ hints[c] => hints'[c]
        /\ kernel'[c] = "gone" => kernel[c] = "gone"
    BY DEF BackendStep, Translate, TranslateOverflow, NoticeGone, OtherError, StopsListening,
       Set, Shapes
  <1>4. CASE UNCHANGED <<errs, dropped>> /\ hints'[c] /\ listening' = listening
    BY <1>1, <1>3, <1>4, SignalFrame DEF tree, calls, timers, Hears, OnItsWay, Pending, PollMode
  <1>5. ASSUME NEW e \in Error, SendErr(c, e),
               \/ e \in {"exhausted", "gone"}
               \/ e = "overflow" /\ listening' = listening
               \/ e = "other" /\ UNCHANGED <<listening, kernel>>,
               e = "gone" => kernel[c] = "gone" \/ ~root
        PROVE  Signalled'
    <2>1. /\ \A b \in Calls : b # c => errs'[b] = errs[b]
          /\ dropped \subseteq dropped'
          /\ \A kinds : Pending(c, kinds) => Pending(c, kinds)'
          /\ \A kinds : Pending(c, kinds)' => Pending(c, kinds) \/ e \in kinds
          /\ c \in dropped' \/ \A kinds : e \in kinds => Pending(c, kinds)'
      BY <1>5, Sent
    <2>2. ASSUME NEW b \in Calls, b # c
          PROVE  /\ Hears(b) => Hears(b)'
                 /\ OnItsWay(b) => OnItsWay(b)'
                 /\ (kernel[b] = "gone" \/ Pending(b, {"gone"}))'
                       => kernel[b] = "gone" \/ Pending(b, {"gone"}) \/ ~root
      BY <1>1, <1>3, <2>1, <2>2 DEF Hears, OnItsWay, Pending, PollMode, tree, calls, timers
    <2>3. Hears(c) => Hears(c)'
      BY <1>1, <1>5, <2>1 DEF Hears, PollMode, timers
    <2>4. OnItsWay(c) => OnItsWay(c)'
      <3>1. CASE e = "other"
        BY <1>1, <1>3, <1>5, <2>1, <3>1 DEF OnItsWay, PollMode, timers
      <3>2. CASE e # "other"
        BY <2>1, <3>2 DEF OnItsWay, Telling
      <3> QED
        BY <3>1, <3>2
    <2>5. (kernel[c] = "gone" \/ Pending(c, {"gone"}))'
              => kernel[c] = "gone" \/ Pending(c, {"gone"}) \/ ~root
      BY <1>3, <1>5, <2>1
    <2>6. UNCHANGED <<root, unseen, early, closed, owner, call>>
      BY <1>1 DEF tree, calls
    <2>7. \A b \in Calls : call'[b] = "started" => call[b] = "started"
      BY <2>6
    <2>8. \A b \in Calls : (call'[b] = "started" \/ owner = b) /\ Hears(b) => Hears(b)'
      BY <2>2, <2>3
    <2>9. \A b \in Calls : owner = b /\ OnItsWay(b) => OnItsWay(b)'
      BY <2>2, <2>4
    <2>10. \A b \in Calls : (kernel[b] = "gone" \/ Pending(b, {"gone"}))'
                               => kernel[b] = "gone" \/ Pending(b, {"gone"}) \/ ~root
      BY <2>2, <2>5
    <2> QED
      BY <2>6, <2>7, <2>8, <2>9, <2>10, SignalFrame
  <1> QED
    BY <1>2, <1>4, <1>5

\* A step of one call that loses no signal.
LEMMA LocalFrame ==
    ASSUME WatchInv, Shapes', NEW c \in Calls, UNCHANGED <<root, unseen, early, closed, owner>>,
           \A b \in Calls : b # c =>
              /\ UNCHANGED <<call[b], kernel[b], hints[b], errs[b], loop[b], dirty[b], poll[b]>>
              /\ b \in listening => b \in listening',
           dropped \subseteq dropped',
           call'[c] = "started" => call[c] = "started",
           (call'[c] = "started" \/ owner = c) /\ Hears(c) => Hears(c)',
           owner = c /\ OnItsWay(c) => OnItsWay(c)',
           (kernel[c] = "gone" \/ Pending(c, {"gone"}))'
               => kernel[c] = "gone" \/ Pending(c, {"gone"}) \/ ~root
    PROVE  Signalled'
  <1>1. ASSUME NEW b \in Calls, b # c
        PROVE  /\ Hears(b) => Hears(b)'
               /\ OnItsWay(b) => OnItsWay(b)'
               /\ (kernel[b] = "gone" \/ Pending(b, {"gone"}))'
                     => kernel[b] = "gone" \/ Pending(b, {"gone"})
    BY <1>1 DEF Hears, OnItsWay, Pending, PollMode
  <1>2. \A b \in Calls : call'[b] = "started" => call[b] = "started"
    OBVIOUS
  <1>3. \A b \in Calls : (call'[b] = "started" \/ owner = b) /\ Hears(b) => Hears(b)'
    BY <1>1
  <1>4. \A b \in Calls : owner = b /\ OnItsWay(b) => OnItsWay(b)'
    BY <1>1
  <1>5. \A b \in Calls : (kernel[b] = "gone" \/ Pending(b, {"gone"}))'
                            => kernel[b] = "gone" \/ Pending(b, {"gone"}) \/ ~root
    BY <1>1
  <1> QED
    BY <1>2, <1>3, <1>4, <1>5, SignalFrame

\* What one select of the loop takes, it passes on.
LEMMA SelectSignals ==
    ASSUME WatchInv, Shapes', NEW c \in Calls,
           \/ ReceiveHint(c) \/ DebounceFires(c) \/ SafetyFires(c) \/ PollFires(c) \/ PassEnds(c)
           \/ \E timer \in {"quiet", "maxLt", "poll"} : Elapse(c, timer)
    PROVE  Signalled'
  <1> USE DEF WatchInv
  <1>1. /\ UNCHANGED <<tree, calls, listening, kernel, errs, dropped>>
        /\ \A b \in Calls : b # c => UNCHANGED <<hints[b], loop[b], dirty[b], poll[b]>>
    BY DEF ReceiveHint, DebounceFires, SafetyFires, PollFires, PassEnds, Elapse, Arm, Fire, Set,
       backends, timers, Shapes
  <1>2. PollMode(c) => PollMode(c)'
    BY DEF ReceiveHint, DebounceFires, SafetyFires, PollFires, PassEnds, Elapse, Arm, Fire, Set,
       backends, timers, Shapes, PollMode
  <1>3. \/ dirty'[c] \/ loop'[c] = "pass"
        \/ UNCHANGED <<hints[c], dirty[c]>> /\ (loop[c] = "pass" => loop'[c] = "pass")
    BY DEF ReceiveHint, DebounceFires, SafetyFires, PollFires, PassEnds, Elapse, Arm, Fire, Set,
       backends, timers, Shapes
  <1>4. /\ Hears(c) => Hears(c)'
        /\ OnItsWay(c) => OnItsWay(c)'
        /\ (kernel[c] = "gone" \/ Pending(c, {"gone"}))' => kernel[c] = "gone" \/ Pending(c, {"gone"})
    BY <1>1, <1>2, <1>3 DEF Hears, OnItsWay, Pending
  <1> QED
    BY <1>1, <1>4, LocalFrame DEF tree, calls

\* A registration that looks or loses has no watch that is heard.
LEMMA LoserSignals ==
    ASSUME WatchInv, Shapes', NEW c \in Calls, CheckFirst(c) \/ RegisterLost(c)
    PROVE  Signalled'
  <1> USE DEF WatchInv
  <1>1. /\ owner # c /\ call'[c] # "started"
        /\ UNCHANGED <<tree, closed, owner, loop, timers, dropped>>
        /\ \A b \in Calls : b # c => call'[b] = call[b]
    BY DEF CheckFirst, RegisterLost, Set, backends, Shapes, Stages
  <1>2. CASE CheckFirst(c)
    <2>1. UNCHANGED backends
      BY <1>2 DEF CheckFirst
    <2> QED
      BY <1>1, <2>1, LocalFrame DEF tree, timers, backends, Pending
  <1>3. CASE RegisterLost(c)
    <2>1. CloseBackend(c)
      BY <1>3 DEF RegisterLost
    <2>2. /\ \A b \in Calls : b # c => /\ kernel'[b] = kernel[b] /\ hints'[b] = hints[b]
                                       /\ errs'[b] = errs[b]
          /\ listening' = listening \ {c} /\ kernel'[c] = "nothing" /\ ~Pending(c, {"gone"})'
      BY <2>1, Closed
    <2> QED
      BY <1>1, <2>2, LocalFrame DEF tree, timers
  <1> QED
    BY <1>2, <1>3

\* An error that the loop reads makes it dirty or has it poll.
LEMMA ErrorSignals ==
    ASSUME WatchInv, Shapes', NEW c \in Calls, ReceiveError(c), owner' = owner
    PROVE  Signalled'
  <1> USE DEF WatchInv
  <1>1. errs[c] # <<>> /\ loop[c] = "select" /\ owner = c /\ owner # Nobody
    BY WatchAssumption DEF ReceiveError, Selecting, OneLoop, Alive
  <1>2. UNCHANGED <<tree, calls, dropped, loop>>
    BY <1>1 DEF ReceiveError, calls
  <1>3. CASE Head(errs[c]) = "exhausted"
    <2>1. CloseBackend(c) /\ poll' = Set(poll, c, "armed") /\ UNCHANGED <<dirty, quiet, maxLt>>
      BY <1>3 DEF ReceiveError
    <2>2. /\ \A b \in Calls : b # c => /\ kernel'[b] = kernel[b] /\ hints'[b] = hints[b]
                                       /\ errs'[b] = errs[b] /\ poll'[b] = poll[b]
          /\ listening' = listening \ {c} /\ kernel'[c] = "nothing" /\ ~Pending(c, {"gone"})'
      BY <2>1, Closed DEF Set, Shapes
    <2>3. PollMode(c)'
      BY <2>1 DEF PollMode, Set, Shapes
    <2>4. Hears(c)' /\ OnItsWay(c)'
      BY <2>3 DEF Hears, OnItsWay
    <2> QED
      BY <1>2, <2>1, <2>2, <2>4, LocalFrame DEF tree, calls
  <1>4. CASE Head(errs[c]) \in {"overflow", "other"}
    <2>1. errs' = [errs EXCEPT ![c] = Tail(@)] /\ UNCHANGED <<listening, kernel, hints, poll>>
      BY <1>4 DEF ReceiveError, Arm, timers
    <2>2. /\ \A b \in Calls : b # c => errs'[b] = errs[b]
          /\ \A kinds : Pending(c, kinds)' => Pending(c, kinds)
          /\ \A kinds : Pending(c, kinds) => Head(errs[c]) \in kinds \/ Pending(c, kinds)'
      BY <1>1, <2>1, Received
    <2>3. /\ \A b \in Calls : b # c => dirty'[b] = dirty[b]
          /\ dirty[c] => dirty'[c]
          /\ Head(errs[c]) = "overflow" => dirty'[c]
      BY <1>4 DEF ReceiveError, Arm, Set, timers, Shapes
    <2>4. Hears(c) => Hears(c)'
      BY <1>2, <1>4, <2>1, <2>2 DEF Hears, PollMode
    <2>5. OnItsWay(c) => OnItsWay(c)'
      BY <1>2, <1>4, <2>1, <2>2, <2>3 DEF OnItsWay, PollMode, Telling
    <2> QED
      BY <1>2, <2>1, <2>2, <2>3, <2>4, <2>5, LocalFrame DEF tree, calls
  <1> QED
    BY <1>1, <1>3, <1>4 DEF ReceiveError

\* Queues: who listens has something in its kernel's queue, an event of the
\* root only when the root has gone.
LEMMA Queued ==
    ASSUME Shapes, NEW e \in {"event", "gone"}, NEW k \in [Calls -> Held], Queues(e, k)
    PROVE  /\ \A c \in listening : k[c] # "nothing"
           /\ \A c \in Calls : kernel[c] # "nothing" => k[c] # "nothing"
           /\ \A c \in Calls : k[c] = "gone" => e = "gone" \/ kernel[c] = "gone"
  BY DEF Queues, Shapes

\* A change reaches the queue of an owner that listens; another owner polls.
LEMMA ChangeIsQueued ==
    ASSUME WatchInv, Shapes', Change
    PROVE  Signalled'
  <1> USE DEF WatchInv
  <1>1. /\ root /\ UNCHANGED <<root, closed, owner, call, backend, listening, hints, errs, dropped, loop, timers>>
        /\ early' = ((early /\ unseen) \/ owner = Nobody)
    BY DEF Change
  <1>2. /\ \A c \in listening : kernel'[c] # "nothing"
        /\ \A c \in Calls : kernel'[c] = "gone" => kernel[c] = "gone"
    BY Queued DEF Change
  <1>3. GoneIsGone' /\ OwnerHears' /\ EarlyIsEarly'
    BY <1>1, <1>2 DEF GoneIsGone, OwnerHears, EarlyIsEarly, Hears, Pending, PollMode, timers
  <1>4. ASSUME owner # Nobody, ~closed
        PROVE  OnItsWay(owner)'
    <2>1. owner \in Calls /\ Hears(owner)
      BY <1>4 DEF Shapes, OwnerHears
    <2> QED
      BY <1>1, <1>2, <2>1 DEF Hears, OnItsWay, Pending, PollMode, timers, Telling, Error
  <1>5. (unseen /\ root /\ ~early /\ ~closed /\ owner # Nobody => OnItsWay(owner))'
    BY <1>1, <1>4
  <1>6. Shapes' => (ChangeSignalled <=>
            (unseen /\ root /\ ~early /\ ~closed /\ owner # Nobody => OnItsWay(owner)))'
    BY Telltale, PTL
  <1> QED
    BY <1>3, <1>5, <1>6 DEF Signalled

\* Steps after which nothing is to be signalled, the owner's loop aside.
LEMMA SilentStep ==
    ASSUME WatchInv, Shapes', ~root' \/ ~unseen' \/ early' \/ closed' \/ owner' = Nobody,
           GoneIsGone', OwnerHears', EarlyIsEarly'
    PROVE  Signalled'
  <1>1. (unseen /\ root /\ ~early /\ ~closed /\ owner # Nobody => OnItsWay(owner))'
    OBVIOUS
  <1>2. Shapes' => (ChangeSignalled <=>
            (unseen /\ root /\ ~early /\ ~closed /\ owner # Nobody => OnItsWay(owner)))'
    BY Telltale, PTL
  <1> QED
    BY <1>1, <1>2 DEF Signalled

\* The root goes, the manager closes, a pass reads.
LEMMA SilentSteps ==
    ASSUME WatchInv, Shapes', RemoveRoot \/ CloseManager \/ \E c \in Calls : PassReads(c)
    PROVE  Signalled'
  <1> USE DEF WatchInv
  <1>1. CASE RemoveRoot
    <2>1. ~root' /\ UNCHANGED <<listening, call, owner, closed, poll, errs>> /\ dropped \subseteq dropped'
      BY <1>1 DEF RemoveRoot, calls, timers
    <2>2. GoneIsGone' /\ OwnerHears' /\ EarlyIsEarly'
      BY <2>1 DEF GoneIsGone, OwnerHears, EarlyIsEarly, Hears, PollMode, Pending
    <2> QED
      BY <2>1, <2>2, SilentStep
  <1>2. CASE CloseManager
    <2>1. closed' /\ UNCHANGED <<tree, owner, call, backends, loop, timers>>
      BY <1>2 DEF CloseManager
    <2>2. GoneIsGone' /\ OwnerHears' /\ EarlyIsEarly'
      BY <2>1 DEF GoneIsGone, OwnerHears, EarlyIsEarly, Hears, PollMode, Pending, tree,
         backends, timers
    <2> QED
      BY <2>1, <2>2, SilentStep
  <1>3. CASE \E c \in Calls : PassReads(c)
    <2>1. ~unseen' /\ root' = root /\ UNCHANGED <<calls, backends, timers>>
      BY <1>3 DEF PassReads
    <2>2. GoneIsGone' /\ OwnerHears' /\ EarlyIsEarly'
      BY <2>1 DEF GoneIsGone, OwnerHears, EarlyIsEarly, Hears, PollMode, Pending, calls,
         backends, timers
    <2> QED
      BY <2>1, <2>2, SilentStep
  <1> QED
    BY <1>1, <1>2, <1>3

\* A backend that starts listens.
LEMMA StartSignals ==
    ASSUME WatchInv, Shapes', NEW c \in Calls, StartBackend(c)
    PROVE  Signalled'
  <1> USE DEF WatchInv
  <1>1. /\ UNCHANGED <<tree, closed, owner, kernel, hints, errs, dropped, loop, timers>>
        /\ owner # c /\ listening \subseteq listening'
        /\ \A b \in Calls : b # c => call'[b] = call[b]
        /\ call'[c] = "started" => c \in listening'
    BY DEF StartBackend, Set, Shapes, Stages
  <1>2. GoneIsGone' /\ OwnerHears' /\ EarlyIsEarly'
    BY <1>1 DEF GoneIsGone, OwnerHears, EarlyIsEarly, Hears, PollMode, Pending, tree, timers
  <1>3. owner = Nobody \/ owner \in Calls
    BY DEF Shapes
  <1>4. (unseen /\ root /\ ~early /\ ~closed /\ owner # Nobody => OnItsWay(owner))'
    <2>1. unseen /\ root /\ ~early /\ ~closed /\ owner # Nobody => OnItsWay(owner)
      BY Telltale
    <2> QED
      BY <1>1, <1>3, <2>1 DEF OnItsWay, PollMode, Pending, tree, timers
  <1>5. Shapes' => (ChangeSignalled <=>
            (unseen /\ root /\ ~early /\ ~closed /\ owner # Nobody => OnItsWay(owner)))'
    BY Telltale, PTL
  <1> QED
    BY <1>2, <1>4, <1>5 DEF Signalled

\* A call registers with a backend that is heard, or it polls; what nobody
\* watched it leaves to its first pass.
LEMMA RegisterSignals ==
    ASSUME WatchInv, Shapes', NEW c \in Calls, Register(c)
    PROVE  Signalled'
  <1> USE DEF WatchInv
  <1>1. /\ UNCHANGED <<tree, closed, backends>> /\ owner = Nobody /\ owner' = c /\ c # Nobody
        /\ \A b \in Calls : call'[b] = "started" => call[b] = "started"
        /\ \A b \in Calls : PollMode(b) => PollMode(b)'
        /\ call[c] = "started" \/ PollMode(c)'
    BY WatchAssumption DEF Register, Set, Shapes, PollMode, Timer
  <1>2. \A b \in Calls : call[b] = "started" => Hears(b)
    BY DEF OwnerHears
  <1>3. ASSUME NEW b \in Calls, call[b] = "started" \/ PollMode(b)'
        PROVE  Hears(b)'
    BY <1>1, <1>2, <1>3 DEF Hears, Pending, backends
  <1>4. OwnerHears'
    BY <1>1, <1>3 DEF OwnerHears
  <1>5. GoneIsGone' /\ EarlyIsEarly'
    BY <1>1 DEF GoneIsGone, EarlyIsEarly, Pending, backends, tree
  <1>6. ~root' \/ ~unseen' \/ early'
    BY <1>1 DEF EarlyIsEarly, tree
  <1> QED
    BY <1>4, <1>5, <1>6, SilentStep

\* A pass that fails leaves its loop dirty.
LEMMA FailureSignals ==
    ASSUME WatchInv, Shapes', NEW c \in Calls, PassFails(c)
    PROVE  Signalled'
  <1> USE DEF WatchInv
  <1>1. /\ UNCHANGED <<root, early, calls, backends, maxLt, poll>> /\ owner = c /\ owner # Nobody
        /\ closed \/ dirty'[c]
    BY WatchAssumption DEF PassFails, OneLoop, Alive, Set, Shapes
  <1>2. GoneIsGone' /\ OwnerHears' /\ EarlyIsEarly'
    BY <1>1 DEF GoneIsGone, OwnerHears, EarlyIsEarly, Hears, PollMode, Pending, calls, backends
  <1>3. (unseen /\ root /\ ~early /\ ~closed /\ owner # Nobody => OnItsWay(owner))'
    BY <1>1 DEF OnItsWay, calls
  <1>4. Shapes' => (ChangeSignalled <=>
            (unseen /\ root /\ ~early /\ ~closed /\ owner # Nobody => OnItsWay(owner)))'
    BY Telltale, PTL
  <1> QED
    BY <1>2, <1>3, <1>4 DEF Signalled

\* A loop ends when the manager is closed or the root has gone.
LEMMA EndSignals ==
    ASSUME WatchInv, Shapes', NEW c \in Calls,
           LoopEnds(c) \/ (ReceiveError(c) /\ owner' # owner)
    PROVE  Signalled'
  <1> USE DEF WatchInv
  <1>1. /\ UNCHANGED <<tree, closed, call, dropped>> /\ End(c) /\ owner = c /\ owner' \in {owner, Nobody}
        /\ c # Nobody
        /\ \/ closed /\ owner' = owner
           \/ owner' = Nobody /\ errs[c] # <<>> /\ Head(errs[c]) = "gone"
    BY WatchAssumption DEF LoopEnds, ReceiveError, Selecting, OneLoop, Alive, calls
  <1>2. /\ \A b \in Calls : b # c => kernel'[b] = kernel[b] /\ errs'[b] = errs[b]
        /\ listening' = listening \ {c} /\ kernel'[c] = "nothing" /\ ~Pending(c, {"gone"})'
        /\ \A b \in Calls : b # c => poll'[b] = poll[b]
    BY <1>1, Closed DEF End, Set, Shapes
  <1>3. (closed /\ owner' = owner) \/ ~root
    <2>1. ASSUME errs[c] # <<>>, Head(errs[c]) = "gone"
          PROVE  ~root
      <3>1. 1 \in DOMAIN errs[c] /\ errs[c][1] = "gone"
        BY <2>1 DEF Shapes
      <3> QED
        BY <3>1 DEF GoneIsGone, Pending
    <2> QED
      BY <1>1, <2>1
  <1>4. call[c] # "started" /\ (closed' \/ owner' = Nobody)
    BY <1>1 DEF Stages
  <1>5. GoneIsGone'
    BY <1>1, <1>2 DEF GoneIsGone, Pending, tree
  <1>6. OwnerHears'
    <2>1. ASSUME NEW b \in Calls, b # c, Hears(b)
          PROVE  Hears(b)'
      BY <1>1, <1>2, <2>1 DEF Hears, Pending, PollMode
    <2> QED
      BY <1>1, <1>4, <2>1, WatchAssumption DEF OwnerHears
  <1>7. EarlyIsEarly'
    BY <1>1, <1>3, WatchAssumption DEF EarlyIsEarly, tree
  <1> QED
    BY <1>1, <1>3, <1>5, <1>6, <1>7, SilentStep DEF tree

(***************************************************************************)
(* The theorems                                                            *)
(***************************************************************************)

LEMMA SignalStep ==
    ASSUME WatchInv, Shapes', [WatchNext]_vars
    PROVE  Signalled'
  <1>1. CASE UNCHANGED vars
    <2>1. Signalled
      BY DEF WatchInv, Signalled
    <2> QED
      BY <1>1, <2>1 DEF vars, tree, calls, backends, timers, Signalled, GoneIsGone, OwnerHears,
         EarlyIsEarly,
         ChangeSignalled, Hears, PollMode, Pending
  <1>2. ASSUME NEW c \in Calls, ReceiveError(c)
        PROVE  Signalled'
    BY <1>2, ErrorSignals, EndSignals
  <1>3. ASSUME NEW c \in Calls, CallStep(c)
        PROVE  Signalled'
    BY <1>3, LoserSignals, StartSignals, RegisterSignals DEF CallStep
  <1>4. ASSUME NEW c \in Calls, LoopStep(c)
        PROVE  Signalled'
    BY <1>2, <1>4, SelectSignals, SilentSteps, EndSignals DEF LoopStep
  <1>5. CASE Disturbance
    BY <1>5, ChangeIsQueued, BackendSignals, SelectSignals, FailureSignals DEF Disturbance
  <1>6. CASE Work
    BY <1>3, <1>4, <1>6, SilentSteps, BackendSignals, SelectSignals DEF Work
  <1> QED
    BY <1>1, <1>5, <1>6 DEF WatchNext

LEMMA WatchInvariant == WatchSpec => []WatchInv
  <1>1. WatchInit => WatchInv
    <2> SUFFICES ASSUME WatchInit PROVE WatchInv
      OBVIOUS
    <2>1. Shapes /\ Bounds /\ Stages /\ OneLoop /\ NoBackendLeaks
      <3>1. <<>> \in Seq(Error) /\ Len(<<>>) = 0
        OBVIOUS
      <3>2. Shapes
        BY <3>1 DEF WatchInit, Shapes, Held, Timer
      <3>3. Bounds
        BY <3>1, WatchAssumption DEF WatchInit, Bounds
      <3>4. Stages /\ OneLoop /\ NoBackendLeaks
        BY WatchAssumption DEF WatchInit, Stages, OneLoop, NoBackendLeaks, Alive
      <3> QED
        BY <3>2, <3>3, <3>4
    <2>2. GoneIsGone /\ OwnerHears /\ EarlyIsEarly /\ ChangeSignalled
      BY WatchAssumption DEF WatchInit, GoneIsGone, OwnerHears, EarlyIsEarly, ChangeSignalled,
         Pending
    <2> QED
      BY <2>1, <2>2 DEF WatchInv
  <1>2. WatchInv /\ [WatchNext]_vars => WatchInv'
    <2> SUFFICES ASSUME WatchInv, [WatchNext]_vars PROVE WatchInv'
      OBVIOUS
    <2>1. Shapes' /\ Bounds'
      BY TypeStep DEF WatchInv
    <2>2. (Stages /\ OneLoop /\ NoBackendLeaks)'
      BY StageStep DEF WatchInv, Registered
    <2>3. Signalled'
      BY <2>1, SignalStep
    <2> QED
      BY <2>1, <2>2, <2>3 DEF WatchInv, Signalled
  <1> QED
    BY <1>1, <1>2, PTL DEF WatchSpec

\* However registrations race, one loop at most is alive and it is the
\* registered one, a loser closes its backend, and channels and timers stay
\* within their bounds (Manager.Watch, Close, loop).
THEOREM RacesAreSettled == WatchSpec => []RacesLeaveOneLoop
  <1>1. WatchInv => RacesLeaveOneLoop
    BY DEF WatchInv, RacesLeaveOneLoop, WatchTypeOK, Shapes, Bounds, Stages
  <1> QED
    BY <1>1, WatchInvariant, PTL

\* A change that no pass has read is on its way to one, through the kernel's
\* queue, the channels, the timers, a pass that failed and the fall back to
\* polling, unless the one error that told of it was dropped (fsBackend.run,
\* Manager.loop).
THEOREM ChangesAreSignalled == WatchSpec => []ChangeSignalled
  <1>1. WatchInv => ChangeSignalled
    BY DEF WatchInv
  <1> QED
    BY <1>1, WatchInvariant, PTL
=============================================================================
