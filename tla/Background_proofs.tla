-------------------------- MODULE Background_proofs --------------------------
(***************************************************************************)
(* The safety properties of the supervisor and of the background process,  *)
(* for any worktrees, sessions, starts and kills.                          *)
(***************************************************************************)
EXTENDS Background, TLAPS

(***************************************************************************)
(* The supervisor                                                          *)
(***************************************************************************)

\* A session that runs is the one its handle is about ...
RunningIsCurrent == \A s \in sessions : Current(s)

\* ... and what has ended is older than what runs.
EndedIsPast ==
    /\ \A m \in results : m.gen <= generation[m.root]
    /\ \A m \in results, s \in sessions : s.root = m.root => m.gen < s.gen

\* Whoever has a handle will be heard of.
ManagedIsAlive ==
    phase = "serve" => \A r \in Roots : Managed(r) => Heard(r)

HandlesCounted == \A r \in Roots : handle[r].gen <= generation[r]

ReadySent == \A m \in readies : m.root = Main => mainReady

OffIsEmpty ==
    phase = "off" => /\ sessions = {} /\ readies = {} /\ results = {} /\ signals = {}
                     /\ \A r \in Roots : ~Managed(r)

SupervisorInv ==
    /\ SupervisorTypeOK
    /\ RunningIsCurrent /\ EndedIsPast /\ ManagedIsAlive /\ HandlesCounted /\ ReadySent /\ OffIsEmpty
    /\ OneSession /\ DesiredIsTended /\ StrayIsCancelled

\* A session gets ready: only its record and its message change.
LEMMA SessionReadyInv ==
    ASSUME SupervisorInv, NEW s \in sessions, SessionReady(s)
    PROVE  SupervisorInv'
<1> DEFINE t == [s EXCEPT !.ready = TRUE]
<1> USE DEF SupervisorInv
<1>1. /\ s \in Session /\ t \in Session /\ t.root = s.root /\ t.gen = s.gen /\ t.cancelled = s.cancelled
      /\ sessions' = (sessions \ {s}) \cup {t}
  BY DEF SupervisorTypeOK, Session, SessionReady
<1>2. SupervisorTypeOK'
  <2>1. mainReady' \in BOOLEAN
    BY DEF SessionReady
  <2>2. readies' \subseteq [root : Roots, gen : Nat]
    BY <1>1 DEF SessionReady, SupervisorTypeOK, Session
  <2> QED BY <1>1, <2>1, <2>2 DEF SessionReady, SupervisorTypeOK
<1>3. \A r \in Roots : (Managed(r) <=> Managed(r)')
  BY DEF SessionReady, Managed
<1>4. (RunningIsCurrent /\ HandlesCounted)'
  BY <1>1 DEF SessionReady, RunningIsCurrent, HandlesCounted, Current, Managed
<1>8. ReadySent'
  <2>1. \A m \in readies' : m \in readies \/ m.root = s.root
    BY DEF SessionReady
  <2>2. (mainReady \/ s.root = Main) => mainReady'
    BY DEF SessionReady
  <2> QED BY <2>1, <2>2 DEF ReadySent
<1>5. (EndedIsPast /\ OneSession)'
  <2>1. UNCHANGED <<results, generation>>
    BY DEF SessionReady
  <2>2. EndedIsPast'
    BY <1>1, <2>1 DEF EndedIsPast
  <2>3. OneSession'
    <3>1. OneSession
      OBVIOUS
    <3>2. ASSUME NEW u \in sessions', NEW v \in sessions', u.root = v.root
          PROVE  u = v
      BY <1>1, <3>1, <3>2 DEF OneSession
    <3> QED
      BY <3>2 DEF OneSession
  <2> QED
    BY <2>2, <2>3
<1>9. \A r : Heard(r) => Heard(r)'
  <2> TAKE r
  <2> HAVE Heard(r)
  <2>1. PICK m \in sessions \cup results : m.root = r /\ Current(m)
    BY DEF Heard
  <2>2. CASE m = s
    <3>1. t \in (sessions \cup results)' /\ t.root = r /\ Current(t)'
      BY <1>1, <2>1, <2>2 DEF SessionReady, Current, Managed
    <3> QED BY <3>1 DEF Heard
  <2>3. CASE m # s
    <3>1. m \in (sessions \cup results)' /\ Current(m)'
      BY <1>1, <2>1, <2>3 DEF SessionReady, Current, Managed
    <3> QED BY <3>1, <2>1 DEF Heard
  <2> QED BY <2>2, <2>3
<1>6. (ManagedIsAlive /\ DesiredIsTended)'
  BY <1>9, <1>3 DEF SessionReady, ManagedIsAlive, DesiredIsTended, Awaited, Managed
<1>7. (StrayIsCancelled /\ OffIsEmpty)'
  BY <1>1 DEF SessionReady, StrayIsCancelled, OffIsEmpty, Managed
<1> QED BY <1>2, <1>4, <1>5, <1>6, <1>7, <1>8

\* A session ends: its result takes its place.
LEMMA SessionEndsInv ==
    ASSUME SupervisorInv, NEW s \in sessions, NEW well \in BOOLEAN, SessionEnds(s, well)
    PROVE  SupervisorInv'
<1> DEFINE m == [root |-> s.root, gen |-> s.gen, well |-> well]
<1> USE DEF SupervisorInv
<1>1. /\ s \in Session /\ m.root = s.root /\ m.gen = s.gen /\ m \in [root : Roots, gen : Nat, well : BOOLEAN]
      /\ sessions' = sessions \ {s} /\ results' = results \cup {m}
      /\ UNCHANGED <<phase, cancelled, desired, handle, generation, attempts, scheduled, readies, signals,
                     mainReady>>
  BY DEF SupervisorTypeOK, Session, SessionEnds
<1>2. SupervisorTypeOK'
  BY <1>1 DEF SupervisorTypeOK
<1>3. (RunningIsCurrent /\ HandlesCounted /\ ReadySent)'
  BY <1>1 DEF RunningIsCurrent, HandlesCounted, ReadySent, Current, Managed
<1>4. s.gen <= generation[s.root] /\ \A t \in sessions : t.root = s.root => t = s
  BY <1>1 DEF RunningIsCurrent, HandlesCounted, Current, OneSession, Session
<1>5. (EndedIsPast /\ OneSession)'
  BY <1>1, <1>4 DEF EndedIsPast, OneSession
<1>8. \A r : Heard(r) => Heard(r)'
  <2> TAKE r
  <2> HAVE Heard(r)
  <2>1. PICK x \in sessions \cup results : x.root = r /\ Current(x)
    BY DEF Heard
  <2>2. CASE x = s
    <3>1. m \in (sessions \cup results)' /\ m.root = r /\ Current(m)'
      BY <1>1, <2>1, <2>2 DEF Current, Managed
    <3> QED BY <3>1 DEF Heard
  <2>3. CASE x # s
    <3>1. x \in (sessions \cup results)' /\ Current(x)'
      BY <1>1, <2>1, <2>3 DEF Current, Managed
    <3> QED BY <3>1, <2>1 DEF Heard
  <2> QED BY <2>2, <2>3
<1>6. (ManagedIsAlive /\ DesiredIsTended)'
  BY <1>8, <1>1 DEF ManagedIsAlive, DesiredIsTended, Awaited, Managed
<1>7. (StrayIsCancelled /\ OffIsEmpty)'
  BY <1>1 DEF StrayIsCancelled, OffIsEmpty, Managed
<1> QED BY <1>2, <1>3, <1>5, <1>6, <1>7
(***************************************************************************)
(* Whoever loses its handle, and whoever gets one, leaves the others alone *)
(***************************************************************************)

LEMMA ReleaseFacts ==
    ASSUME SupervisorInv, NEW r \in Roots, Release(r), results' \subseteq results,
           \A x \in results \ results' : x.root = r, \A s \in sessions : s.root # r
    PROVE  /\ handle' \in [Roots -> Handle]
           /\ (RunningIsCurrent /\ EndedIsPast /\ HandlesCounted /\ OneSession)'
           /\ ~Managed(r)'
           /\ \A q \in Roots \ {r} : (Managed(q)' <=> Managed(q)) /\ (Heard(q) => Heard(q)')
<1> USE DEF SupervisorInv
<1>1. handle \in [Roots -> Handle] /\ sessions \subseteq Session /\ generation \in [Roots -> Nat]
      /\ results \subseteq [root : Roots, gen : Nat, well : BOOLEAN]
  BY DEF SupervisorTypeOK
<1>2. NoHandle \in Handle
  BY DEF NoHandle, Handle
<1>3. /\ handle' = [handle EXCEPT ![r] = NoHandle] /\ handle' \in [Roots -> Handle]
      /\ handle'[r] = NoHandle /\ \A q \in Roots \ {r} : handle'[q] = handle[q]
  BY <1>1, <1>2 DEF Release
<1>4. sessions' = sessions /\ generation' = generation
  BY DEF Release
<1>5. (RunningIsCurrent /\ OneSession)'
  BY <1>1, <1>3, <1>4 DEF RunningIsCurrent, OneSession, Current, Managed, Session
<1>6. (EndedIsPast /\ HandlesCounted)'
  BY <1>1, <1>3, <1>4 DEF EndedIsPast, HandlesCounted, NoHandle
<1>7. ~Managed(r)' /\ \A q \in Roots \ {r} : Managed(q)' <=> Managed(q)
  BY <1>3 DEF Managed
<1>8. \A q \in Roots \ {r} : Heard(q) => Heard(q)'
  <2> TAKE q \in Roots \ {r}
  <2> HAVE Heard(q)
  <2>1. PICK m \in sessions \cup results : m.root = q /\ Current(m)
    BY DEF Heard
  <2>2. m \in (sessions \cup results)' /\ Current(m)'
    BY <2>1, <1>3, <1>4 DEF Current, Managed
  <2> QED BY <2>1, <2>2 DEF Heard
<1> QED BY <1>3, <1>5, <1>6, <1>7, <1>8

LEMMA RestartFacts ==
    ASSUME SupervisorInv, NEW r \in Roots, Restart(r), results' \subseteq results,
           \A x \in results \ results' : x.root = r, \A s \in sessions : s.root # r
    PROVE  /\ handle' \in [Roots -> Handle] /\ generation' \in [Roots -> Nat] /\ sessions' \subseteq Session
           /\ (RunningIsCurrent /\ EndedIsPast /\ HandlesCounted /\ OneSession)'
           /\ Managed(r)' /\ Heard(r)'
           /\ \A q \in Roots \ {r} : (Managed(q)' <=> Managed(q)) /\ (Heard(q) => Heard(q)')
<1> USE DEF SupervisorInv
<1> DEFINE g == generation[r] + 1
<1>1. handle \in [Roots -> Handle] /\ sessions \subseteq Session /\ generation \in [Roots -> Nat]
      /\ results \subseteq [root : Roots, gen : Nat, well : BOOLEAN] /\ g \in Nat /\ g > 0
  BY DEF SupervisorTypeOK
<1>2. /\ NewHandle(r) \in Handle /\ NewHandle(r).gen = g /\ NewHandle(r) # NoHandle
      /\ NewSession(r) \in Session /\ NewSession(r).root = r /\ NewSession(r).gen = g
  BY <1>1 DEF NewHandle, Handle, NewSession, Session, NoHandle
<1>0. PICK n : n = NewSession(r)
  OBVIOUS
<1>3. /\ handle' \in [Roots -> Handle]
      /\ handle'[r] = NewHandle(r) /\ \A q \in Roots \ {r} : handle'[q] = handle[q]
  BY <1>1, <1>2 DEF Restart
<1>4. /\ generation' \in [Roots -> Nat]
      /\ generation'[r] = g /\ \A q \in Roots \ {r} : generation'[q] = generation[q]
  BY <1>1 DEF Restart, Counted
<1>5. sessions' = sessions \cup {n}
  BY <1>0 DEF Restart
<1>6. Managed(r)' /\ Current(n)'
  BY <1>0, <1>2, <1>3 DEF Managed, Current
<1>7. (RunningIsCurrent /\ OneSession)'
  <2>1. \A s \in sessions : Current(s)'
    BY <1>1, <1>3 DEF RunningIsCurrent, Current, Managed, Session
  <2> QED BY <1>0, <1>2, <1>5, <1>6, <2>1 DEF RunningIsCurrent, OneSession
<1>8. (EndedIsPast /\ HandlesCounted)'
  <2>1. \A x \in results : x.gen \in Nat /\ x.root \in Roots /\ x.gen <= generation'[x.root]
    BY <1>1, <1>4 DEF EndedIsPast
  <2>2. \A x \in results, s \in sessions' : s.root = x.root => x.gen < s.gen
    <3> TAKE x \in results, s \in sessions'
    <3> HAVE s.root = x.root
    <3>1. CASE s \in sessions
      BY <3>1 DEF EndedIsPast
    <3>2. CASE s = n
      <4>1. x.root = r /\ s.gen = g /\ x.gen \in Nat /\ x.gen <= generation[r] /\ generation[r] \in Nat
        BY <1>0, <1>1, <1>2, <3>2 DEF EndedIsPast
      <4> QED BY <4>1
    <3> QED BY <3>1, <3>2, <1>5
  <2>3. HandlesCounted'
    BY <1>1, <1>2, <1>3, <1>4 DEF HandlesCounted
  <2> QED BY <2>1, <2>2, <2>3 DEF EndedIsPast
<1>9. Heard(r)'
  BY <1>0, <1>2, <1>5, <1>6 DEF Heard
<1>10. \A q \in Roots \ {r} : Managed(q)' <=> Managed(q)
  BY <1>3 DEF Managed
<1>11. \A q \in Roots \ {r} : Heard(q) => Heard(q)'
  <2> TAKE q \in Roots \ {r}
  <2> HAVE Heard(q)
  <2>1. PICK m \in sessions \cup results : m.root = q /\ Current(m)
    BY DEF Heard
  <2>2. m \in (sessions \cup results)' /\ Current(m)'
    BY <2>1, <1>3, <1>5 DEF Current, Managed
  <2> QED BY <2>1, <2>2 DEF Heard
<1> QED BY <1>0, <1>1, <1>2, <1>3, <1>4, <1>5, <1>6, <1>7, <1>8, <1>9, <1>10, <1>11

\* A session whose result has come runs no longer.
LEMMA EndedIsGone ==
    ASSUME SupervisorInv, NEW m \in results, Current(m)
    PROVE  m.root \in Roots /\ \A s \in sessions : s.root # m.root
  BY DEF SupervisorInv, SupervisorTypeOK, RunningIsCurrent, EndedIsPast, Current, Session
(***************************************************************************)
(* The supervisor's select                                                 *)
(***************************************************************************)

LEMMA ReceiveReadyInv ==
    ASSUME SupervisorInv, NEW m \in readies, ReceiveReady(m)
    PROVE  SupervisorInv'
<1> USE DEF SupervisorInv
<1>1. /\ m.root \in Roots /\ handle \in [Roots -> Handle] /\ attempts \in [Roots -> Nat]
      /\ scheduled \in [Roots -> Nat]
  BY DEF SupervisorTypeOK
<1>2. /\ handle' \in [Roots -> Handle] /\ attempts' \in [Roots -> Nat] /\ scheduled' \in [Roots -> Nat]
      /\ \A r \in Roots : handle'[r].gen = handle[r].gen /\ (Managed(r)' <=> Managed(r))
      /\ \A r \in Roots : scheduled'[r] = scheduled[r] \/ Managed(r)
  <2>1. CASE Current(m)
    <3>1. handle[m.root] \in Handle /\ [handle[m.root] EXCEPT !.ready = TRUE] \in Handle
      BY <1>1 DEF Handle
    <3>2. /\ handle' = [handle EXCEPT ![m.root].ready = TRUE]
          /\ attempts' = [attempts EXCEPT ![m.root] = 0] /\ scheduled' = [scheduled EXCEPT ![m.root] = 0]
      BY <2>1 DEF ReceiveReady
    <3>3. /\ handle' \in [Roots -> Handle] /\ \A r \in Roots : handle'[r].gen = handle[r].gen
          /\ handle'[m.root].ready = TRUE /\ \A r \in Roots \ {m.root} : handle'[r] = handle[r]
      BY <1>1, <3>1, <3>2 DEF Handle
    <3>5. NoHandle.ready = FALSE
      BY DEF NoHandle
    <3>6. Managed(m.root)' /\ Managed(m.root)
      BY <1>1, <2>1, <3>3, <3>5 DEF Managed, Current
    <3>4. \A r \in Roots : Managed(r)' <=> Managed(r)
      BY <3>3, <3>6 DEF Managed
    <3> QED BY <1>1, <2>1, <3>2, <3>3, <3>4 DEF Current
  <2>2. CASE ~Current(m)
    BY <1>1, <2>2 DEF ReceiveReady, Managed
  <2> QED BY <2>1, <2>2
<1>3. UNCHANGED <<phase, cancelled, desired, generation, sessions, results, signals, mainReady>>
      /\ readies' \subseteq readies
  BY DEF ReceiveReady
<1>4. SupervisorTypeOK'
  BY <1>2, <1>3 DEF SupervisorTypeOK
<1>5. \A x \in sessions \cup results : x.root \in Roots /\ (Current(x) <=> Current(x)')
  BY <1>2 DEF Current, SupervisorTypeOK, Session
<1>6. \A r \in Roots : Heard(r) <=> Heard(r)'
  BY <1>3, <1>5 DEF Heard
<1>7. (RunningIsCurrent /\ EndedIsPast /\ HandlesCounted /\ ReadySent /\ OneSession /\ StrayIsCancelled)'
  BY <1>2, <1>3, <1>5
     DEF RunningIsCurrent, EndedIsPast, HandlesCounted, ReadySent, OneSession, StrayIsCancelled
<1>8. ManagedIsAlive' /\ OffIsEmpty'
  BY <1>2, <1>3, <1>6 DEF ManagedIsAlive, OffIsEmpty, ReceiveReady
<1>9. DesiredIsTended'
  <2> SUFFICES ASSUME phase' = "serve", ~cancelled', NEW r \in desired'
               PROVE  (Heard(r) \/ Awaited(r))'
    BY DEF DesiredIsTended
  <2>1. phase = "serve" /\ ~cancelled /\ r \in desired /\ r \in Roots
    BY <1>3 DEF SupervisorTypeOK
  <2>2. CASE Managed(r)
    BY <1>6, <2>1, <2>2 DEF ManagedIsAlive
  <2>3. CASE ~Managed(r)
    <3>1. Heard(r) \/ Awaited(r)
      BY <2>1 DEF DesiredIsTended
    <3>2. Awaited(r) => Awaited(r)'
      BY <1>2, <1>3, <2>1, <2>3 DEF Awaited
    <3> QED BY <1>6, <2>1, <3>1, <3>2
  <2> QED BY <2>2, <2>3
<1> QED BY <1>4, <1>7, <1>8, <1>9

\* A result that says nothing, of a session that is not the current one.
LEMMA LateResultInv ==
    ASSUME SupervisorInv, NEW m \in results, ~Current(m), results' = results \ {m},
           UNCHANGED <<phase, cancelled, desired, handle, generation, attempts, scheduled, sessions,
                       readies, signals, mainReady>>
    PROVE  SupervisorInv'
<1> USE DEF SupervisorInv
<1>1. SupervisorTypeOK'
  BY DEF SupervisorTypeOK
<1>2. \A r \in Roots : (Managed(r)' <=> Managed(r)) /\ (Heard(r) => Heard(r)') /\ (Awaited(r)' <=> Awaited(r))
  BY DEF Managed, Heard, Current, Awaited
<1>3. (RunningIsCurrent /\ EndedIsPast /\ HandlesCounted /\ ReadySent /\ OneSession /\ StrayIsCancelled)'
  BY DEF RunningIsCurrent, EndedIsPast, HandlesCounted, ReadySent, OneSession, StrayIsCancelled, Current,
         Managed
<1>4. (ManagedIsAlive /\ OffIsEmpty)'
  BY <1>2 DEF ManagedIsAlive, OffIsEmpty
<1>5. DesiredIsTended'
  BY <1>2 DEF DesiredIsTended, SupervisorTypeOK
<1> QED BY <1>1, <1>3, <1>4, <1>5

\* Outside of serving nothing needs to be tended.
LEMMA DrainInv ==
    ASSUME SupervisorInv, NEW roots, phase = "serve", Drain(roots), results' \subseteq results,
           \A s \in sessions : s.root \in roots
    PROVE  SupervisorInv'
<1> USE DEF SupervisorInv
<1>1. /\ handle \in [Roots -> Handle] /\ sessions \subseteq Session
      /\ results \subseteq [root : Roots, gen : Nat, well : BOOLEAN]
  BY DEF SupervisorTypeOK
<1>2. \A r \in Roots : Closing(r) \in Handle /\ Closing(r).gen = handle[r].gen /\ (Managed(r) => Closing(r) # NoHandle)
  BY <1>1 DEF Closing, Handle, NoHandle, Managed
<1>3. /\ handle' \in [Roots -> Handle] /\ NoHandle \in Handle
      /\ \A r \in Roots : handle'[r] = IF r \in roots THEN Closing(r) ELSE NoHandle
  <2>1. NoHandle \in Handle
    BY DEF NoHandle, Handle
  <2>2. handle' = [r \in Roots |-> IF r \in roots THEN Closing(r) ELSE NoHandle]
    BY DEF Drain
  <2> QED BY <1>2, <2>1, <2>2
<1>4. /\ sessions' \subseteq Session
      /\ \A x \in sessions' : \E s \in sessions : x = [s EXCEPT !.cancelled = TRUE]
  BY <1>1 DEF Drain, Cancelled, Session
<1>5. \A x \in sessions' : \E s \in sessions : /\ x = [s EXCEPT !.cancelled = TRUE]
                                            /\ x.root = s.root /\ x.gen = s.gen
  BY <1>1, <1>4 DEF Session
<1>6. UNCHANGED <<desired, generation, attempts, scheduled, readies, signals, mainReady>>
      /\ phase' = "drain" /\ cancelled' = TRUE /\ results' \subseteq results
  BY DEF Drain
<1>7. SupervisorTypeOK'
  <2>1. (phase' # "off" => Main \in desired')
    BY <1>6 DEF SupervisorTypeOK
  <2> QED BY <1>3, <1>4, <1>6, <2>1 DEF SupervisorTypeOK
<1>8. (RunningIsCurrent /\ OneSession)'
  <2>1. RunningIsCurrent'
    <3> SUFFICES ASSUME NEW x \in sessions' PROVE Current(x)'
      BY DEF RunningIsCurrent
    <3>1. PICK s \in sessions : x.root = s.root /\ x.gen = s.gen
      BY <1>5
    <3>2. s.root \in Roots /\ Current(s) /\ s.root \in roots
      BY <1>1 DEF RunningIsCurrent, Session
    <3> QED BY <1>2, <1>3, <3>1, <3>2 DEF Current, Managed
  <2>2. OneSession'
    <3> SUFFICES ASSUME NEW x \in sessions', NEW y \in sessions', x.root = y.root PROVE x = y
      BY DEF OneSession
    <3>1. PICK s \in sessions : x = [s EXCEPT !.cancelled = TRUE] /\ x.root = s.root
      BY <1>5
    <3>2. PICK t \in sessions : y = [t EXCEPT !.cancelled = TRUE] /\ y.root = t.root
      BY <1>5
    <3> QED BY <3>1, <3>2 DEF OneSession
  <2> QED BY <2>1, <2>2
<1>9. (EndedIsPast /\ HandlesCounted /\ ReadySent)'
  <2>1. EndedIsPast'
    BY <1>5, <1>6 DEF EndedIsPast
  <2>2. HandlesCounted'
    <3> SUFFICES ASSUME NEW r \in Roots PROVE handle'[r].gen <= generation[r]
      BY <1>6 DEF HandlesCounted
    <3>1. generation[r] \in Nat /\ handle[r].gen <= generation[r] /\ NoHandle.gen = 0
      BY DEF SupervisorTypeOK, HandlesCounted, NoHandle
    <3> QED BY <1>2, <1>3, <3>1
  <2> QED BY <1>6, <2>1, <2>2 DEF ReadySent
<1> QED BY <1>6, <1>7, <1>8, <1>9 DEF ManagedIsAlive, DesiredIsTended, StrayIsCancelled, OffIsEmpty
\* A root gets a session again.
LEMMA BackInv ==
    ASSUME SupervisorInv, phase = "serve", NEW r \in desired, Restart(r),
           \A s \in sessions : s.root # r,
           results' \subseteq results, \A x \in results \ results' : x.root = r,
           signals' \subseteq signals, \A x \in signals \ signals' : x.root = r,
           scheduled' \in [Roots -> Nat], \A q \in Roots \ {r} : scheduled'[q] = scheduled[q],
           UNCHANGED <<phase, cancelled, desired, attempts, readies, mainReady>>
    PROVE  SupervisorInv'
<1> USE DEF SupervisorInv
<1>1. r \in Roots
  BY DEF SupervisorTypeOK
<1>2. /\ handle' \in [Roots -> Handle] /\ generation' \in [Roots -> Nat] /\ sessions' \subseteq Session
      /\ (RunningIsCurrent /\ EndedIsPast /\ HandlesCounted /\ OneSession)'
      /\ Managed(r)' /\ Heard(r)'
      /\ \A q \in Roots \ {r} : (Managed(q)' <=> Managed(q)) /\ (Heard(q) => Heard(q)')
  BY <1>1, RestartFacts
<1>3. SupervisorTypeOK'
  BY <1>2 DEF SupervisorTypeOK
<1>4. StrayIsCancelled'
  <2>1. sessions' = sessions \cup {NewSession(r)} /\ NewSession(r).root = r
    BY DEF Restart, NewSession
  <2> QED BY <2>1 DEF StrayIsCancelled
<1>5. (ManagedIsAlive /\ ReadySent /\ OffIsEmpty)'
  BY <1>2 DEF ManagedIsAlive, ReadySent, OffIsEmpty
<1>6. DesiredIsTended'
  <2> SUFFICES ASSUME ~cancelled, NEW q \in desired, q # r PROVE (Heard(q) \/ Awaited(q))'
    BY <1>2 DEF DesiredIsTended
  <2>1. q \in Roots \ {r} /\ (Heard(q) \/ Awaited(q))
    BY DEF DesiredIsTended, SupervisorTypeOK
  <2>2. Awaited(q) => Awaited(q)'
    BY <1>2, <2>1 DEF Awaited
  <2> QED BY <1>2, <2>1, <2>2
<1> QED BY <1>2, <1>3, <1>4, <1>5, <1>6

\* A root is left without a session.
LEMMA AwayInv ==
    ASSUME SupervisorInv, phase = "serve", NEW m \in results, NEW r \in Roots, r = m.root, Release(r),
           \A s \in sessions : s.root # r, results' = results \ {m},
           ScheduleRetry(m) \/ UNCHANGED <<attempts, scheduled, signals>>,
           r \in desired /\ ~cancelled => ScheduleRetry(m),
           UNCHANGED <<phase, cancelled, desired, readies, mainReady>>
    PROVE  SupervisorInv'
<1> USE DEF SupervisorInv
<1>1. \A x \in results \ results' : x.root = r
  OBVIOUS
<1>2. /\ handle' \in [Roots -> Handle]
      /\ (RunningIsCurrent /\ EndedIsPast /\ HandlesCounted /\ OneSession)'
      /\ ~Managed(r)'
      /\ \A q \in Roots \ {r} : (Managed(q)' <=> Managed(q)) /\ (Heard(q) => Heard(q)')
  BY <1>1, ReleaseFacts
<1>3. /\ generation' = generation /\ sessions' = sessions
      /\ m.gen \in Nat /\ attempts[r] + 1 \in Nat
  BY DEF Release, SupervisorTypeOK
<1>4. /\ attempts' \in [Roots -> Nat] /\ scheduled' \in [Roots -> Nat]
      /\ signals' \subseteq [root : Roots, gen : Nat, attempt : Nat]
      /\ signals \subseteq signals' /\ \A q \in Roots \ {r} : scheduled'[q] = scheduled[q]
  BY <1>3 DEF ScheduleRetry, SupervisorTypeOK
<1>5. SupervisorTypeOK'
  BY <1>2, <1>3, <1>4 DEF SupervisorTypeOK
<1>6. (ManagedIsAlive /\ ReadySent /\ OffIsEmpty /\ StrayIsCancelled)'
  BY <1>2, <1>3 DEF ManagedIsAlive, ReadySent, OffIsEmpty, StrayIsCancelled
<1>7. DesiredIsTended'
  <2> SUFFICES ASSUME ~cancelled, NEW q \in desired PROVE (Heard(q) \/ Awaited(q))'
    BY DEF DesiredIsTended
  <2>1. CASE q = r
    <3> DEFINE x == [root |-> r, attempt |-> attempts[r] + 1, gen |-> m.gen]
    <3>1. scheduled' = [scheduled EXCEPT ![r] = attempts[r] + 1] /\ signals' = signals \cup {x}
      BY <2>1 DEF ScheduleRetry
    <3>2. x \in signals' /\ x.root = r /\ scheduled'[r] = x.attempt
      BY <3>1 DEF SupervisorTypeOK
    <3> QED BY <1>2, <2>1, <3>2 DEF Awaited
  <2>2. CASE q # r
    <3>1. q \in Roots \ {r} /\ (Heard(q) \/ Awaited(q))
      BY <2>2 DEF DesiredIsTended, SupervisorTypeOK
    <3>2. Awaited(q) => Awaited(q)'
      BY <1>2, <1>4, <3>1 DEF Awaited
    <3> QED BY <1>2, <3>1, <3>2
  <2> QED BY <2>1, <2>2
<1> QED BY <1>2, <1>5, <1>6, <1>7

LEMMA ReceiveResultInv ==
    ASSUME SupervisorInv, NEW m \in results, ReceiveResult(m)
    PROVE  SupervisorInv'
<1> USE DEF SupervisorInv
<1> DEFINE r == m.root
<1>1. phase = "serve" /\ results' = results \ {m}
  BY DEF ReceiveResult
<1>2. CASE ~Current(m)
  BY <1>1, <1>2, LateResultInv DEF ReceiveResult
<1>3. CASE Current(m) /\ ~handle[r].closing /\ r = Main
  <2>1. Drain(Linked)
    BY <1>3 DEF ReceiveResult
  <2>2. \A s \in sessions : s.root \in Linked
    BY <1>3, EndedIsGone DEF SupervisorTypeOK, Session, Roots
  <2> QED BY <1>1, <2>1, <2>2, DrainInv
<1>4. ASSUME Current(m) PROVE r \in Roots /\ (\A s \in sessions : s.root # r) /\ \A x \in results \ results' : x.root = r
  BY <1>1, <1>4, EndedIsGone
<1>5. CASE Current(m) /\ handle[r].closing
  <2>1. Closed(m) /\ UNCHANGED <<phase, cancelled, desired, readies, mainReady>>
    BY <1>5 DEF ReceiveResult
  <2>2. UNCHANGED <<attempts, scheduled, signals>>
    BY <2>1 DEF Closed
  <2>3. CASE r \in desired
    <3>1. Restart(r)
      BY <2>1, <2>3 DEF Closed
    <3>2. scheduled' \in [Roots -> Nat]
      BY <2>2 DEF SupervisorTypeOK
    <3> QED BY <1>1, <1>4, <1>5, <2>1, <2>2, <2>3, <3>1, <3>2, BackInv
  <2>4. CASE r \notin desired
    <3>1. Release(r)
      BY <2>1, <2>4 DEF Closed
    <3> QED BY <1>1, <1>4, <1>5, <2>1, <2>2, <2>4, <3>1, AwayInv
  <2> QED BY <2>3, <2>4
<1>6. CASE Current(m) /\ ~handle[r].closing /\ r # Main
  <2>1. Release(r) /\ UNCHANGED <<phase, cancelled, desired, readies, mainReady>>
    BY <1>6 DEF ReceiveResult
  <2>2. CASE r \notin desired \/ (cancelled /\ m.well)
    <3>1. UNCHANGED <<attempts, scheduled, signals>>
      BY <1>6, <2>2 DEF ReceiveResult
    <3> QED BY <1>1, <1>4, <1>6, <2>1, <2>2, <3>1, AwayInv
  <2>3. CASE ~(r \notin desired \/ (cancelled /\ m.well))
    <3>1. ScheduleRetry(m)
      BY <1>6, <2>3 DEF ReceiveResult
    <3> QED BY <1>1, <1>4, <1>6, <2>1, <3>1, AwayInv
  <2> QED BY <2>2, <2>3
<1> QED BY <1>2, <1>3, <1>5, <1>6
LEMMA ReceiveSignalInv ==
    ASSUME SupervisorInv, NEW m \in signals, ReceiveSignal(m)
    PROVE  SupervisorInv'
<1> USE DEF SupervisorInv
<1> DEFINE r == m.root
<1>1. /\ phase = "serve" /\ signals' = signals \ {m} /\ r \in Roots
      /\ UNCHANGED <<phase, cancelled, desired, attempts, readies, results, mainReady>>
  BY DEF ReceiveSignal, SupervisorTypeOK
<1>2. CASE r \in desired /\ scheduled[r] = m.attempt /\ ~Managed(r)
  <2>1. Restart(r) /\ scheduled' = [scheduled EXCEPT ![r] = 0]
    BY <1>2 DEF ReceiveSignal
  <2>2. scheduled' \in [Roots -> Nat] /\ \A q \in Roots \ {r} : scheduled'[q] = scheduled[q]
    BY <1>1, <2>1 DEF SupervisorTypeOK
  <2>3. \A s \in sessions : s.root # r
    BY <1>2 DEF RunningIsCurrent, Current
  <2> QED BY <1>1, <1>2, <2>1, <2>2, <2>3, BackInv
<1>3. CASE ~(r \in desired /\ scheduled[r] = m.attempt /\ ~Managed(r))
  <2>1. UNCHANGED <<handle, sessions, generation, scheduled>>
    BY <1>3 DEF ReceiveSignal
  <2>2. SupervisorTypeOK'
    BY <1>1, <2>1 DEF SupervisorTypeOK
  <2>3. \A q : (Managed(q)' <=> Managed(q)) /\ (Heard(q)' <=> Heard(q))
    BY <1>1, <2>1 DEF Managed, Heard, Current
  <2>4. (RunningIsCurrent /\ EndedIsPast /\ HandlesCounted /\ ReadySent /\ OneSession /\ StrayIsCancelled)'
    BY <1>1, <2>1
       DEF RunningIsCurrent, EndedIsPast, HandlesCounted, ReadySent, OneSession, StrayIsCancelled, Current,
           Managed
  <2>5. (ManagedIsAlive /\ OffIsEmpty)'
    BY <1>1, <2>1, <2>3 DEF ManagedIsAlive, OffIsEmpty
  <2>6. DesiredIsTended'
    <3> SUFFICES ASSUME ~cancelled, NEW q \in desired PROVE (Heard(q) \/ Awaited(q))'
      BY <1>1 DEF DesiredIsTended
    <3>1. q \in Roots /\ (Managed(q) => Heard(q))
      BY <1>1 DEF SupervisorTypeOK, ManagedIsAlive
    <3>2. ASSUME ~Managed(q), Awaited(q) PROVE Awaited(q)'
      <4>1. PICK x \in signals : x.root = q /\ scheduled[q] = x.attempt
        BY <3>2 DEF Awaited
      <4>2. x # m
        BY <1>3, <3>2, <4>1
      <4> QED BY <1>1, <2>1, <2>3, <3>2, <4>1, <4>2 DEF Awaited
    <3> QED BY <1>1, <2>3, <3>1, <3>2 DEF DesiredIsTended
  <2> QED BY <2>2, <2>4, <2>5, <2>6
<1> QED BY <1>2, <1>3

LEMMA SeeDoneInv ==
    ASSUME SupervisorInv, SeeDone
    PROVE  SupervisorInv'
<1>1. \A s \in sessions : s.root \in Roots
  BY DEF SupervisorInv, SupervisorTypeOK, Session
<1> QED BY <1>1, DrainInv DEF SeeDone

LEMMA DrainResultInv ==
    ASSUME SupervisorInv, NEW m \in results, DrainResult(m)
    PROVE  SupervisorInv'
<1> USE DEF SupervisorInv
<1>1. /\ phase = "drain" /\ results' = results \ {m}
      /\ UNCHANGED <<phase, cancelled, desired, generation, attempts, scheduled, sessions, readies, signals,
                     mainReady>>
  BY DEF DrainResult
<1>2. CASE Current(m)
  <2>1. m.root \in Roots /\ Release(m.root) /\ \A s \in sessions : s.root # m.root
    BY <1>1, <1>2, EndedIsGone DEF DrainResult, Release
  <2>2. \A x \in results \ results' : x.root = m.root
    BY <1>1
  <2>3. handle' \in [Roots -> Handle] /\ (RunningIsCurrent /\ EndedIsPast /\ HandlesCounted /\ OneSession)'
    BY <1>1, <2>1, <2>2, ReleaseFacts
  <2>4. SupervisorTypeOK'
    BY <1>1, <2>3 DEF SupervisorTypeOK
  <2> QED BY <1>1, <2>3, <2>4 DEF ManagedIsAlive, ReadySent, OffIsEmpty, DesiredIsTended, StrayIsCancelled
<1>3. CASE ~Current(m)
  BY <1>1, <1>3, LateResultInv DEF DrainResult
<1> QED BY <1>2, <1>3

LEMMA ReturnInv ==
    ASSUME SupervisorInv, Return
    PROVE  SupervisorInv'
<1> USE DEF SupervisorInv
<1>1. SupervisorTypeOK'
  BY DEF Return, SupervisorTypeOK
<1> QED
  BY <1>1
     DEF Return, RunningIsCurrent, EndedIsPast, ManagedIsAlive, HandlesCounted, ReadySent, OffIsEmpty,
         OneSession, DesiredIsTended, StrayIsCancelled, Current, Managed
(***************************************************************************)
(* What is desired changes                                                 *)
(***************************************************************************)

LEMMA ReconcileInv ==
    ASSUME SupervisorInv, NEW linked \in SUBSET Linked, Reconcile(linked)
    PROVE  SupervisorInv'
<1> USE DEF SupervisorInv
<1>1. PICK next, removed, new : /\ next = {Main} \cup linked /\ removed = desired \ next
                                /\ new = {r \in next \ desired : ~Managed(r)}
  OBVIOUS
<1>2. /\ phase = "serve" /\ desired' = next /\ next \subseteq Roots /\ new \subseteq Roots
      /\ UNCHANGED <<phase, cancelled, attempts, readies, results, signals, mainReady>>
      /\ scheduled' = [r \in Roots |-> IF r \in removed THEN 0 ELSE scheduled[r]]
      /\ handle' = [r \in Roots |-> IF r \in removed THEN Closing(r)
                                    ELSE IF r \in new THEN NewHandle(r) ELSE handle[r]]
      /\ sessions' = {s \in sessions : s.root \notin removed}
                     \cup Cancelled({s \in sessions : s.root \in removed})
                     \cup {NewSession(r) : r \in new}
      /\ generation' = [r \in Roots |-> IF r \in new THEN generation[r] + 1 ELSE generation[r]]
  BY <1>1 DEF Reconcile, Counted, Roots
<1>3. /\ handle \in [Roots -> Handle] /\ sessions \subseteq Session /\ generation \in [Roots -> Nat]
      /\ scheduled \in [Roots -> Nat] /\ results \subseteq [root : Roots, gen : Nat, well : BOOLEAN]
  BY DEF SupervisorTypeOK
<1>4. \A r \in Roots : /\ NewHandle(r) \in Handle /\ NewHandle(r).gen = generation[r] + 1
                       /\ NewHandle(r) # NoHandle
                       /\ NewSession(r) \in Session /\ NewSession(r).root = r
                       /\ NewSession(r).gen = generation[r] + 1
  BY <1>3 DEF NewHandle, Handle, NewSession, Session, NoHandle
<1>5. \A r \in Roots : /\ Closing(r) \in Handle /\ Closing(r).gen = handle[r].gen
                       /\ (Managed(r) <=> Closing(r) # NoHandle)
  BY <1>3 DEF Closing, Handle, NoHandle, Managed
<1>6. /\ handle' \in [Roots -> Handle] /\ generation' \in [Roots -> Nat] /\ scheduled' \in [Roots -> Nat]
      /\ \A r \in new : handle'[r] = NewHandle(r) /\ generation'[r] = generation[r] + 1 /\ ~Managed(r)
      /\ \A r \in Roots \ new : handle'[r].gen = handle[r].gen /\ generation'[r] = generation[r]
      /\ \A r \in Roots \ removed : scheduled'[r] = scheduled[r]
  BY <1>1, <1>2, <1>3, <1>4, <1>5
<1>7. /\ \A r \in new : Managed(r)'
      /\ \A r \in Roots \ new : Managed(r)' <=> Managed(r)
  BY <1>1, <1>2, <1>4, <1>5, <1>6 DEF Managed
<1>8. \A x \in sessions' :
         \/ x \in sessions /\ x.root \notin removed
         \/ \E s \in sessions : /\ s.root \in removed /\ x = [s EXCEPT !.cancelled = TRUE]
                               /\ x.root = s.root /\ x.gen = s.gen /\ x.cancelled /\ x \in Session
         \/ x.root \in new /\ x = NewSession(x.root)
  <2> TAKE x \in sessions'
  <2>1. CASE x \in Cancelled({s \in sessions : s.root \in removed})
    BY <1>3, <2>1 DEF Cancelled, Session
  <2>2. CASE x \in {NewSession(r) : r \in new}
    BY <1>2, <1>4, <2>2
  <2> QED BY <1>2, <2>1, <2>2
<1>9. \A x \in sessions' :
         \/ \E s \in sessions : s.root = x.root /\ s.gen = x.gen
         \/ x.root \in new /\ x = NewSession(x.root)
  BY <1>8
<1>10. \A s \in sessions : s.root \in Roots \ new /\ Current(s) /\ Current(s)'
  <2> TAKE s \in sessions
  <2>1. Current(s) /\ s.root \in Roots \ new
    BY <1>1, <1>3 DEF RunningIsCurrent, Current, Session
  <2> QED BY <2>1, <1>6, <1>7 DEF Current
<1>11. SupervisorTypeOK'
  <2>1. sessions' \subseteq Session
    BY <1>2, <1>3, <1>4, <1>8
  <2>2. Main \in desired' /\ desired' \subseteq Roots
    BY <1>1, <1>2
  <2> QED BY <1>2, <1>6, <2>1, <2>2 DEF SupervisorTypeOK
<1>12. RunningIsCurrent'
  <2> SUFFICES ASSUME NEW x \in sessions' PROVE Current(x)'
    BY DEF RunningIsCurrent
  <2>1. CASE \E s \in sessions : s.root = x.root /\ s.gen = x.gen
    <3>1. PICK s \in sessions : s.root = x.root /\ s.gen = x.gen
      BY <2>1
    <3> QED BY <1>10, <3>1 DEF Current
  <2>2. CASE x.root \in new /\ x = NewSession(x.root)
    <3>1. PICK r \in new : r = x.root /\ x = NewSession(r)
      BY <2>2
    <3>2. x.gen = generation[r] + 1 /\ NewHandle(r).gen = generation[r] + 1
      BY <1>2, <1>4, <3>1
    <3>3. handle'[r].gen = x.gen /\ Managed(r)'
      BY <1>6, <1>7, <3>1, <3>2
    <3> QED BY <3>1, <3>3 DEF Current
  <2> QED BY <1>9, <2>1, <2>2
<1>13. OneSession'
  <2> SUFFICES ASSUME NEW x \in sessions', NEW y \in sessions', x.root = y.root PROVE x = y
    BY DEF OneSession
  <2>1. CASE x.root \in new
    BY <2>1, <1>8, <1>10
  <2>2. CASE x.root \in removed
    <3>1. x.root \notin new
      BY <1>1, <2>2
    <3>2. PICK s \in sessions : x = [s EXCEPT !.cancelled = TRUE] /\ x.root = s.root
      BY <1>8, <2>2, <3>1
    <3>3. PICK t \in sessions : y = [t EXCEPT !.cancelled = TRUE] /\ y.root = t.root
      BY <1>8, <2>2, <3>1
    <3> QED BY <3>2, <3>3 DEF OneSession
  <2>3. CASE x.root \notin new /\ x.root \notin removed
    BY <2>3, <1>8 DEF OneSession
  <2> QED BY <2>1, <2>2, <2>3
<1>14. EndedIsPast'
  <2>1. \A m \in results : /\ m.gen \in Nat /\ m.root \in Roots /\ generation[m.root] \in Nat
                           /\ m.gen <= generation[m.root] /\ m.gen <= generation'[m.root]
    BY <1>3, <1>6 DEF EndedIsPast
  <2>2. ASSUME NEW m \in results, NEW x \in sessions', x.root = m.root PROVE m.gen < x.gen
    BY <1>2, <1>4, <1>9, <2>1, <2>2 DEF EndedIsPast
  <2> QED BY <1>2, <2>1, <2>2 DEF EndedIsPast
<1>15. HandlesCounted'
  <2> SUFFICES ASSUME NEW r \in Roots PROVE handle'[r].gen <= generation'[r]
    BY DEF HandlesCounted
  <2>1. CASE r \in new
    BY <1>3, <1>4, <1>6, <2>1
  <2>2. CASE r \notin new
    BY <1>6, <2>2 DEF HandlesCounted
  <2> QED BY <2>1, <2>2
<1>16. \A q \in Roots : Heard(q) => Heard(q)'
  <2> TAKE q \in Roots
  <2> HAVE Heard(q)
  <2>1. PICK m \in sessions \cup results : m.root = q /\ Current(m)
    BY DEF Heard
  <2>2. q \notin new /\ Current(m)'
    BY <2>1, <1>1, <1>6, <1>7 DEF Current
  <2>3. CASE m \in results \/ (m \in sessions /\ q \notin removed)
    BY <1>2, <2>1, <2>2, <2>3 DEF Heard
  <2>4. CASE m \in sessions /\ q \in removed
    <3>1. PICK x : x = [m EXCEPT !.cancelled = TRUE]
      OBVIOUS
    <3>2. x \in sessions' /\ x.root = m.root /\ x.gen = m.gen
      BY <1>2, <1>3, <2>1, <2>4, <3>1 DEF Cancelled, Session
    <3> QED BY <2>1, <2>2, <3>2 DEF Heard, Current
  <2> QED BY <2>1, <2>3, <2>4
<1>17. \A q \in new : Heard(q)'
  <2> TAKE q \in new
  <2>1. PICK x : x = NewSession(q)
    OBVIOUS
  <2>2. x \in sessions' /\ x.root = q
    BY <1>2, <1>4, <2>1
  <2> QED BY <1>12, <2>2 DEF RunningIsCurrent, Heard
<1>18. ManagedIsAlive'
  BY <1>2, <1>7, <1>16, <1>17 DEF ManagedIsAlive
<1>19. DesiredIsTended'
  <2> SUFFICES ASSUME ~cancelled, NEW q \in next PROVE (Heard(q) \/ Awaited(q))'
    BY <1>2 DEF DesiredIsTended
  <2>1. CASE q \in desired
    <3>1. q \in Roots /\ q \notin new /\ q \notin removed /\ (Heard(q) \/ Awaited(q))
      BY <1>1, <1>2, <2>1 DEF DesiredIsTended
    <3>2. Awaited(q) => Awaited(q)'
      BY <1>2, <1>6, <1>7, <3>1 DEF Awaited
    <3> QED BY <1>16, <3>1, <3>2
  <2>2. CASE q \notin desired
    BY <1>1, <1>2, <1>16, <1>17, <2>2 DEF ManagedIsAlive
  <2> QED BY <2>1, <2>2
<1>20. StrayIsCancelled'
  <2> SUFFICES ASSUME NEW x \in sessions' PROVE x.root \in next \/ x.cancelled
    BY <1>2 DEF StrayIsCancelled
  <2> QED BY <1>1, <1>2, <1>8 DEF StrayIsCancelled
<1> QED
  BY <1>2, <1>11, <1>12, <1>13, <1>14, <1>15, <1>18, <1>19, <1>20 DEF ReadySent, OffIsEmpty
LEMMA ServeInv ==
    ASSUME SupervisorInv, NEW linked \in SUBSET Linked, Serve(linked)
    PROVE  SupervisorInv'
<1> USE DEF SupervisorInv
<1>1. PICK new : new = {Main} \cup linked
  OBVIOUS
<1>2. /\ phase = "off" /\ phase' = "serve" /\ desired' = new /\ new \subseteq Roots
      /\ handle' = [r \in Roots |-> IF r \in new THEN NewHandle(r) ELSE NoHandle]
      /\ sessions' = {NewSession(r) : r \in new}
      /\ generation' = [r \in Roots |-> IF r \in new THEN generation[r] + 1 ELSE generation[r]]
      /\ UNCHANGED <<cancelled, attempts, scheduled, readies, results, signals, mainReady>>
      /\ results = {}
  BY <1>1 DEF Serve, Counted, Roots, OffIsEmpty
<1>3. \A r \in Roots : /\ NewHandle(r) \in Handle /\ NewHandle(r).gen = generation[r] + 1
                       /\ NewHandle(r) # NoHandle /\ generation[r] \in Nat
                       /\ NewSession(r) \in Session /\ NewSession(r).root = r
                       /\ NewSession(r).gen = generation[r] + 1
  BY DEF SupervisorTypeOK, NewHandle, Handle, NewSession, Session, NoHandle
<1>4. NoHandle \in Handle /\ NoHandle.gen = 0
  BY DEF NoHandle, Handle
<1>5. /\ handle' \in [Roots -> Handle] /\ generation' \in [Roots -> Nat]
      /\ \A r \in new : handle'[r] = NewHandle(r) /\ generation'[r] = generation[r] + 1 /\ Managed(r)'
      /\ \A r \in Roots \ new : handle'[r] = NoHandle /\ ~Managed(r)'
  BY <1>2, <1>3, <1>4 DEF Managed
<1>6. SupervisorTypeOK'
  <2>1. sessions' \subseteq Session /\ Main \in desired'
    BY <1>1, <1>2, <1>3
  <2> QED BY <1>2, <1>5, <2>1 DEF SupervisorTypeOK
<1>7. \A x \in sessions' : x.root \in new /\ x = NewSession(x.root) /\ Current(x)'
  <2> TAKE x \in sessions'
  <2>1. PICK r \in new : x = NewSession(r)
    BY <1>2
  <2>2. x.root = r /\ x.gen = generation[r] + 1 /\ handle'[r].gen = generation[r] + 1
    BY <1>2, <1>3, <1>5, <2>1
  <2> QED BY <1>5, <2>1, <2>2 DEF Current
<1>8. (RunningIsCurrent /\ OneSession /\ EndedIsPast /\ StrayIsCancelled)'
  BY <1>2, <1>7 DEF RunningIsCurrent, OneSession, EndedIsPast, StrayIsCancelled
<1>9. HandlesCounted'
  <2> SUFFICES ASSUME NEW r \in Roots PROVE handle'[r].gen <= generation'[r]
    BY DEF HandlesCounted
  <2>1. CASE r \in new
    BY <1>3, <1>5, <2>1
  <2>2. CASE r \notin new
    BY <1>2, <1>3, <1>4, <1>5, <2>2
  <2> QED BY <2>1, <2>2
<1>10. \A r \in new : Heard(r)'
  <2> TAKE r \in new
  <2>1. PICK x : x = NewSession(r)
    OBVIOUS
  <2>2. x \in sessions' /\ x.root = r
    BY <1>2, <1>3, <2>1
  <2> QED BY <1>7, <2>2 DEF Heard
<1>11. (ManagedIsAlive /\ DesiredIsTended /\ ReadySent /\ OffIsEmpty)'
  BY <1>2, <1>5, <1>10 DEF ManagedIsAlive, DesiredIsTended, ReadySent, OffIsEmpty
<1> QED BY <1>6, <1>8, <1>9, <1>11

LEMMA SupervisorStepInv ==
    ASSUME SupervisorInv, SupervisorStep
    PROVE  SupervisorInv'
<1>1. CASE \E linked \in SUBSET Linked : Reconcile(linked)
  BY <1>1, ReconcileInv
<1>2. CASE SessionStep
  BY <1>2, SessionReadyInv, SessionEndsInv DEF SessionStep
<1>3. CASE Receive
  BY <1>3, ReceiveResultInv, DrainResultInv, ReceiveSignalInv, SeeDoneInv, ReturnInv DEF Receive
<1> QED BY <1>1, <1>2, <1>3 DEF SupervisorStep

(***************************************************************************)
(* The process, its files and the commands                                 *)
(***************************************************************************)

\* A ready file is of a process that runs: it is gone before the process is.
ReadyRuns == readyFile = "own" => proc = "running"

LeavingIsOver == proc = "leaving" => phase = "returned"

ProcessInv ==
    /\ BackgroundTypeOK /\ Tracked /\ ReadyIsMain /\ OnlyKillsLeaveReady /\ ReadyRuns /\ LeavingIsOver

BackgroundInv == SupervisorInv /\ ProcessInv

LEMMA OffInv ==
    ASSUME SupervisorTypeOK, Gone
    PROVE  SupervisorInv'
<1>1. NoHandle \in Handle /\ NoHandle.gen = 0
  BY DEF NoHandle, Handle
<1>2. (RunningIsCurrent /\ EndedIsPast /\ HandlesCounted /\ OneSession)'
  BY <1>1 DEF Gone, RunningIsCurrent, EndedIsPast, HandlesCounted, OneSession
<1>3. SupervisorTypeOK'
  BY <1>1 DEF Gone, SupervisorTypeOK
<1> QED
  BY <1>2, <1>3
     DEF SupervisorInv, Gone, ManagedIsAlive, ReadySent, OffIsEmpty, DesiredIsTended, StrayIsCancelled, Managed

LEMMA BackgroundInitInv == BackgroundInit => BackgroundInv
<1> HAVE BackgroundInit
<1>1. NoHandle \in Handle /\ NoHandle.gen = 0
  BY DEF NoHandle, Handle
<1>2. SupervisorTypeOK
  BY <1>1 DEF BackgroundInit, SupervisorOff, SupervisorTypeOK
<1>3. SupervisorInv
  BY <1>1, <1>2
     DEF BackgroundInit, SupervisorOff, SupervisorInv, RunningIsCurrent, EndedIsPast, HandlesCounted,
         OneSession, ManagedIsAlive, ReadySent, OffIsEmpty, DesiredIsTended, StrayIsCancelled, Managed
<1>4. ProcessInv
  BY <1>2, BackgroundAssumption
     DEF BackgroundInit, SupervisorOff, ProcessInv, BackgroundTypeOK, Tracked, ReadyIsMain,
         OnlyKillsLeaveReady, ReadyRuns, LeavingIsOver
<1> QED BY <1>3, <1>4 DEF BackgroundInv
\* What leaves the supervisor alone keeps its invariant.
LEMMA SupervisorStutter ==
    ASSUME SupervisorInv, UNCHANGED <<phase, cancelled, desired, handle, generation, attempts, scheduled,
                                      sessions, readies, results, signals>>,
           mainReady' \in BOOLEAN, mainReady' = mainReady \/ readies = {}
    PROVE  SupervisorInv'
<1> USE DEF SupervisorInv
<1>1. SupervisorTypeOK'
  BY DEF SupervisorTypeOK
<1>2. ReadySent'
  BY DEF ReadySent
<1>3. (RunningIsCurrent /\ EndedIsPast /\ ManagedIsAlive /\ HandlesCounted /\ OffIsEmpty /\ OneSession)'
  BY DEF RunningIsCurrent, EndedIsPast, ManagedIsAlive, HandlesCounted, OffIsEmpty, OneSession, Heard,
         Current, Managed
<1>4. (DesiredIsTended /\ StrayIsCancelled)'
  BY DEF DesiredIsTended, StrayIsCancelled, Heard, Awaited, Current, Managed
<1> QED BY <1>1, <1>2, <1>3, <1>4

\* What the process sees of its supervisor: it neither forgets that it was ready
\* nor comes back.
LEMMA SupervisorFlags ==
    ASSUME SupervisorInv, SupervisorStep
    PROVE  /\ mainReady => mainReady'
           /\ phase = "off" <=> phase' = "off"
           /\ phase = "returned" => phase' = "returned"
<1>1. CASE \E linked \in SUBSET Linked : Reconcile(linked)
  BY <1>1 DEF Reconcile
<1>2. CASE SessionStep
  <2>1. PICK s \in sessions : SessionReady(s) \/ \E well \in BOOLEAN : SessionEnds(s, well)
    BY <1>2 DEF SessionStep
  <2>2. CASE SessionReady(s)
    <3>1. phase' = phase /\ (mainReady => mainReady')
      BY <2>2 DEF SessionReady
    <3> QED BY <3>1
  <2>3. CASE \E well \in BOOLEAN : SessionEnds(s, well)
    BY <2>3 DEF SessionEnds
  <2> QED BY <2>1, <2>2, <2>3
<1>3. CASE Receive
  <2>1. CASE \E m \in results : ReceiveResult(m)
    BY <2>1 DEF ReceiveResult, Drain
  <2>2. CASE \E m \in results : DrainResult(m)
    BY <2>2 DEF DrainResult
  <2>3. CASE \E m \in signals : ReceiveSignal(m)
    BY <2>3 DEF ReceiveSignal
  <2>4. CASE SeeDone \/ Return
    BY <2>4 DEF SeeDone, Return, Drain
  <2> QED BY <1>3, <2>1, <2>2, <2>3, <2>4 DEF Receive
<1> QED BY <1>1, <1>2, <1>3 DEF SupervisorStep

LEMMA CancelInv ==
    ASSUME SupervisorInv, cancelled' = TRUE,
           UNCHANGED <<phase, desired, handle, generation, attempts, scheduled, sessions, readies, results,
                       signals, mainReady>>
    PROVE  SupervisorInv'
<1> USE DEF SupervisorInv
<1>1. SupervisorTypeOK'
  BY DEF SupervisorTypeOK
<1>2. (RunningIsCurrent /\ EndedIsPast /\ ManagedIsAlive /\ HandlesCounted /\ OffIsEmpty /\ OneSession)'
  BY DEF RunningIsCurrent, EndedIsPast, ManagedIsAlive, HandlesCounted, OffIsEmpty, OneSession, Heard,
         Current, Managed
<1>3. (ReadySent /\ DesiredIsTended /\ StrayIsCancelled)'
  BY DEF ReadySent, DesiredIsTended, StrayIsCancelled
<1> QED BY <1>1, <1>2, <1>3

LEMMA BackgroundStepInv ==
    ASSUME BackgroundInv, [BackgroundNext]_backgroundVars
    PROVE  BackgroundInv'
<1> USE DEF BackgroundInv
<1>1. CASE WritePID
  <2>1. SupervisorInv'
    BY <1>1, SupervisorStutter DEF WritePID, supervisorVars, SupervisorInv, SupervisorTypeOK
  <2>2. ProcessInv'
    BY <1>1, <2>1
       DEF WritePID, supervisorVars, SupervisorInv, ProcessInv, BackgroundTypeOK, Tracked, ReadyIsMain,
           OnlyKillsLeaveReady, ReadyRuns, LeavingIsOver
  <2> QED BY <2>1, <2>2
<1>2. CASE SetupFails
  <2>1. SupervisorInv'
    BY <1>2, OffInv DEF SetupFails, SupervisorInv
  <2>2. ProcessInv'
    BY <1>2, <2>1
       DEF SetupFails, Gone, SupervisorInv, ProcessInv, BackgroundTypeOK, Tracked, ReadyIsMain,
           OnlyKillsLeaveReady, ReadyRuns, LeavingIsOver
  <2> QED BY <2>1, <2>2
<1>3. CASE \E linked \in SUBSET Linked : SetupDone(linked)
  <2>1. PICK linked \in SUBSET Linked : SetupDone(linked)
    BY <1>3
  <2>2. SupervisorInv'
    BY <2>1, ServeInv DEF SetupDone
  <2>3. ProcessInv'
    BY <2>1, <2>2
       DEF SetupDone, Serve, SupervisorInv, ProcessInv, BackgroundTypeOK, Tracked, ReadyIsMain,
           OnlyKillsLeaveReady, ReadyRuns, LeavingIsOver
  <2> QED BY <2>2, <2>3
<1>4. CASE \E m \in readies : Ready(m)
  <2>1. PICK m \in readies : Ready(m)
    BY <1>4
  <2>2. SupervisorInv'
    BY <2>1, ReceiveReadyInv DEF Ready
  <2>3. /\ UNCHANGED <<proc, pidFile, command, starts, kills, phase, mainReady>> /\ phase = "serve"
        /\ readyFile' = readyFile \/ (readyFile' = "own" /\ m.root = Main)
    BY <2>1 DEF Ready, ReceiveReady
  <2>4. m.root = Main => mainReady
    BY DEF SupervisorInv, ReadySent
  <2>5. proc \in {"running", "leaving"}
    BY <2>3 DEF ProcessInv, BackgroundTypeOK
  <2>6. proc = "running"
    BY <2>3, <2>5 DEF ProcessInv, LeavingIsOver
  <2>7. ProcessInv'
    BY <2>2, <2>3, <2>4, <2>6
       DEF SupervisorInv, ProcessInv, BackgroundTypeOK, Tracked, ReadyIsMain, OnlyKillsLeaveReady, ReadyRuns, LeavingIsOver
  <2> QED BY <2>2, <2>7
<1>5. CASE Supervise
  <2>1. SupervisorInv' /\ UNCHANGED processVars /\ SupervisorStep
    BY <1>5, SupervisorStepInv DEF Supervise
  <2>2. (mainReady => mainReady') /\ (phase = "off" <=> phase' = "off")
        /\ (phase = "returned" => phase' = "returned")
    BY <2>1, SupervisorFlags
  <2>3. ProcessInv'
    BY <2>1, <2>2
       DEF processVars, SupervisorInv, ProcessInv, BackgroundTypeOK, Tracked, ReadyIsMain,
           OnlyKillsLeaveReady, ReadyRuns, LeavingIsOver
  <2> QED BY <2>1, <2>3
<1>6. CASE Leave
  <2>1. SupervisorInv'
    BY <1>6, SupervisorStutter DEF Leave, supervisorVars, SupervisorInv, SupervisorTypeOK
  <2>2. ProcessInv'
    BY <1>6, <2>1
       DEF Leave, supervisorVars, SupervisorInv, ProcessInv, BackgroundTypeOK, Tracked, ReadyIsMain,
           OnlyKillsLeaveReady, ReadyRuns, LeavingIsOver
  <2> QED BY <2>1, <2>2
<1>7. CASE Exit
  <2>1. SupervisorInv'
    BY <1>7, OffInv DEF Exit, SupervisorInv
  <2>2. ProcessInv'
    BY <1>7, <2>1, BackgroundAssumption
       DEF Exit, Gone, Left, SupervisorInv, ProcessInv, BackgroundTypeOK, Tracked, ReadyIsMain,
           OnlyKillsLeaveReady, ReadyRuns, LeavingIsOver
  <2> QED BY <2>1, <2>2
<1>8. CASE Killed
  <2>1. SupervisorInv'
    BY <1>8, OffInv DEF Killed, SupervisorInv
  <2>2. ProcessInv'
    BY <1>8, <2>1, BackgroundAssumption
       DEF Killed, Gone, Left, SupervisorInv, ProcessInv, BackgroundTypeOK, Tracked, ReadyIsMain,
           OnlyKillsLeaveReady, ReadyRuns, LeavingIsOver
  <2> QED BY <2>1, <2>2
<1>9. CASE Start
  <2>1. proc = "none" /\ phase = "off" /\ readies = {} /\ readyFile # "own"
    BY <1>9 DEF Start, Checked, SupervisorInv, OffIsEmpty, ProcessInv, Tracked, BackgroundTypeOK
  <2>2. SupervisorInv'
    BY <1>9, <2>1, SupervisorStutter DEF Start
  <2>3. ProcessInv'
    BY <1>9, <2>1, <2>2, BackgroundAssumption
       DEF Start, SupervisorInv, ProcessInv, BackgroundTypeOK, Tracked, ReadyIsMain,
           OnlyKillsLeaveReady, ReadyRuns, LeavingIsOver
  <2> QED BY <2>2, <2>3
<1>10. CASE Started
  <2>1. SupervisorInv'
    BY <1>10, SupervisorStutter DEF Started, supervisorVars, SupervisorInv, SupervisorTypeOK
  <2>2. ProcessInv'
    BY <1>10, <2>1
       DEF Started, supervisorVars, SupervisorInv, ProcessInv, BackgroundTypeOK, Tracked, ReadyIsMain,
           OnlyKillsLeaveReady, ReadyRuns, LeavingIsOver
  <2> QED BY <2>1, <2>2
<1>11. CASE NotStarted
  <2>1. SupervisorInv'
    BY <1>11, SupervisorStutter DEF NotStarted, supervisorVars, SupervisorInv, SupervisorTypeOK
  <2>2. ProcessInv'
    BY <1>11, <2>1
       DEF NotStarted, supervisorVars, SupervisorInv, ProcessInv, BackgroundTypeOK, Tracked, ReadyIsMain,
           OnlyKillsLeaveReady, ReadyRuns, LeavingIsOver
  <2> QED BY <2>1, <2>2
<1>12. CASE Status
  <2>1. SupervisorInv'
    BY <1>12, SupervisorStutter DEF Status, supervisorVars, SupervisorInv, SupervisorTypeOK
  <2>2. ProcessInv'
    BY <1>12, <2>1
       DEF Status, supervisorVars, Checked, SupervisorInv, ProcessInv, BackgroundTypeOK, Tracked, ReadyIsMain,
           OnlyKillsLeaveReady, ReadyRuns, LeavingIsOver
  <2> QED BY <2>1, <2>2
<1>13. CASE Stop
  <2>1. CASE proc = "running" /\ cancelled'
    <3>1. /\ cancelled' = TRUE
          /\ UNCHANGED <<phase, desired, handle, generation, attempts, scheduled, sessions, readies, results,
                         signals, mainReady, proc, pidFile, readyFile, starts, kills>>
      BY <1>13, <2>1 DEF Stop, Gone
    <3>2. SupervisorInv'
      BY <3>1, CancelInv
    <3>3. ProcessInv'
      BY <1>13, <3>1, <3>2
         DEF Stop, SupervisorInv, ProcessInv, BackgroundTypeOK, Tracked, ReadyIsMain,
             OnlyKillsLeaveReady, ReadyRuns, LeavingIsOver
    <3> QED BY <3>2, <3>3
  <2>2. CASE ~(proc = "running" /\ cancelled')
    <3>1. proc \in {"setup", "leaving"} /\ Gone /\ pidFile' = "stale" /\ readyFile' = Left(readyFile)
          /\ UNCHANGED <<starts, kills>>
      BY <1>13, <2>2 DEF Stop
    <3>2. SupervisorInv'
      BY <3>1, OffInv DEF SupervisorInv
    <3>3. ProcessInv'
      BY <1>13, <3>1, <3>2
         DEF Stop, Gone, Left, SupervisorInv, ProcessInv, BackgroundTypeOK, Tracked, ReadyIsMain,
             OnlyKillsLeaveReady, ReadyRuns, LeavingIsOver
    <3> QED BY <3>2, <3>3
  <2> QED BY <2>1, <2>2
<1>14. CASE Stopped
  <2>1. SupervisorInv'
    BY <1>14, SupervisorStutter DEF Stopped, supervisorVars, SupervisorInv, SupervisorTypeOK
  <2>2. ProcessInv'
    BY <1>14, <2>1
       DEF Stopped, supervisorVars, SupervisorInv, ProcessInv, BackgroundTypeOK, Tracked, ReadyIsMain,
           OnlyKillsLeaveReady, ReadyRuns, LeavingIsOver
  <2> QED BY <2>1, <2>2
<1>15. CASE NotStopped
  <2>1. SupervisorInv'
    BY <1>15, SupervisorStutter DEF NotStopped, supervisorVars, SupervisorInv, SupervisorTypeOK
  <2>2. ProcessInv'
    BY <1>15, <2>1
       DEF NotStopped, supervisorVars, SupervisorInv, ProcessInv, BackgroundTypeOK, Tracked, ReadyIsMain,
           OnlyKillsLeaveReady, ReadyRuns, LeavingIsOver
  <2> QED BY <2>1, <2>2
<1>16. CASE UNCHANGED backgroundVars
  <2>1. SupervisorInv'
    BY <1>16, SupervisorStutter DEF backgroundVars, supervisorVars, SupervisorInv, SupervisorTypeOK
  <2>2. ProcessInv'
    BY <1>16, <2>1
       DEF backgroundVars, supervisorVars, processVars, SupervisorInv, ProcessInv, BackgroundTypeOK, Tracked, ReadyIsMain,
           OnlyKillsLeaveReady, ReadyRuns, LeavingIsOver
  <2> QED BY <2>1, <2>2
<1> QED
  BY <1>1, <1>2, <1>3, <1>4, <1>5, <1>6, <1>7, <1>8, <1>9, <1>10, <1>11, <1>12, <1>13, <1>14, <1>15, <1>16
     DEF BackgroundNext, Command
(***************************************************************************)
(* Theorems                                                                *)
(***************************************************************************)

\* The invariant of supervisor, process and files holds in every behaviour.
THEOREM BackgroundInvariant == BackgroundSpec => []BackgroundInv
<1>1. BackgroundInit => BackgroundInv
  BY BackgroundInitInv
<1>2. BackgroundInv /\ [BackgroundNext]_backgroundVars => BackgroundInv'
  BY BackgroundStepInv
<1> QED BY <1>1, <1>2, PTL DEF BackgroundSpec

\* The types, of the supervisor's channels too, and the phases of the process
\* (runWatchForeground).
THEOREM BackgroundTypes == BackgroundSpec => []BackgroundTypeOK
<1>1. BackgroundInv => BackgroundTypeOK
  BY DEF BackgroundInv, ProcessInv
<1> QED BY <1>1, BackgroundInvariant, PTL

\* Two sessions of one root never run beside each other (startSession).
THEOREM OneSessionPerRoot == BackgroundSpec => []OneSession
<1>1. BackgroundInv => OneSession
  BY DEF BackgroundInv, SupervisorInv
<1> QED BY <1>1, BackgroundInvariant, PTL

\* Every desired root has a session, its result or its retry, and no session
\* goes on for a root that is not desired (scheduleRetry, applyDesired).
THEOREM SessionsAreWanted == BackgroundSpec => []SessionsFollowRoots
<1>1. BackgroundInv => SessionsFollowRoots
  BY DEF BackgroundInv, SupervisorInv, SessionsFollowRoots
<1> QED BY <1>1, BackgroundInvariant, PTL

\* A process past its first step is named by its PID file (WriteWorktreePIDFile,
\* stopWatchDaemon).
THEOREM ProcessIsTracked == BackgroundSpec => []Tracked
<1>1. BackgroundInv => Tracked
  BY DEF BackgroundInv, ProcessInv
<1> QED BY <1>1, BackgroundInvariant, PTL

\* A process's own ready file says that its main session got ready, and only a
\* killed process leaves one behind (initialReadyObserver, the deferred removals).
THEOREM ReadyFileIsTrue == BackgroundSpec => []ReadyFileTrue
<1>1. BackgroundInv => ReadyFileTrue
  BY DEF BackgroundInv, ProcessInv, ReadyFileTrue
<1> QED BY <1>1, BackgroundInvariant, PTL

\* The desired roots are watched, by one session each (the supervisor's loop).
THEOREM SessionsAlwaysRight == BackgroundSpec => []SessionsAreRight
<1>1. OneSession /\ SessionsFollowRoots => SessionsAreRight
  BY DEF SessionsAreRight
<1> QED BY <1>1, OneSessionPerRoot, SessionsAreWanted, PTL

\* The PID file and the ready file say what is (runWatchForeground, stopWatchDaemon).
THEOREM FilesAlwaysTrue == BackgroundSpec => []FilesTellTheTruth
<1>1. Tracked /\ ReadyFileTrue => FilesTellTheTruth
  BY DEF FilesTellTheTruth
<1> QED BY <1>1, ProcessIsTracked, ReadyFileIsTrue, PTL
=============================================================================
