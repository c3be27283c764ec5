----------------------------- MODULE Parts_proofs -----------------------------
(***************************************************************************)
(* Proofs about nine parts that share no state, each for any values of     *)
(* its constants.  The lock keeps catalogs and socket to one process, and  *)
(* who waits for a daemon waits with reason; a connection keeps its        *)
(* answers apart; a program stays on the disk whatever an update does;     *)
(* symbols are those of their artifact; the registry loses no repository;  *)
(* a migration brings over what it read; v1 indexes what the ignore rules  *)
(* of every level ask for; a client hears what failed and reads the best;  *)
(* a walk of a graph answers all there is within its depth.                *)
(***************************************************************************)
EXTENDS DaemonControl, RpcConnection, Updater, SymbolBackfill, Registration,
        LegacyMigration, FileSelection, ServiceReads, GraphQueries,
        SequenceTheorems, FiniteSetTheorems, TLAPS

(***************************************************************************)
(* The host's daemon                                                       *)
(***************************************************************************)


\* From Acquire to Release.
Holding == {"locked", "stamped", "setup", "opened", "bare", "serving", "draining",
            "drained", "closing", "closed"}

Stages == Holding \union {"unborn", "new", "left", "gone"}

Activities == {"idle", "polling", "connected", "probing", "stopping", "waiting"}

DaemonTypes ==
    /\ stage \in [Daemon -> Stages]
    /\ lock \in Client \union Daemon \union {NoOne}
    /\ listening \subseteq Daemon /\ catalogs \subseteq Daemon
    /\ at \in [Client -> Activities]
    /\ disturbed \in BOOLEAN

\* What a process has open tells how far it is, and that tells who holds the lock.
LockTells ==
    /\ \A p \in Daemon : lock = p <=> stage[p] \in Holding
    /\ \A c \in Client : at[c] = "probing" => lock = c
    /\ \A p \in catalogs :
          stage[p] \in {"opened", "bare", "serving", "draining", "drained", "closing"}
    /\ \A p \in listening : stage[p] \in {"serving", "draining"}
    /\ \A p \in Daemon : stage[p] = "serving" => socket = p

\* Undisturbed processes only rise, or lose the race against one that rises.
Undisturbed ==
    ~disturbed =>
        /\ lock \in Daemon \union {NoOne}
        /\ \A p \in Daemon : stage[p] \in Rising \union {"unborn", "gone"}
        /\ sigterm = {}
        /\ \A c \in Client : at[c] \in {"idle", "polling", "connected"}
        /\ \A c \in Client :
              at[c] = "polling" => lock # NoOne \/ \E p \in Daemon : stage[p] = "new"

DaemonInv == DaemonTypes /\ LockTells /\ Undisturbed

\* A step of a process keeps the invariant.
LEMMA ProcessKeeps ==
    ASSUME DaemonInv, NEW p \in Daemon, ProcessStep(p)
    PROVE  DaemonInv'
  <1> USE DaemonAssumption DEF DaemonInv, DaemonTypes, LockTells, Undisturbed, Holding, Stages, Activities, Rising,
          procVars, serverVars, clientVars, historyVars, Moves
  <1>1. CASE Take(p)
    BY <1>1 DEF Take
  <1>2. CASE Lose(p)
    BY <1>2 DEF Lose
  <1>3. CASE Stamp(p)
    BY <1>3 DEF Stamp
  <1>4. CASE Catch(p)
    BY <1>4 DEF Catch
  <1>5. CASE OpenCatalogs(p)
    BY <1>5 DEF OpenCatalogs
  <1>6. CASE Unlink(p)
    BY <1>6 DEF Unlink
  <1>7. CASE Listen(p)
    BY <1>7 DEF Listen
  <1>8. CASE StartFails(p)
    BY <1>8 DEF StartFails
  <1>9. CASE Cancel(p)
    BY <1>9 DEF Cancel
  <1>10. CASE ServeFails(p)
    BY <1>10 DEF ServeFails
  <1>11. CASE CloseListener(p)
    BY <1>11 DEF CloseListener
  <1>12. CASE SchedulerReturns(p)
    BY <1>12 DEF SchedulerReturns
  <1>13. CASE Drained(p)
    BY <1>13 DEF Drained
  <1>14. CASE RemoveSocket(p)
    BY <1>14 DEF RemoveSocket
  <1>15. CASE CloseCatalogs(p)
    BY <1>15 DEF CloseCatalogs
  <1>16. CASE Release(p)
    BY <1>16 DEF Release
  <1>17. CASE Exit(p)
    BY <1>17 DEF Exit, Ends
  <1>18. CASE Crash(p)
    BY <1>18 DEF Crash, Ends, Alive
  <1> QED
    BY <1>1, <1>2, <1>3, <1>4, <1>5, <1>6, <1>7, <1>8, <1>9, <1>10, <1>11, <1>12, <1>13, <1>14,
       <1>15, <1>16, <1>17, <1>18 DEF ProcessStep

\* And a step of a client.
LEMMA ClientKeeps ==
    ASSUME DaemonInv, NEW c \in Client, ClientStep(c)
    PROVE  DaemonInv'
  <1> USE DaemonAssumption DEF DaemonInv, DaemonTypes, LockTells, Undisturbed, Holding, Stages, Activities, Rising,
          procVars, serverVars, clientVars, historyVars, Moves
  <1>1. CASE Dial(c)
    BY <1>1 DEF Dial, Connects
  <1>2. CASE GiveUp(c)
    BY <1>2 DEF GiveUp
  <1>3. CASE Hangup(c)
    BY <1>3 DEF Hangup
  <1>4. CASE Probe(c)
    BY <1>4 DEF Probe
  <1>5. CASE Stopped(c)
    BY <1>5 DEF Stopped
  <1>6. CASE Held(c)
    BY <1>6 DEF Held
  <1>7. CASE Signal(c)
    BY <1>7 DEF Signal, Ends, Alive
  <1>8. CASE StopFails(c)
    BY <1>8 DEF StopFails, Alive
  <1>9. ASSUME NEW p \in Daemon, Spawn(c, p) PROVE DaemonInv'
    BY <1>9 DEF Spawn
  <1> QED
    BY <1>1, <1>2, <1>3, <1>4, <1>5, <1>6, <1>7, <1>8, <1>9 DEF ClientStep

\* A handler comes and goes without any of it.
LEMMA HandlerKeeps ==
    ASSUME DaemonInv, NEW p \in Daemon, NEW c \in Client, HandlerStep(p, c)
    PROVE  DaemonInv'
  BY DEF HandlerStep, Accept, HandlerEnds, DaemonInv, DaemonTypes, LockTells, Undisturbed,
     Holding, Stages, Activities, Rising,
         procVars, serverVars, clientVars, historyVars

LEMMA DaemonStepInv == DaemonInv /\ [DaemonNext]_daemonVars => DaemonInv'
  <1> SUFFICES ASSUME DaemonInv, [DaemonNext]_daemonVars PROVE DaemonInv'
    OBVIOUS
  <1>1. CASE DaemonNext
    BY <1>1, ProcessKeeps, HandlerKeeps, ClientKeeps DEF DaemonNext
  <1>2. CASE UNCHANGED daemonVars
    BY <1>2 DEF DaemonInv, DaemonTypes, LockTells, Undisturbed, Holding, Stages, Activities,
       Rising,
       daemonVars, procVars, serverVars, clientVars, historyVars
  <1> QED
    BY <1>1, <1>2

LEMMA DaemonInitInv == DaemonInit => DaemonInv
  BY DaemonAssumption DEF DaemonInit, DaemonInv, DaemonTypes, LockTells, Undisturbed, Holding,
     Stages, Activities, Rising

\* The lock, what the processes have open and how far they are agree in every state
\* (daemonMain, run, StopDaemon).
THEOREM DaemonInvariant == DaemonSpec => []DaemonInv
  BY DaemonInitInv, DaemonStepInv, PTL DEF DaemonSpec

\* Catalogs and listeners are open in the lock's holder only, and the daemon that
\* serves is the one that clients reach (singleton.go, run).
THEOREM OneDaemonAlways == DaemonSpec => []OneDaemon
  <1>1. DaemonInv => OneDaemon
    BY DEF DaemonInv, DaemonTypes, LockTells, OneDaemon, Holding
  <1> QED
    BY <1>1, DaemonInvariant, PTL

\* Whoever waits for a daemon that nobody stopped and that did not fail has one on its
\* way (EnsureDaemon).
THEOREM HopeAlways == DaemonSpec => []WaitersHaveHope
  <1>1. DaemonInv => WaitersHaveHope
    BY DaemonAssumption DEF DaemonInv, DaemonTypes, LockTells, Undisturbed, Holding, Stages,
       Activities, Rising, WaitersHaveHope
  <1> QED
    BY <1>1, DaemonInvariant, PTL

\* Both, for any clients, processes, stops and crashes.
THEOREM OneDaemonAlwaysServes == DaemonSpec => []OneDaemonServes
  <1>1. OneDaemon /\ WaitersHaveHope => OneDaemonServes
    BY DEF OneDaemonServes
  <1> QED
    BY <1>1, OneDaemonAlways, HopeAlways, PTL

(***************************************************************************)
(* A connection                                                            *)
(***************************************************************************)

RpcTypes ==
    /\ nextID \in Nat /\ requests \in Seq(Nat)
    /\ answers \in Seq([id : Nat, ok : BOOLEAN])
    /\ returned \in [call : Nat, of : Nat]
    /\ handler \in Nat \union {-1}
    /\ {waiting, torn, serverOpen, late} \subseteq BOOLEAN

\* As long as every call stays for its answer, one frame at most is under way, that of
\* the call that waits.
InStep ==
    ~late =>
        /\ ~waiting => requests = <<>> /\ answers = <<>> /\ handler <= 0
        /\ requests # <<>> => requests = <<nextID>> /\ handler <= 0 /\ answers = <<>>
        /\ handler > 0 => handler = nextID /\ requests = <<>> /\ answers = <<>>
        /\ answers # <<>> => Len(answers) = 1 /\ answers[1].id = nextID

RpcInv == RpcTypes /\ InStep /\ returned.call = returned.of

\* Every step of client, server and connection keeps the invariant.
LEMMA RpcStepInv == RpcInv /\ [RpcNext]_rpcVars => RpcInv'
  <1> SUFFICES ASSUME RpcInv, [RpcNext]_rpcVars PROVE RpcInv'
    OBVIOUS
  <1> USE DEF RpcInv, RpcTypes, InStep
  <1>1. CASE Call
    <2>1. Append(requests, nextID + 1) \in Seq(Nat)
      OBVIOUS
    <2>2. requests' \in Seq(Nat) /\ nextID' \in Nat
      BY <1>1, <2>1 DEF Call
    <2>3. InStep'
      BY <1>1 DEF Call
    <2> QED
      BY <1>1, <2>2, <2>3 DEF Call
  <1>2. CASE Receive
    <2>1. Head(answers) \in [id : Nat, ok : BOOLEAN] /\ Tail(answers) \in Seq([id : Nat, ok : BOOLEAN])
      BY <1>2, HeadTailProperties DEF Receive
    <2>2. ~late => Tail(answers) = <<>>
      <3>1. answers # <<>>
        BY <1>2 DEF Receive
      <3>2. ~late => Len(answers) = 1
        BY <3>1
      <3>3. Len(answers) = 1 => Len(Tail(answers)) = 0
        BY <3>1, HeadTailProperties
      <3> QED
        BY <2>1, <3>2, <3>3, EmptySeq
    <2>3. InStep'
      BY <1>2, <2>2 DEF Receive
    <2> QED
      BY <1>2, <2>1, <2>3 DEF Receive
  <1>3. CASE CallFails
    BY <1>3 DEF CallFails
  <1>4. CASE ReadRequest
    <2>1. Head(requests) \in Nat /\ Tail(requests) \in Seq(Nat)
      BY <1>4, HeadTailProperties DEF ReadRequest
    <2>2. InStep'
      BY <1>4 DEF ReadRequest
    <2> QED
      BY <1>4, <2>1, <2>2 DEF ReadRequest
  <1>5. CASE \E ok \in BOOLEAN : WriteAnswer(ok)
    <2>1. PICK ok \in BOOLEAN : WriteAnswer(ok)
      BY <1>5
    <2>2. answers' = Append(answers, [id |-> handler, ok |-> ok]) /\ handler \in Nat
      BY <2>1 DEF WriteAnswer
    <2> QED
      BY <2>1, <2>2 DEF WriteAnswer
  <1>6. CASE Sweep
    BY <1>6 DEF Sweep
  <1>7. CASE HandlerReturns
    BY <1>7 DEF HandlerReturns
  <1>8. CASE UNCHANGED rpcVars
    BY <1>8 DEF rpcVars
  <1> QED
    BY <1>1, <1>2, <1>3, <1>4, <1>5, <1>6, <1>7, <1>8 DEF RpcNext

\* However many calls share a connection, a result goes to the call that asked for it,
\* and without deadlines every answer does (Client.Call, handleConn).
THEOREM AnswersAlwaysMatch == RpcSpec => []AnswersMatch
  <1>1. RpcInit => RpcInv
    <2> SUFFICES ASSUME RpcInit PROVE RpcInv
      OBVIOUS
    <2>1. requests \in Seq(Nat) /\ answers \in Seq([id : Nat, ok : BOOLEAN])
      BY EmptySeq DEF RpcInit
    <2>2. InStep
      BY DEF RpcInit, InStep
    <2> QED
      BY <2>1, <2>2 DEF RpcInit, RpcInv, RpcTypes
  <1>2. RpcInv => AnswersMatch
    BY DEF RpcInv, RpcTypes, InStep, AnswersMatch
  <1> QED
    BY <1>1, <1>2, RpcStepInv, PTL DEF RpcSpec

(***************************************************************************)
(* The update                                                              *)
(***************************************************************************)

\* Before the backup is made, and after the new file is in place, the program is at its
\* path; in between the backup is whole.
ProgramOrBackup ==
    /\ Whole(exec) \/ Whole(backup)
    /\ step \in {"downloaded", "extracted", "cleared", "installed"} => Whole(exec)
    /\ step \in {"replacing", "copying"} => Whole(backup)
    /\ step = "idle" /\ outcome # "killed" => Whole(exec)

\* What passed the checksum is what the release holds.
CheckedIsNew ==
    /\ archive \in {"new", "bad"}
    /\ checksummed /\ step \notin {"idle", "downloaded"} => archive = "new"
    /\ checksummed /\ step = "installed" => exec = "new"
    /\ checksummed /\ step = "idle" /\ outcome = "updated" => exec = "new"

UpdateInv == ProgramOrBackup /\ CheckedIsNew

LEMMA UpdateStepInv == UpdateInv /\ [UpdateNext]_updateVars => UpdateInv'
  <1> SUFFICES ASSUME UpdateInv, [UpdateNext]_updateVars PROVE UpdateInv'
    OBVIOUS
  <1> USE DEF UpdateInv, ProgramOrBackup, CheckedIsNew, Whole, Over, Settings
  <1>1. CASE Download
    BY <1>1 DEF Download
  <1>2. CASE Verify
    BY <1>2 DEF Verify
  <1>3. CASE ClearBackup
    BY <1>3 DEF ClearBackup
  <1>4. CASE Backup
    BY <1>4 DEF Backup
  <1>5. CASE Move
    BY <1>5 DEF Move
  <1>6. CASE StartCopy
    BY <1>6 DEF StartCopy
  <1>7. CASE Copied
    BY <1>7 DEF Copied
  <1>8. CASE Finish
    BY <1>8 DEF Finish
  <1>9. CASE Fail
    BY <1>9 DEF Fail
  <1>10. CASE Restore
    BY <1>10 DEF Restore
  <1>11. CASE Kill
    BY <1>11 DEF Kill
  <1>12. CASE UNCHANGED updateVars
    BY <1>12 DEF updateVars
  <1> QED
    BY <1>1, <1>2, <1>3, <1>4, <1>5, <1>6, <1>7, <1>8, <1>9, <1>10, <1>11, <1>12 DEF UpdateNext

\* However many updates are tried, fail or are killed, on either platform and across
\* devices, a whole program is there (replaceUnixBinary, replaceWindowsBinary).
THEOREM ProgramIsAlwaysKept == UpdateSpec => []ProgramIsKept
  <1>1. UpdateInit => UpdateInv
    BY DEF UpdateInit, UpdateInv, ProgramOrBackup, CheckedIsNew, Whole
  <1>2. UpdateInv => ProgramIsKept
    BY DEF UpdateInv, ProgramOrBackup, CheckedIsNew, ProgramIsKept
  <1> QED
    BY <1>1, <1>2, UpdateStepInv, PTL DEF UpdateSpec

(***************************************************************************)
(* The symbols of what a worktree shows                                    *)
(***************************************************************************)

\* The rows of an artifact are one row, of its own bytes.
RowsAreOwn ==
    /\ \A s \in symbols : s.from = s.of
    /\ \A s, t \in symbols : s.wt = t.wt /\ s.path = t.path /\ s.of = t.of => s = t

\* What the runner carries from the load to the write it has verified.
CarriesVerified ==
    \A w \in Worktree : runner[w].at = "loaded" => runner[w].bytes[2] = runner[w].bytes[3]

\* The semaphore of the runner has one place.
OneRuns ==
    /\ DOMAIN runner = Worktree
    /\ \A v, w \in Busy : v = w

SymbolInv == RowsAreOwn /\ CarriesVerified /\ OneRuns

\* Rows of one artifact in place of all it had.
LEMMA RowsReplaced ==
    ASSUME RowsAreOwn, NEW w, NEW b, b[2] = b[3], symbols' = Replaced(w, b)
    PROVE  RowsAreOwn'
  BY DEF RowsAreOwn, Replaced, Row

LEMMA SymbolStep ==
    ASSUME SymbolInv, [SymbolNext]_symbolVars
    PROVE  SymbolInv'
  <1> USE DEF SymbolInv, symbolBounds
  <1>1. ASSUME NEW w \in Worktree, NEW p \in Path, NEW c, ChangeFile(w, p, c)
        PROVE  SymbolInv'
    BY <1>1 DEF ChangeFile, RowsAreOwn, CarriesVerified, OneRuns, Busy
  <1>2. ASSUME NEW w \in Worktree, NEW p \in Path, Show(w, p)
        PROVE  SymbolInv'
    <2>1. RowsAreOwn'
      BY <1>2 DEF Show, RowsAreOwn, Current, Row
    <2> QED
      BY <1>2, <2>1 DEF Show, CarriesVerified, OneRuns, Busy
  <1>3. CASE RestartDaemon
    BY <1>3 DEF RestartDaemon, RowsAreOwn, CarriesVerified, OneRuns, Busy, NoRunner
  <1>4. ASSUME NEW w \in Worktree, Attempt(w)
        PROVE  SymbolInv'
    BY <1>4 DEF Attempt, RowsAreOwn, CarriesVerified, OneRuns, Busy
  <1>5. ASSUME NEW w \in Worktree, Acquire(w)
        PROVE  SymbolInv'
    <2>1. runner' = [runner EXCEPT ![w] = [runner[w] EXCEPT !.at = "next"]] /\ UNCHANGED symbols /\ Busy = {}
      BY <1>5 DEF Acquire
    <2> DEFINE stepped == [runner[w] EXCEPT !.at = "next"]
    <2>2. \A v \in Worktree : runner'[v] = IF v = w THEN stepped ELSE runner[v]
      BY <2>1 DEF OneRuns
    <2> QED
      BY <2>1, <2>2 DEF RowsAreOwn, CarriesVerified, OneRuns, Busy
  <1>6. ASSUME NEW w \in Worktree, NEW m \in runner[w].missing, Load(w, m)
        PROVE  SymbolInv'
    <2> DEFINE skipped == [runner[w] EXCEPT !.missing = runner[w].missing \ {m}]
               carried == [at |-> "loaded", missing |-> runner[w].missing \ {m},
                           bytes |-> <<m[1], m[2], files[w][m[1]]>>]
    <2>1. /\ runner[w].at = "next" /\ UNCHANGED symbols
          /\ runner' = [runner EXCEPT ![w] = IF files[w][m[1]] = m[2] THEN carried ELSE skipped]
      BY <1>6 DEF Load, Verified
    <2>2. \A v \in Worktree \ {w} : runner'[v] = runner[v]
      BY <2>1 DEF OneRuns
    <2>3. /\ runner'[w].at \in {"next", "loaded"}
          /\ runner'[w].at = "loaded" => runner'[w].bytes[2] = runner'[w].bytes[3]
      <3>1. CASE files[w][m[1]] = m[2]
        BY <2>1, <3>1 DEF OneRuns
      <3>2. CASE files[w][m[1]] # m[2]
        <4>1. runner'[w] = skipped
          BY <2>1, <3>2 DEF OneRuns
        <4>2. skipped.at = runner[w].at
          OBVIOUS
        <4> QED
          BY <2>1, <4>1, <4>2
      <3> QED
        BY <3>1, <3>2
    <2>4. DOMAIN runner' = Worktree
      BY <2>1 DEF OneRuns
    <2> HIDE DEF skipped, carried
    <2> QED
      BY <2>1, <2>2, <2>3, <2>4 DEF RowsAreOwn, CarriesVerified, OneRuns, Busy
  <1>7. ASSUME NEW w \in Worktree, Store(w)
        PROVE  SymbolInv'
    <2>1. RowsAreOwn'
      BY <1>7, RowsReplaced DEF Store, CarriesVerified, RowsAreOwn
    <2> QED
      BY <1>7, <2>1 DEF Store, CarriesVerified, OneRuns, Busy
  <1>8. ASSUME NEW w \in Worktree, Finished(w)
        PROVE  SymbolInv'
    BY <1>8 DEF Finished, RowsAreOwn, CarriesVerified, OneRuns, Busy, NoRunner
  <1>9. CASE UNCHANGED symbolVars
    BY <1>9 DEF symbolVars, RowsAreOwn, CarriesVerified, OneRuns, Busy
  <1> QED
    BY <1>1, <1>2, <1>3, <1>4, <1>5, <1>6, <1>7, <1>8, <1>9 DEF SymbolNext

\* For any worktrees, files and contents, whatever changes between the listing,
\* the load and the write: an artifact's symbols are those of its own bytes, it
\* has them once, and one worktree at a time is backfilled.
THEOREM SymbolsAlwaysOwn == SymbolSpec => []SymbolsAreTheArtifacts
  <1>1. SymbolInit => SymbolInv
    BY DEF SymbolInit, SymbolInv, RowsAreOwn, CarriesVerified, OneRuns, Busy, NoRunner
  <1>2. SymbolInv => SymbolsAreTheArtifacts
    <2> SUFFICES ASSUME SymbolInv
                 PROVE  Cardinality(Busy) <= 1
      BY DEF SymbolInv, RowsAreOwn, SymbolsAreTheArtifacts
    <2>1. CASE Busy = {}
      BY <2>1, FS_EmptySet
    <2>2. CASE Busy # {}
      <3>1. PICK w \in Busy : TRUE
        BY <2>2
      <3>2. Busy = {w}
        BY <3>1 DEF SymbolInv, OneRuns
      <3> QED
        BY <3>2, FS_Singleton
    <2> QED
      BY <2>1, <2>2
  <1> QED
    BY <1>1, <1>2, SymbolStep, PTL DEF SymbolSpec

(***************************************************************************)
(* Registrations                                                           *)
(***************************************************************************)

\* Where a call holds the mutex of Register, and what it has done there.
InCall == {"check", "opened", "added", "built", "bound", "planned", "listed", "stamped"}
Bound == {"bound", "planned", "listed", "stamped"}

RegTypes ==
    /\ daemon \in {"down", "starts", "serves", "drained", "closed"}
    /\ call \in [Everybody -> [at : InCall \cup {"none", "lock"}, repo : Repo \cup {Nobody},
                               reconciled : BOOLEAN]]
    /\ \A c \in Everybody : At(c, "none") \/ Of(c) \in Repo
    /\ toStart \subseteq Repo
    /\ cats \subseteq Repo /\ bound \subseteq Repo /\ built \subseteq Repo
    /\ watched \subseteq Repo
    /\ handles \in [Repo -> Int]
    /\ {memory, registry} \subseteq [Repo -> [listed : BOOLEAN, cursor : BOOLEAN]]

\* One call at a time is inside.
OneInside == \A c \in Everybody : call[c].at \in InCall <=> mutex = c

Opening(r) == \E c \in Everybody : At(c, "opened") /\ Of(c) = r

HandlesCounted ==
    /\ \A r \in Repo : handles[r] = (IF Opening(r) THEN 1 ELSE 0) + (IF r \in cats THEN 1 ELSE 0)
    /\ IsClosed => cats = {}

\* A call has left behind it what the next steps and the routes rely on.
CallsLeave ==
    \A c \in Everybody :
        /\ At(c, "built") => Of(c) \in built
        /\ call[c].at \in Bound => Of(c) \in bound
        /\ call[c].at \in {"listed", "stamped"} => memory[Of(c)].listed

NothingIsLeft ==
    daemon = "down" =>
        /\ call = [c \in Everybody |-> NoCall] /\ mutex = Nobody
        /\ cats = {} /\ bound = {} /\ built = {} /\ watched = {}

\* The file is never ahead of the memory.
FileBehind ==
    \A r \in Repo : /\ registry[r].listed => memory[r].listed
                    /\ registry[r].cursor => memory[r].cursor

RegInv ==
    /\ RegTypes /\ OneInside /\ HandlesCounted /\ CallsLeave /\ NothingIsLeft /\ FileBehind
    /\ RoutesAreComplete

\* What a step does to the two copies of the registry.
OnlyAdds ==
    \A r \in Repo : /\ memory[r].listed => memory'[r].listed
                    /\ memory[r].cursor => memory'[r].cursor

Entry == [listed : BOOLEAN, cursor : BOOLEAN]

LEMMA SavedAdds ==
    ASSUME RegInv, NEW r \in Repo, NEW e \in Entry, Saved([memory EXCEPT ![r] = e]),
           memory[r].listed => e.listed, memory[r].cursor => e.cursor
    PROVE  /\ {memory, registry}' \subseteq [Repo -> Entry]
           /\ OnlyAdds /\ FileBehind' /\ KeepsListed /\ memory'[r] = e
  <1>1. memory \in [Repo -> Entry] /\ registry \in [Repo -> Entry]
    BY DEF RegInv, RegTypes, Entry
  <1>2. /\ memory' = [memory EXCEPT ![r] = e]
        /\ registry' = registry \/ registry' = memory'
    BY DEF Saved
  <1>3. /\ memory' \in [Repo -> Entry] /\ memory'[r] = e
        /\ \A q \in Repo \ {r} : memory'[q] = memory[q]
    BY <1>1, <1>2
  <1>4. OnlyAdds
    BY <1>3 DEF OnlyAdds
  <1>5. registry' \in [Repo -> Entry]
    BY <1>1, <1>2, <1>3
  <1>6. FileBehind' /\ KeepsListed
    BY <1>2, <1>4 DEF OnlyAdds, FileBehind, KeepsListed, RegInv
  <1> QED
    BY <1>3, <1>4, <1>5, <1>6

LEMMA UpsertAdds ==
    ASSUME RegInv, NEW r \in Repo, Upsert(r)
    PROVE  /\ {memory, registry}' \subseteq [Repo -> Entry]
           /\ OnlyAdds /\ FileBehind' /\ KeepsListed /\ memory'[r].listed
  <1> DEFINE e == [memory[r] EXCEPT !.listed = TRUE]
  <1>1. memory[r] \in Entry
    BY DEF RegInv, RegTypes, Entry
  <1>2. e \in Entry /\ e.listed /\ e.cursor = memory[r].cursor
    BY <1>1 DEF Entry
  <1>3. Saved([memory EXCEPT ![r] = e])
    BY DEF Upsert
  <1> HIDE DEF e
  <1> QED
    BY <1>2, <1>3, SavedAdds

LEMMA ListKept ==
    ASSUME RegInv, UNCHANGED listVars
    PROVE  /\ {memory, registry}' \subseteq [Repo -> Entry]
           /\ OnlyAdds /\ FileBehind' /\ KeepsListed
  BY DEF listVars, RegInv, RegTypes, FileBehind, OnlyAdds, KeepsListed, Entry

LEMMA TouchAdds ==
    ASSUME RegInv, NEW r \in Repo, Touch(r)
    PROVE  /\ {memory, registry}' \subseteq [Repo -> Entry]
           /\ OnlyAdds /\ FileBehind' /\ KeepsListed
  <1> DEFINE e == [memory[r] EXCEPT !.cursor = TRUE]
  <1>1. memory[r] \in Entry
    BY DEF RegInv, RegTypes, Entry
  <1>2. e \in Entry /\ e.cursor /\ e.listed = memory[r].listed
    BY <1>1 DEF Entry
  <1>3. CASE memory[r].listed
    <2>1. Saved([memory EXCEPT ![r] = e])
      BY <1>3 DEF Touch
    <2> HIDE DEF e
    <2> QED
      BY <1>2, <2>1, SavedAdds
  <1> QED
    BY <1>3, ListKept DEF Touch

Ats == InCall \cup {"none", "lock"}
CallType == [at : Ats, repo : Repo \cup {Nobody}, reconciled : BOOLEAN]

\* Where the calls are after one of them has moved.
Moved(c, to) ==
    /\ call' \in [Everybody -> CallType]
    /\ call'[c].at = to /\ call'[c].repo = Of(c)
    /\ \A d \in Everybody \ {c} : call'[d] = call[d]

LEMMA CallGoes ==
    ASSUME RegInv, NEW c \in Everybody, NEW to \in Ats, Goes(c, to)
    PROVE  Moved(c, to)
  <1> DEFINE x == [call[c] EXCEPT !.at = to]
  <1>1. call \in [Everybody -> CallType]
    BY DEF RegInv, RegTypes, Ats, CallType
  <1>2. x \in CallType /\ x.at = to /\ x.repo = Of(c)
    BY <1>1 DEF CallType, Of
  <1>3. call' = [call EXCEPT ![c] = x]
    BY DEF Goes
  <1> HIDE DEF x
  <1> QED
    BY <1>1, <1>2, <1>3 DEF Moved

LEMMA CallReturns ==
    ASSUME RegInv, NEW c \in Everybody, Returns(c)
    PROVE  /\ call' \in [Everybody -> CallType] /\ mutex' = Nobody
           /\ call'[c].at = "none"
           /\ \A d \in Everybody \ {c} : call'[d] = call[d]
  <1>1. call \in [Everybody -> CallType]
    BY DEF RegInv, RegTypes, Ats, CallType
  <1>2. NoCall \in CallType /\ NoCall.at = "none"
    BY DEF NoCall, CallType, Ats
  <1>3. call' = [call EXCEPT ![c] = NoCall] /\ mutex' = Nobody
    BY DEF Returns
  <1> QED
    BY <1>1, <1>2, <1>3

\* What holds of the calls when one of those inside moves on, or leaves.
CallsRight ==
    /\ call \in [Everybody -> CallType]
    /\ \A c \in Everybody : At(c, "none") \/ Of(c) \in Repo
    /\ OneInside

LEMMA InsideGoes ==
    ASSUME RegInv, NEW c \in Everybody, call[c].at \in InCall, NEW to \in InCall, Goes(c, to),
           UNCHANGED mutex
    PROVE  CallsRight' /\ Moved(c, to)
  <1>1. Moved(c, to)
    BY CallGoes DEF Ats
  <1>2. Of(c) \in Repo
    BY DEF RegInv, RegTypes, At, InCall
  <1>3. mutex = c
    BY DEF RegInv, OneInside
  <1>4. OneInside'
    BY <1>1, <1>3 DEF RegInv, OneInside, Moved
  <1> QED
    BY <1>1, <1>2, <1>4 DEF CallsRight, Moved, RegInv, RegTypes, At, Of

LEMMA InsideReturns ==
    ASSUME RegInv, NEW c \in Everybody, call[c].at \in InCall, Returns(c)
    PROVE  /\ CallsRight' /\ call'[c].at = "none"
           /\ \A d \in Everybody \ {c} : call'[d] = call[d]
  <1>1. /\ call' \in [Everybody -> CallType] /\ mutex' = Nobody
        /\ call'[c].at = "none"
        /\ \A d \in Everybody \ {c} : call'[d] = call[d]
    BY CallReturns
  <1>2. \A d \in Everybody : d # Nobody /\ (call[d].at \in InCall => d = c)
    BY RegistrationAssumption DEF Everybody, RegInv, OneInside
  <1>3. OneInside'
    BY <1>1, <1>2 DEF OneInside, InCall
  <1> QED
    BY <1>1, <1>3 DEF CallsRight, RegInv, RegTypes, At, Of

LEMMA CallsStay ==
    ASSUME RegInv, UNCHANGED <<call, mutex>>
    PROVE  CallsRight'
  BY DEF CallsRight, RegInv, RegTypes, OneInside, At, Of, CallType, Ats

\* The parts of the invariant that a step has to re-establish.
LEMMA Reassembled ==
    ASSUME RegInv, CallsRight',
           {memory, registry}' \subseteq [Repo -> Entry], FileBehind', KeepsListed,
           daemon' \in {"down", "starts", "serves", "drained", "closed"},
           toStart' \subseteq Repo, cats' \subseteq Repo, bound' \subseteq Repo,
           built' \subseteq Repo, watched' \subseteq Repo, handles' \in [Repo -> Int],
           HandlesCounted', CallsLeave', NothingIsLeft', RoutesAreComplete'
    PROVE  RegInv' /\ KeepsListed
  BY DEF RegInv, RegTypes, CallsRight, Entry, CallType, Ats

(***************************************************************************)
(* The steps of a call                                                     *)
(***************************************************************************)

\* One outside, and nobody is left in between.
LEMMA LockKeeps ==
    ASSUME RegInv, NEW c \in Everybody, Lock(c)
    PROVE  RegInv' /\ KeepsListed
  <1>1. /\ At(c, "lock") /\ mutex = Nobody /\ mutex' = c /\ Goes(c, "check")
        /\ UNCHANGED <<hostVars, setVars, listVars, watched, indexed>>
    BY DEF Lock
  <1>2. Moved(c, "check")
    BY <1>1, CallGoes DEF Ats, InCall
  <1>3. \A d \in Everybody : call[d].at \notin InCall
    BY <1>1, RegistrationAssumption DEF RegInv, OneInside, Everybody
  <1>4. CallsRight'
    BY <1>1, <1>2, <1>3 DEF CallsRight, Moved, OneInside, InCall, RegInv, RegTypes, At, Of
  <1>5. HandlesCounted'
    BY <1>1, <1>2 DEF HandlesCounted, Opening, Moved, At, Of, RegInv, setVars, hostVars, IsClosed
  <1>6. CallsLeave'
    BY <1>1, <1>2 DEF CallsLeave, Moved, At, Of, RegInv, setVars, listVars, Bound
  <1>7. daemon # "down"
    BY <1>1 DEF RegInv, NothingIsLeft, NoCall, At
  <1>8. NothingIsLeft' /\ RoutesAreComplete'
    BY <1>1, <1>7 DEF NothingIsLeft, RoutesAreComplete, RegInv, hostVars, setVars, listVars
  <1> QED
    BY <1>1, <1>4, <1>5, <1>6, <1>8, ListKept, Reassembled
        DEF RegInv, RegTypes, hostVars, setVars

\* Nobody is inside a daemon that is down.
LEMMA InsideIsUp ==
    ASSUME RegInv, NEW c \in Everybody, call[c].at \in InCall
    PROVE  /\ daemon # "down" /\ Of(c) \in Repo /\ mutex = c
           /\ \A d \in Everybody \ {c} : call[d].at \notin InCall
  BY DEF RegInv, RegTypes, NothingIsLeft, NoCall, OneInside, InCall, At

LEMMA OpenCatalogKeeps ==
    ASSUME RegInv, NEW c \in Everybody, OpenCatalog(c)
    PROVE  RegInv' /\ KeepsListed
  <1>1. /\ At(c, "check")
        /\ UNCHANGED <<hostVars, cats, bound, built, listVars, watched, indexed>>
    BY DEF OpenCatalog
  <1>2. call[c].at \in InCall
    BY <1>1 DEF At, InCall
  <1>3. NothingIsLeft' /\ RoutesAreComplete'
    BY <1>1, <1>2, InsideIsUp DEF NothingIsLeft, RoutesAreComplete, RegInv, hostVars, listVars
  <1>4. CASE ~IsClosed /\ handles' = [handles EXCEPT ![Of(c)] = @ + 1] /\ Goes(c, "opened") /\ UNCHANGED mutex
    <2>1. CallsRight' /\ Moved(c, "opened")
      BY <1>2, <1>4, InsideGoes DEF InCall
    <2>2. HandlesCounted'
      <3> SUFFICES ASSUME NEW r \in Repo
                   PROVE  handles'[r] = (IF Opening(r)' THEN 1 ELSE 0) + (IF r \in cats' THEN 1 ELSE 0)
        BY <1>1, <1>4 DEF HandlesCounted, IsClosed, hostVars
      <3>1. Opening(r)' <=> Of(c) = r
        BY <2>1, <1>2, InsideIsUp DEF Opening, Moved, At, Of, InCall
      <3>2. ~Opening(r)
        BY <1>1, <1>2, InsideIsUp DEF Opening, At, InCall
      <3>3. handles'[r] = IF Of(c) = r THEN handles[r] + 1 ELSE handles[r]
        BY <1>4 DEF RegInv, RegTypes
      <3> QED
        BY <3>1, <3>2, <3>3, <1>1 DEF RegInv, RegTypes, HandlesCounted
    <2>3. CallsLeave'
      BY <1>1, <2>1 DEF CallsLeave, Moved, At, Of, RegInv, listVars, Bound
    <2>4. handles' \in [Repo -> Int]
      BY <1>2, <1>4, InsideIsUp DEF RegInv, RegTypes
    <2> QED
      BY <1>1, <1>3, <2>1, <2>2, <2>3, <2>4, ListKept, Reassembled DEF RegInv, RegTypes, hostVars
  <1>5. CASE Returns(c) /\ UNCHANGED handles
    <2>1. /\ CallsRight' /\ call'[c].at = "none"
          /\ \A d \in Everybody \ {c} : call'[d] = call[d]
      BY <1>2, <1>5, InsideReturns
    <2>2. HandlesCounted'
      BY <1>1, <1>5, <2>1 DEF HandlesCounted, Opening, At, Of, RegInv, hostVars, IsClosed
    <2>3. CallsLeave'
      BY <1>1, <2>1 DEF CallsLeave, At, Of, RegInv, listVars, Bound
    <2> QED
      BY <1>1, <1>3, <1>5, <2>1, <2>2, <2>3, ListKept, Reassembled DEF RegInv, RegTypes, hostVars
  <1> QED
    BY <1>4, <1>5 DEF OpenCatalog

LEMMA AddKeeps ==
    ASSUME RegInv, NEW c \in Everybody, Add(c)
    PROVE  RegInv' /\ KeepsListed
  <1>1. /\ At(c, "opened")
        /\ UNCHANGED <<hostVars, bound, built, listVars, watched, indexed>>
    BY DEF Add
  <1>2. call[c].at \in InCall
    BY <1>1 DEF At, InCall
  <1>3. /\ Of(c) \in Repo /\ daemon # "down"
        /\ \A r \in Repo : Opening(r) <=> Of(c) = r
    BY <1>1, <1>2, InsideIsUp DEF Opening, At, InCall
  <1>4. CASE Dropped(Of(c)) /\ Returns(c) /\ UNCHANGED cats
    <2>1. /\ CallsRight' /\ call'[c].at = "none"
          /\ \A d \in Everybody \ {c} : call'[d] = call[d]
      BY <1>2, <1>4, InsideReturns
    <2>2. \A r \in Repo : ~Opening(r)'
      BY <1>2, <2>1, InsideIsUp DEF Opening, At, Of, InCall
    <2>3. handles' = [handles EXCEPT ![Of(c)] = handles[Of(c)] - 1]
      BY <1>4 DEF Dropped
    <2>4. HandlesCounted'
      BY <1>1, <1>3, <1>4, <2>2, <2>3 DEF HandlesCounted, RegInv, RegTypes, hostVars, IsClosed
    <2>5. CallsLeave'
      BY <1>1, <2>1 DEF CallsLeave, At, Of, RegInv, listVars, Bound
    <2>6. handles' \in [Repo -> Int]
      BY <1>3, <2>3 DEF RegInv, RegTypes
    <2>7. NothingIsLeft' /\ RoutesAreComplete'
      BY <1>1, <1>3, <1>4 DEF NothingIsLeft, RoutesAreComplete, RegInv, hostVars, listVars
    <2> QED
      BY <1>1, <1>4, <2>1, <2>4, <2>5, <2>6, <2>7, ListKept, Reassembled DEF RegInv, RegTypes,
         hostVars
  <1>5. CASE ~IsClosed /\ Of(c) \in cats /\ Dropped(Of(c)) /\ Goes(c, "added") /\ UNCHANGED <<cats, mutex>>
    <2>1. CallsRight' /\ Moved(c, "added")
      BY <1>2, <1>5, InsideGoes DEF InCall
    <2>2. \A r \in Repo : ~Opening(r)'
      BY <1>2, <2>1, InsideIsUp DEF Opening, At, Of, InCall, Moved
    <2>3. handles' = [handles EXCEPT ![Of(c)] = handles[Of(c)] - 1]
      BY <1>5 DEF Dropped
    <2>4. HandlesCounted'
      BY <1>1, <1>3, <1>5, <2>2, <2>3 DEF HandlesCounted, RegInv, RegTypes, hostVars, IsClosed
    <2>5. CallsLeave'
      BY <1>1, <2>1 DEF CallsLeave, Moved, At, Of, RegInv, listVars, Bound
    <2>6. handles' \in [Repo -> Int]
      BY <1>3, <2>3 DEF RegInv, RegTypes
    <2>7. NothingIsLeft' /\ RoutesAreComplete'
      BY <1>1, <1>3, <1>5 DEF NothingIsLeft, RoutesAreComplete, RegInv, hostVars, listVars
    <2> QED
      BY <1>1, <1>5, <2>1, <2>4, <2>5, <2>6, <2>7, ListKept, Reassembled DEF RegInv, RegTypes,
         hostVars
  <1>6. CASE /\ ~IsClosed /\ Of(c) \notin cats /\ cats' = cats \union {Of(c)}
             /\ Goes(c, "added") /\ UNCHANGED <<handles, mutex>>
    <2>1. CallsRight' /\ Moved(c, "added")
      BY <1>2, <1>6, InsideGoes DEF InCall
    <2>2. \A r \in Repo : ~Opening(r)'
      BY <1>2, <2>1, InsideIsUp DEF Opening, At, Of, InCall, Moved
    <2>4. HandlesCounted'
      BY <1>1, <1>3, <1>6, <2>2 DEF HandlesCounted, RegInv, RegTypes, hostVars, IsClosed
    <2>5. CallsLeave'
      BY <1>1, <2>1 DEF CallsLeave, Moved, At, Of, RegInv, listVars, Bound
    <2>7. NothingIsLeft' /\ RoutesAreComplete'
      BY <1>1, <1>3, <1>6 DEF NothingIsLeft, RoutesAreComplete, RegInv, hostVars, listVars
    <2> QED
      BY <1>1, <1>3, <1>6, <2>1, <2>4, <2>5, <2>7, ListKept, Reassembled DEF RegInv, RegTypes,
         hostVars
  <1> QED
    BY <1>4, <1>5, <1>6 DEF Add

\* The steps past Add leave the handles alone.
LEMMA HandlesStay ==
    ASSUME RegInv, UNCHANGED <<handles, cats, daemon>>,
           \A c \in Everybody : call'[c] = call[c] \/ {call[c].at, call'[c].at} \cap {"opened"} = {}
    PROVE  HandlesCounted'
  <1>1. \A c \in Everybody, r \in Repo :
           (call'[c].at = "opened" /\ call'[c].repo = r) <=> (call[c].at = "opened" /\ call[c].repo = r)
    OBVIOUS
  <1>2. \A r \in Repo : Opening(r)' <=> Opening(r)
    BY <1>1 DEF Opening, At, Of
  <1> QED
    BY <1>2 DEF RegInv, HandlesCounted, IsClosed

LEMMA GivesUp ==
    ASSUME RegInv, NEW c \in Everybody, call[c].at \in InCall \ {"opened"}, Returns(c),
           UNCHANGED <<hostVars, setVars, listVars, watched>>
    PROVE  RegInv' /\ KeepsListed
  <1>1. /\ CallsRight' /\ call'[c].at = "none"
        /\ \A d \in Everybody \ {c} : call'[d] = call[d]
    BY InsideReturns
  <1>2. HandlesCounted'
    BY <1>1, HandlesStay DEF hostVars, setVars
  <1>3. CallsLeave'
    BY <1>1 DEF CallsLeave, At, Of, RegInv, setVars, listVars, Bound
  <1>4. NothingIsLeft' /\ RoutesAreComplete'
    BY InsideIsUp DEF NothingIsLeft, RoutesAreComplete, RegInv, hostVars, setVars, listVars
  <1> QED
    BY <1>1, <1>2, <1>3, <1>4, ListKept, Reassembled DEF RegInv, RegTypes, hostVars, setVars

LEMMA BuildKeeps ==
    ASSUME RegInv, NEW c \in Everybody, Build(c)
    PROVE  RegInv' /\ KeepsListed
  <1>1. /\ At(c, "added")
        /\ UNCHANGED <<hostVars, cats, bound, handles, listVars, watched, indexed>>
    BY DEF Build
  <1>2. call[c].at \in InCall
    BY <1>1 DEF At, InCall
  <1>3. CASE Of(c) \in cats
    <2>1. built' = built \cup {Of(c)} /\ Goes(c, "built") /\ UNCHANGED mutex
      BY <1>3 DEF Build
    <2>2. CallsRight' /\ Moved(c, "built")
      BY <1>2, <2>1, InsideGoes DEF InCall
    <2>3. HandlesCounted'
      BY <1>1, <2>2, HandlesStay DEF hostVars, Moved, At
    <2>4. CallsLeave'
      BY <1>1, <2>1, <2>2 DEF CallsLeave, Moved, At, Of, RegInv, listVars, Bound
    <2>5. NothingIsLeft' /\ RoutesAreComplete'
      BY <1>1, <1>2, <1>3, <2>1, InsideIsUp
          DEF NothingIsLeft, RoutesAreComplete, RegInv, hostVars, listVars
    <2>6. built' \subseteq Repo
      BY <1>3, <2>1 DEF RegInv, RegTypes
    <2> QED
      BY <1>1, <2>2, <2>3, <2>4, <2>5, <2>6, ListKept, Reassembled DEF RegInv, RegTypes, hostVars
  <1>4. CASE Of(c) \notin cats
    <2>1. Returns(c) /\ UNCHANGED built
      BY <1>4 DEF Build
    <2> QED
      BY <1>1, <1>2, <2>1, GivesUp DEF At, setVars
  <1> QED
    BY <1>3, <1>4

LEMMA BindKeeps ==
    ASSUME RegInv, NEW c \in Everybody, Bind(c)
    PROVE  RegInv' /\ KeepsListed
  <1>1. /\ At(c, "built")
        /\ UNCHANGED <<hostVars, cats, built, handles, listVars, watched, indexed>>
    BY DEF Bind
  <1>2. call[c].at \in InCall
    BY <1>1 DEF At, InCall
  <1>3. CASE Of(c) \in cats /\ bound' = bound \cup {Of(c)} /\ Goes(c, "bound") /\ UNCHANGED mutex
    <2>2. CallsRight' /\ Moved(c, "bound")
      BY <1>2, <1>3, InsideGoes DEF InCall
    <2>3. HandlesCounted'
      BY <1>1, <2>2, HandlesStay DEF hostVars, Moved, At
    <2>4. CallsLeave'
      BY <1>1, <1>3, <2>2 DEF CallsLeave, Moved, At, Of, RegInv, listVars, Bound
    <2>5. Of(c) \in built
      BY <1>1 DEF RegInv, CallsLeave
    <2>6. NothingIsLeft' /\ RoutesAreComplete'
      BY <1>1, <1>2, <1>3, <2>5, InsideIsUp
          DEF NothingIsLeft, RoutesAreComplete, RegInv, hostVars, listVars
    <2>7. bound' \subseteq Repo
      BY <1>3 DEF RegInv, RegTypes
    <2> QED
      BY <1>1, <2>2, <2>3, <2>4, <2>6, <2>7, ListKept, Reassembled DEF RegInv, RegTypes, hostVars
  <1>4. CASE Returns(c) /\ UNCHANGED bound
    BY <1>1, <1>2, <1>4, GivesUp DEF At, setVars
  <1> QED
    BY <1>3, <1>4 DEF Bind

\* A call goes on among those that are bound, and the registry may gain.
LEMMA BoundGoesOn ==
    ASSUME RegInv, NEW c \in Everybody, call[c].at \in Bound, NEW to \in Bound,
           CallsRight', Moved(c, to),
           UNCHANGED <<hostVars, setVars, watched>>,
           {memory, registry}' \subseteq [Repo -> Entry], OnlyAdds, FileBehind', KeepsListed,
           to \in {"listed", "stamped"} => memory'[Of(c)].listed
    PROVE  RegInv' /\ KeepsListed
  <1>1. call[c].at \in InCall
    BY DEF Bound, InCall
  <1>2. HandlesCounted'
    BY HandlesStay DEF hostVars, setVars, Moved, Bound
  <1>3. Of(c) \in bound
    BY DEF RegInv, CallsLeave
  <1>4. CallsLeave'
    <2> SUFFICES ASSUME NEW d \in Everybody
                 PROVE  /\ At(d, "built")' => Of(d)' \in built'
                        /\ call'[d].at \in Bound => Of(d)' \in bound'
                        /\ call'[d].at \in {"listed", "stamped"} => memory'[Of(d)'].listed
      BY DEF CallsLeave
    <2>1. CASE d = c
      BY <2>1, <1>3 DEF Moved, At, Of, Bound, setVars
    <2>2. CASE d # c
      BY <2>2, <1>1, InsideIsUp DEF Moved, At, Of, setVars, RegInv, CallsLeave, InCall, Bound
    <2> QED
      BY <2>1, <2>2
  <1>5. NothingIsLeft' /\ RoutesAreComplete'
    BY <1>1, InsideIsUp
        DEF NothingIsLeft, RoutesAreComplete, RegInv, RegTypes, hostVars, setVars, OnlyAdds
  <1> QED
    BY <1>2, <1>4, <1>5, Reassembled DEF RegInv, RegTypes, hostVars, setVars

LEMMA FirstPassKeeps ==
    ASSUME RegInv, NEW c \in Everybody, FirstPass(c)
    PROVE  RegInv' /\ KeepsListed
  <1>1. /\ At(c, "bound") /\ UNCHANGED <<hostVars, setVars, watched, indexed>>
    BY DEF FirstPass
  <1>2. call[c].at \in InCall /\ call[c].at \in Bound /\ Of(c) \in Repo
    BY <1>1, InsideIsUp DEF At, InCall, Bound
  <1>3. CASE /\ call' = [call EXCEPT ![c].at = "planned", ![c].reconciled = TRUE]
             /\ Touch(Of(c)) /\ UNCHANGED mutex
    <2> DEFINE x == [[call[c] EXCEPT !.at = "planned"] EXCEPT !.reconciled = TRUE]
    <2>1. call \in [Everybody -> CallType]
      BY DEF RegInv, RegTypes, Ats, CallType
    <2>2. x \in CallType /\ x.at = "planned" /\ x.repo = Of(c)
      BY <2>1 DEF CallType, Of, Ats, InCall
    <2>3. call' = [call EXCEPT ![c] = x]
      BY <1>3, <2>1 DEF CallType
    <2> HIDE DEF x
    <2>4. Moved(c, "planned")
      BY <2>1, <2>2, <2>3 DEF Moved
    <2>5. OneInside'
      BY <1>2, <1>3, <2>4, InsideIsUp DEF RegInv, OneInside, Moved, InCall
    <2>6. CallsRight'
      BY <1>2, <2>4, <2>5 DEF CallsRight, Moved, RegInv, RegTypes, At, Of
    <2> QED
      BY <1>1, <1>2, <1>3, <2>4, <2>6, TouchAdds, BoundGoesOn DEF Bound
  <1>4. CASE Goes(c, "planned") /\ UNCHANGED <<listVars, mutex>>
    <2>1. CallsRight' /\ Moved(c, "planned")
      BY <1>2, <1>4, InsideGoes DEF InCall
    <2> QED
      BY <1>1, <1>2, <1>4, <2>1, ListKept, BoundGoesOn DEF Bound
  <1>5. CASE Returns(c) /\ UNCHANGED listVars
    BY <1>1, <1>2, <1>5, GivesUp DEF At
  <1> QED
    BY <1>3, <1>4, <1>5 DEF FirstPass

LEMMA ListKeeps ==
    ASSUME RegInv, NEW c \in Everybody, List(c)
    PROVE  RegInv' /\ KeepsListed
  <1>1. /\ At(c, "planned") /\ Upsert(Of(c)) /\ Goes(c, "listed")
        /\ UNCHANGED <<hostVars, mutex, setVars, watched, indexed>>
    BY DEF List
  <1>2. call[c].at \in InCall /\ call[c].at \in Bound /\ Of(c) \in Repo
    BY <1>1, InsideIsUp DEF At, InCall, Bound
  <1>3. CallsRight' /\ Moved(c, "listed")
    BY <1>1, <1>2, InsideGoes DEF InCall
  <1> QED
    BY <1>1, <1>2, <1>3, UpsertAdds, BoundGoesOn DEF Bound

LEMMA StampKeeps ==
    ASSUME RegInv, NEW c \in Everybody, StampReconcile(c)
    PROVE  RegInv' /\ KeepsListed
  <1>1. /\ At(c, "listed") /\ Goes(c, "stamped")
        /\ Touch(Of(c)) \/ UNCHANGED listVars
        /\ UNCHANGED <<hostVars, mutex, setVars, watched, indexed>>
    BY DEF StampReconcile
  <1>2. call[c].at \in InCall /\ call[c].at \in Bound /\ Of(c) \in Repo
    BY <1>1, InsideIsUp DEF At, InCall, Bound
  <1>3. CallsRight' /\ Moved(c, "stamped")
    BY <1>1, <1>2, InsideGoes DEF InCall
  <1>4. /\ {memory, registry}' \subseteq [Repo -> Entry]
        /\ OnlyAdds /\ FileBehind' /\ KeepsListed
    BY <1>1, <1>2, TouchAdds, ListKept
  <1>5. memory[Of(c)].listed
    BY <1>1 DEF RegInv, CallsLeave, At
  <1> QED
    BY <1>1, <1>2, <1>3, <1>4, <1>5, BoundGoesOn DEF Bound, OnlyAdds

LEMMA HookKeeps ==
    ASSUME RegInv, NEW c \in Everybody, Hook(c)
    PROVE  RegInv' /\ KeepsListed
  <1>1. /\ At(c, "stamped") /\ Returns(c)
        /\ watched' = watched \/ watched' = watched \cup {Of(c)}
        /\ UNCHANGED <<hostVars, setVars, listVars, indexed>>
    BY DEF Hook
  <1>2. call[c].at \in InCall /\ Of(c) \in Repo /\ daemon # "down"
    BY <1>1, InsideIsUp DEF At, InCall
  <1>3. /\ CallsRight' /\ call'[c].at = "none"
        /\ \A d \in Everybody \ {c} : call'[d] = call[d]
    BY <1>1, <1>2, InsideReturns
  <1>4. HandlesCounted'
    BY <1>1, <1>3, HandlesStay DEF hostVars, setVars, At
  <1>5. CallsLeave'
    BY <1>1, <1>3 DEF CallsLeave, At, Of, RegInv, setVars, listVars, Bound
  <1>6. Of(c) \in bound /\ memory[Of(c)].listed
    BY <1>1 DEF RegInv, CallsLeave, At, Bound
  <1>7. NothingIsLeft' /\ RoutesAreComplete'
    BY <1>1, <1>2, <1>6 DEF NothingIsLeft, RoutesAreComplete, RegInv, hostVars, setVars, listVars
  <1>8. watched' \subseteq Repo
    BY <1>1, <1>2 DEF RegInv, RegTypes
  <1> QED
    BY <1>1, <1>3, <1>4, <1>5, <1>7, <1>8, ListKept, Reassembled
        DEF RegInv, RegTypes, hostVars, setVars

(***************************************************************************)
(* The steps of the daemon                                                 *)
(***************************************************************************)

\* A caller that was nowhere waits for the mutex.
LEMMA RegAsks ==
    ASSUME RegInv, NEW c \in Everybody, At(c, "none"), NEW r \in Repo, daemon # "down",
           call' = [call EXCEPT ![c] = [at |-> "lock", repo |-> r, reconciled |-> FALSE]],
           UNCHANGED <<daemon, mutex, setVars, listVars, watched>>, toStart' \subseteq Repo
    PROVE  RegInv' /\ KeepsListed
  <1> DEFINE x == [at |-> "lock", repo |-> r, reconciled |-> FALSE]
  <1>1. call \in [Everybody -> CallType]
    BY DEF RegInv, RegTypes, Ats, CallType
  <1>2. x \in CallType /\ x.at = "lock" /\ x.repo = r
    BY DEF CallType, Ats
  <1> HIDE DEF x
  <1>3. /\ call' \in [Everybody -> CallType] /\ call'[c].at = "lock" /\ call'[c].repo = r
        /\ \A d \in Everybody \ {c} : call'[d] = call[d]
    BY <1>1, <1>2 DEF x
  <1>4. OneInside'
    BY <1>3 DEF RegInv, OneInside, At, InCall
  <1>5. CallsRight'
    BY <1>3, <1>4 DEF CallsRight, RegInv, RegTypes, At, Of
  <1>6. HandlesCounted'
    BY <1>3, HandlesStay DEF setVars, At
  <1>7. CallsLeave'
    BY <1>3 DEF CallsLeave, At, Of, RegInv, setVars, listVars, Bound
  <1>8. NothingIsLeft' /\ RoutesAreComplete'
    BY DEF NothingIsLeft, RoutesAreComplete, RegInv, setVars, listVars
  <1> QED
    BY <1>5, <1>6, <1>7, <1>8, ListKept, Reassembled DEF RegInv, RegTypes, setVars

\* The calls go on where they are.
LEMMA Undisturbs ==
    ASSUME RegInv, UNCHANGED <<call, mutex, setVars, watched>>,
           {memory, registry}' \subseteq [Repo -> Entry], OnlyAdds, FileBehind', KeepsListed,
           toStart' \subseteq Repo,
           UNCHANGED daemon \/ (daemon = "starts" /\ daemon' = "serves")
    PROVE  RegInv' /\ KeepsListed
  <1>1. CallsRight'
    BY CallsStay
  <1>2. HandlesCounted'
    BY DEF HandlesCounted, Opening, At, Of, RegInv, setVars, IsClosed
  <1>3. CallsLeave'
    BY DEF CallsLeave, At, Of, RegInv, RegTypes, setVars, OnlyAdds, Bound
  <1>4. NothingIsLeft' /\ RoutesAreComplete'
    BY DEF NothingIsLeft, RoutesAreComplete, RegInv, RegTypes, setVars, OnlyAdds
  <1> QED
    BY <1>1, <1>2, <1>3, <1>4, Reassembled DEF RegInv, RegTypes, setVars

LEMMA BeginKeeps ==
    ASSUME RegInv, Begin
    PROVE  RegInv' /\ KeepsListed
  <1>1. /\ daemon = "down" /\ daemon' = "starts" /\ memory' = registry
        /\ toStart' = {r \in Repo : registry[r].listed}
        /\ UNCHANGED <<call, mutex, setVars, registry, watched, indexed>>
    BY DEF Begin
  <1>2. CallsRight'
    BY <1>1, CallsStay
  <1>3. HandlesCounted'
    BY <1>1 DEF HandlesCounted, Opening, At, Of, RegInv, setVars, IsClosed
  <1>4. /\ {memory, registry}' \subseteq [Repo -> Entry]
        /\ FileBehind' /\ KeepsListed
    BY <1>1 DEF RegInv, RegTypes, Entry, FileBehind, KeepsListed
  <1>5. /\ \A c \in Everybody : call[c] = NoCall
        /\ cats = {} /\ bound = {} /\ built = {} /\ watched = {}
    BY <1>1 DEF RegInv, NothingIsLeft
  <1>6. CallsLeave' /\ NothingIsLeft' /\ RoutesAreComplete'
    BY <1>1, <1>5
        DEF CallsLeave, At, NoCall, Bound, NothingIsLeft, RoutesAreComplete, RegInv, setVars
  <1> QED
    BY <1>1, <1>2, <1>3, <1>4, <1>6, Reassembled DEF RegInv, RegTypes, setVars

LEMMA DrainKeeps ==
    ASSUME RegInv, Drain
    PROVE  RegInv' /\ KeepsListed
  <1>1. /\ daemon = "serves" /\ daemon' = "drained" /\ watched' = {}
        /\ UNCHANGED <<toStart, call, mutex, setVars, listVars>>
    BY DEF Drain
  <1>2. CallsRight'
    BY <1>1, CallsStay
  <1>3. HandlesCounted' /\ CallsLeave' /\ NothingIsLeft' /\ RoutesAreComplete'
    BY <1>1 DEF HandlesCounted, Opening, At, Of, RegInv, setVars, listVars, IsClosed,
                CallsLeave, NothingIsLeft, RoutesAreComplete, Bound
  <1> QED
    BY <1>1, <1>2, <1>3, ListKept, Reassembled DEF RegInv, RegTypes, setVars

LEMMA CloseSetKeeps ==
    ASSUME RegInv, CloseSet
    PROVE  RegInv' /\ KeepsListed
  <1>1. /\ daemon = "drained" /\ daemon' = "closed" /\ cats' = {}
        /\ handles' = [r \in Repo |-> IF r \in cats THEN handles[r] - 1 ELSE handles[r]]
        /\ UNCHANGED <<toStart, call, mutex, bound, built, listVars, watched>>
    BY DEF CloseSet
  <1>2. CallsRight'
    BY <1>1, CallsStay
  <1>3. \A r \in Repo : Opening(r)' <=> Opening(r)
    BY <1>1 DEF Opening, At, Of
  <1>4. HandlesCounted' /\ handles' \in [Repo -> Int]
    BY <1>1, <1>3 DEF HandlesCounted, RegInv, RegTypes, IsClosed
  <1>5. CallsLeave' /\ NothingIsLeft' /\ RoutesAreComplete'
    BY <1>1 DEF At, Of, RegInv, listVars, CallsLeave, NothingIsLeft, RoutesAreComplete, Bound
  <1> QED
    BY <1>1, <1>2, <1>4, <1>5, ListKept, Reassembled DEF RegInv, RegTypes

LEMMA EndKeeps ==
    ASSUME RegInv, End
    PROVE  RegInv' /\ KeepsListed
  <1>1. /\ daemon' = "down" /\ toStart' = {} /\ call' = [c \in Everybody |-> NoCall]
        /\ mutex' = Nobody /\ cats' = {} /\ bound' = {} /\ built' = {}
        /\ handles' = [r \in Repo |-> 0] /\ watched' = {} /\ UNCHANGED listVars
    BY DEF End
  <1>2. NoCall \in CallType /\ NoCall.at = "none"
    BY DEF NoCall, CallType, Ats
  <1>3. /\ call' \in [Everybody -> CallType]
        /\ \A c \in Everybody : call'[c].at = "none" /\ c # Nobody
    BY <1>1, <1>2, RegistrationAssumption DEF Everybody
  <1>4. CallsRight'
    BY <1>1, <1>3 DEF CallsRight, OneInside, At, InCall
  <1>5. HandlesCounted' /\ handles' \in [Repo -> Int]
    BY <1>1, <1>3 DEF HandlesCounted, Opening, At
  <1>6. CallsLeave' /\ NothingIsLeft' /\ RoutesAreComplete'
    BY <1>1, <1>3 DEF CallsLeave, NothingIsLeft, RoutesAreComplete, At, Bound
  <1> QED
    BY <1>1, <1>4, <1>5, <1>6, ListKept, Reassembled DEF RegInv, RegTypes

LEMMA RegStep ==
    ASSUME RegInv, [RegNext]_regVars
    PROVE  RegInv' /\ (KeepsListed \/ UNCHANGED regVars)
  <1>1. CASE Rehydrate
    <2>1. PICK r \in toStart :
             /\ toStart' = toStart \ {r}
             /\ \/ call' = [call EXCEPT ![Startup] = [at |-> "lock", repo |-> r, reconciled |-> FALSE]]
                \/ UNCHANGED call
      BY <1>1 DEF Rehydrate
    <2>2. /\ At(Startup, "none") /\ daemon = "starts" /\ Startup \in Everybody /\ r \in Repo
          /\ toStart' \subseteq Repo
          /\ UNCHANGED <<daemon, mutex, setVars, listVars, watched>>
      BY <1>1, <2>1 DEF Rehydrate, Everybody, RegInv, RegTypes
    <2>3. /\ {memory, registry}' \subseteq [Repo -> Entry]
          /\ OnlyAdds /\ FileBehind' /\ KeepsListed
      BY <2>2, ListKept
    <2>4. CASE UNCHANGED call
      BY <2>2, <2>3, <2>4, Undisturbs
    <2> QED
      BY <2>1, <2>2, <2>4, RegAsks
  <1>2. CASE Serve
    BY <1>2, Undisturbs, ListKept DEF Serve, RegInv, RegTypes
  <1>3. ASSUME NEW c \in Caller, NEW r \in Repo, Ask(c, r)
        PROVE  RegInv' /\ KeepsListed
    BY <1>3, RegAsks DEF Ask, Everybody, hostVars, RegInv, RegTypes
  <1>4. ASSUME NEW c \in Everybody, Registers(c)
        PROVE  RegInv' /\ KeepsListed
    BY <1>4, LockKeeps, OpenCatalogKeeps, AddKeeps, BuildKeeps, BindKeeps, FirstPassKeeps,
       ListKeeps, StampKeeps, HookKeeps DEF Registers
  <1>5. ASSUME NEW r \in Repo, Reconciled(r)
        PROVE  RegInv' /\ KeepsListed
    <2>1. /\ UNCHANGED <<call, mutex, setVars, watched, daemon>> /\ Touch(r)
          /\ toStart' \subseteq Repo
      BY <1>5 DEF Reconciled, hostVars, RegInv, RegTypes
    <2>2. /\ {memory, registry}' \subseteq [Repo -> Entry]
          /\ OnlyAdds /\ FileBehind' /\ KeepsListed
      BY <2>1, TouchAdds
    <2> QED
      BY <2>1, <2>2, Undisturbs
  <1>6. ASSUME NEW r \in Repo, Commits(r)
        PROVE  RegInv' /\ KeepsListed
    <2>1. /\ UNCHANGED <<call, mutex, setVars, watched, daemon, listVars>>
          /\ toStart' \subseteq Repo
      BY <1>6 DEF Commits, hostVars, RegInv, RegTypes
    <2>2. /\ {memory, registry}' \subseteq [Repo -> Entry]
          /\ OnlyAdds /\ FileBehind' /\ KeepsListed
      BY <2>1, ListKept
    <2> QED
      BY <2>1, <2>2, Undisturbs
  <1>7. CASE UNCHANGED regVars
    <2>1. /\ UNCHANGED <<call, mutex, setVars, watched, daemon, listVars>>
          /\ toStart' \subseteq Repo
      BY <1>7 DEF regVars, setVars, listVars, RegInv, RegTypes
    <2>2. /\ {memory, registry}' \subseteq [Repo -> Entry]
          /\ OnlyAdds /\ FileBehind' /\ KeepsListed
      BY <2>1, ListKept
    <2> QED
      BY <2>1, <2>2, Undisturbs
  <1> QED
    BY <1>1, <1>2, <1>3, <1>4, <1>5, <1>6, <1>7, BeginKeeps, DrainKeeps, CloseSetKeeps, EndKeeps
        DEF RegNext

\* One call at most is between Open and Add, so the count is a count of handles.
LEMMA HandlesCount ==
    ASSUME RegInv
    PROVE  HandlesAreOwned
  <1> SUFFICES ASSUME NEW r \in Repo
               PROVE  handles[r] = Cardinality({c \in Everybody : At(c, "opened") /\ Of(c) = r})
                                   + Cardinality({r} \intersect cats)
    BY DEF RegInv, HandlesCounted, HandlesAreOwned
  <1> DEFINE opening == {c \in Everybody : At(c, "opened") /\ Of(c) = r}
  <1>1. Cardinality(opening) = IF Opening(r) THEN 1 ELSE 0
    <2>1. CASE Opening(r)
      <3>1. PICK c \in Everybody : At(c, "opened") /\ Of(c) = r
        BY <2>1 DEF Opening
      <3>2. opening = {c}
        BY <3>1, InsideIsUp DEF At, InCall
      <3> QED
        BY <2>1, <3>2, FS_Singleton
    <2>2. CASE ~Opening(r)
      <3>1. opening = {}
        BY <2>2 DEF Opening
      <3> QED
        BY <2>2, <3>1, FS_EmptySet
    <2> QED
      BY <2>1, <2>2
  <1>2. Cardinality({r} \intersect cats) = IF r \in cats THEN 1 ELSE 0
    <2>1. CASE r \in cats
      <3>1. {r} \intersect cats = {r}
        BY <2>1
      <3> QED
        BY <2>1, <3>1, FS_Singleton
    <2>2. CASE r \notin cats
      <3>1. {r} \intersect cats = {}
        BY <2>2
      <3> QED
        BY <2>2, <3>1, FS_EmptySet
    <2> QED
      BY <2>1, <2>2
  <1> QED
    BY <1>1, <1>2 DEF RegInv, HandlesCounted

\* For any repositories, callers and starts, whatever saves and opens fail and
\* wherever the daemon ends: no handle of a catalog leaks, whatever can be asked
\* about, or is claimed from, has its catalog and its builder, what is watched is
\* known to the next start, and the registry file forgets nothing.
THEOREM RegistrationIsSound == RegSpec => RegistrationHolds
  <1>1. RegInit => RegInv
    <2> SUFFICES ASSUME RegInit
                 PROVE  RegInv
      OBVIOUS
    <2>1. NoCall \in CallType /\ NoCall.at = "none" /\ Unlisted \in Entry
      BY DEF NoCall, CallType, Ats, Unlisted, Entry
    <2>2. \A c \in Everybody : call[c].at = "none" /\ c # Nobody
      BY <2>1, RegistrationAssumption DEF RegInit, Everybody
    <2>3. RegTypes
      BY <2>1, <2>2 DEF RegTypes, RegInit, At, CallType, Ats, Entry
    <2>4. OneInside
      BY <2>2 DEF OneInside, RegInit, InCall
    <2>5. HandlesCounted
      BY <2>2 DEF HandlesCounted, RegInit, Opening, At
    <2>6. CallsLeave
      BY <2>2 DEF CallsLeave, RegInit, At, Bound
    <2> QED
      BY <2>3, <2>4, <2>5, <2>6
          DEF RegInv, RegInit, NothingIsLeft, FileBehind, RoutesAreComplete
  <1>2. RegInv => HandlesAreOwned /\ RoutesAreComplete
    BY HandlesCount DEF RegInv
  <1>3. RegInv /\ [RegNext]_regVars => RegInv' /\ [KeepsListed]_regVars
    BY RegStep
  <1> QED
    BY <1>1, <1>2, <1>3, PTL DEF RegSpec, RegistrationHolds

(***************************************************************************)
(* Migrations                                                              *)
(***************************************************************************)

Index == [SourcePath -> Documents \cup {NoDocument}]
Writing == {"import", "prune", "verify"}

MigrationTypes ==
    /\ source \in Index /\ loaded \in Index
    /\ config \in Fingerprint /\ fingerprint \in Fingerprint
    /\ active \in Fingerprint \cup {"none"}
    /\ migration \in {"idle", "guard"} \cup Writing
    /\ next \in 0..Len(Order) /\ put \in Nat /\ placements \in Nat
    /\ committed \subseteq SourcePath

\* The catalog belongs to one fingerprint, and what is shown can be found.
OneFingerprint ==
    /\ active = "none" => rows = {} /\ DOMAIN views = {}
    /\ \A r \in rows : r[1][3] = active /\ <<active, r[3]>> \in vectors
    /\ \A p \in DOMAIN views : views[p][3] = active /\ RowsOf(views[p]) # {}
    /\ migration \in Writing => active = fingerprint

\* The references that resolve, of some files.
References(S) == UNION {{p} \X Usable(loaded[p]) : p \in S}

\* A file as the migration under way leaves it.
Mirrored(p) ==
    /\ p \in DOMAIN views /\ views[p] = Artifact(p)
    /\ Artifact(p) \notin reembedded => RowsOf(Artifact(p)) = Rows(Artifact(p), loaded[p])

\* How far the migration under way is.
GoneThrough ==
    migration # "idle" =>
        /\ \A p \in SourcePath :
              p \in committed <=> p \in Resolves(loaded) /\ \E i \in 1..next : Order[i] = p
        /\ IsFiniteSet(References(committed)) /\ placements = Cardinality(References(committed))
        /\ \A p \in committed : Mirrored(p)
        /\ migration = "guard" => next = 0 /\ put = 0
        /\ put > 0 => Importing /\ Here \in Resolves(loaded)
        /\ \A k \in 1..put : k \in Usable(loaded[Here])
              => <<fingerprint, loaded[Here].chunks[k]>> \in vectors
        /\ migration \in {"prune", "verify"} => next = Len(Order)
        /\ migration = "verify" => DOMAIN views \subseteq committed

EndsFaithful ==
    /\ migration = "idle" /\ verdict = "reconciled" =>
          DOMAIN views = Resolves(loaded) /\ \A p \in DOMAIN views : Mirrored(p)
    /\ verdict # "mismatch"

MigrationInv == MigrationTypes /\ OneFingerprint /\ GoneThrough /\ EndsFaithful

(***************************************************************************)
(* Documents                                                               *)
(***************************************************************************)

LEMMA RowsShape ==
    ASSUME NEW a, NEW d
    PROVE  /\ \A r \in Rows(a, d) : r[1] = a /\ \E k \in Usable(d) : r[3] = d.chunks[k]
           /\ {r[3] : r \in Rows(a, d)} = {d.chunks[k] : k \in Usable(d)}
           /\ Rows(a, d) = {} <=> Usable(d) = {}
  <1> DEFINE Row1(k) == <<a, Ordinal(d, k), d.chunks[k]>>
  <1>1. Rows(a, d) = {Row1(k) : k \in Usable(d)}
    BY DEF Rows
  <1>2. \A k \in Usable(d) : Row1(k)[1] = a /\ Row1(k)[3] = d.chunks[k]
    OBVIOUS
  <1> HIDE DEF Row1
  <1> QED
    BY <1>1, <1>2

LEMMA UsableFinite ==
    ASSUME MigrationInv, NEW p \in Resolves(loaded)
    PROVE  /\ Usable(loaded[p]) \subseteq 1..Len(loaded[p].chunks)
           /\ Len(loaded[p].chunks) \in Nat
           /\ IsFiniteSet(Usable(loaded[p]))
  <1>1. loaded[p] \in Documents
    BY DEF MigrationInv, MigrationTypes, Index, Resolves, Documented
  <1>2. PICK S : loaded[p].chunks \in Seq(S)
    BY <1>1, MigrationAssumption
  <1>3. /\ Usable(loaded[p]) \subseteq 1..Len(loaded[p].chunks)
        /\ Len(loaded[p].chunks) \in Nat
    BY <1>2 DEF Usable
  <1>4. IsFiniteSet(Usable(loaded[p]))
    <2>1. IsFiniteSet(1..Len(loaded[p].chunks))
      BY <1>3, FS_Interval
    <2> QED
      BY <1>3, <2>1, FS_Subset
  <1> QED
    BY <1>3, <1>4

\* One document more to the placements.
LEMMA PlacementsAdd ==
    ASSUME NEW C, NEW h, h \notin C, IsFiniteSet(References(C)), IsFiniteSet(Usable(loaded[h]))
    PROVE  /\ IsFiniteSet(References(C \cup {h}))
           /\ Cardinality(References(C \cup {h}))
                 = Cardinality(References(C)) + Cardinality(Usable(loaded[h]))
  <1> DEFINE one == {h} \X Usable(loaded[h])
  <1>1. IsFiniteSet({h}) /\ Cardinality({h}) = 1
    BY FS_Singleton
  <1>2. IsFiniteSet(one) /\ Cardinality(one) = 1 * Cardinality(Usable(loaded[h]))
    BY <1>1, FS_Product
  <1>3. References(C \cup {h}) = References(C) \cup one
    BY DEF References
  <1>4. References(C) \cap one = {}
    BY DEF References
  <1>5. /\ Cardinality(Usable(loaded[h])) \in Nat /\ Cardinality(References(C)) \in Nat
    BY FS_CardinalityType
  <1>6. /\ IsFiniteSet(References(C) \cup one)
        /\ Cardinality(References(C) \cup one)
              = Cardinality(References(C)) + Cardinality(one) - Cardinality(References(C) \cap one)
    BY <1>2, FS_Union
  <1>7. Cardinality(References(C) \cap one) = 0
    BY <1>4, FS_EmptySet
  <1> HIDE DEF one
  <1>8. Cardinality(one) = Cardinality(Usable(loaded[h]))
    BY <1>2, <1>5
  <1>9. Cardinality(References(C) \cup one) = Cardinality(References(C)) + Cardinality(Usable(loaded[h]))
    BY <1>5, <1>6, <1>7, <1>8
  <1> QED
    BY <1>3, <1>6, <1>9

(***************************************************************************)
(* The steps                                                               *)
(***************************************************************************)

\* A change of the index or of the configuration is seen by the next migration.
LEMMA ChangeKeeps ==
    ASSUME MigrationInv, UNCHANGED <<catalogVars, runVars>>,
           source' \in Index, config' \in Fingerprint
    PROVE  MigrationInv'
  <1> USE DEF catalogVars, runVars
  <1>1. MigrationTypes'
    BY DEF MigrationInv, MigrationTypes, Index
  <1>2. OneFingerprint'
    BY DEF MigrationInv, OneFingerprint, RowsOf
  <1>3. \A p : Mirrored(p)' <=> Mirrored(p)
    BY DEF Mirrored, Artifact, RowsOf
  <1>4. /\ Resolves(loaded)' = Resolves(loaded) /\ (Importing <=> Importing') /\ Here' = Here
        /\ References(committed)' = References(committed)
    BY DEF Resolves, Documented, Importing, Here, References
  <1>5. GoneThrough' /\ EndsFaithful'
    BY <1>3, <1>4 DEF MigrationInv, GoneThrough, EndsFaithful
  <1> QED
    BY <1>1, <1>2, <1>5 DEF MigrationInv

\* The steps that leave the catalog and what was read alone.
LEMMA LoadKeeps ==
    ASSUME MigrationInv, LoadIndex
    PROVE  MigrationInv'
  <1>1. /\ migration = "idle" /\ migration' = "guard" /\ loaded' = source /\ fingerprint' = config
        /\ next' = 0 /\ put' = 0 /\ committed' = {} /\ placements' = 0
        /\ UNCHANGED <<verdict, sourceVars, catalogVars>>
    BY DEF LoadIndex
  <1>2. MigrationTypes'
    BY <1>1, MigrationAssumption DEF MigrationInv, MigrationTypes, Index, sourceVars, catalogVars
  <1>3. OneFingerprint'
    BY <1>1 DEF MigrationInv, OneFingerprint, RowsOf, catalogVars, Writing
  <1>4. References(committed)' = {}
    BY <1>1 DEF References
  <1>5. GoneThrough'
    BY <1>1, <1>4, FS_EmptySet DEF GoneThrough, Writing
  <1>6. EndsFaithful'
    BY <1>1 DEF MigrationInv, EndsFaithful
  <1> QED
    BY <1>2, <1>3, <1>5, <1>6 DEF MigrationInv

LEMMA OwnKeeps ==
    ASSUME MigrationInv, Own
    PROVE  MigrationInv'
  <1>1. /\ migration = "guard" /\ active \in {"none", fingerprint}
        /\ migration' = "import" /\ active' = fingerprint
        /\ UNCHANGED <<loaded, fingerprint, next, put, committed, placements, verdict,
                       vectors, rows, views, reembedded, sourceVars>>
    BY DEF Own
  <1>2. MigrationTypes'
    BY <1>1 DEF MigrationInv, MigrationTypes, Index, sourceVars, Writing
  <1>3. OneFingerprint'
    <2>1. "none" \notin Fingerprint /\ fingerprint \in Fingerprint
      BY MigrationAssumption DEF MigrationInv, MigrationTypes
    <2> QED
      BY <1>1, <2>1 DEF MigrationInv, OneFingerprint, RowsOf
  <1>4. \A p : Mirrored(p)' <=> Mirrored(p)
    BY <1>1 DEF Mirrored, Artifact, RowsOf
  <1>5. /\ Resolves(loaded)' = Resolves(loaded)
        /\ References(committed)' = References(committed)
    BY <1>1 DEF Resolves, Documented, References
  <1>6. GoneThrough'
    BY <1>1, <1>4, <1>5 DEF MigrationInv, GoneThrough
  <1>7. EndsFaithful'
    BY <1>1 DEF MigrationInv, EndsFaithful
  <1> QED
    BY <1>2, <1>3, <1>6, <1>7 DEF MigrationInv

\* The migration under way ends, refused or killed.
LEMMA LeaveKeeps ==
    ASSUME MigrationInv, migration' = "idle", verdict' \in {"refused", "killed"},
           UNCHANGED <<loaded, fingerprint, next, put, committed, placements,
                       sourceVars, catalogVars>>
    PROVE  MigrationInv'
  <1>1. MigrationTypes'
    BY DEF MigrationInv, MigrationTypes, Index, sourceVars, catalogVars
  <1>2. OneFingerprint'
    BY DEF MigrationInv, OneFingerprint, RowsOf, catalogVars, Writing
  <1> QED
    BY <1>1, <1>2 DEF MigrationInv, GoneThrough, EndsFaithful

\* Where the import is.
LEMMA ImportIsHere ==
    ASSUME MigrationInv, Importing
    PROVE  /\ migration = "import" /\ next < Len(Order) /\ Len(Order) \in Nat
           /\ next \in Nat /\ next + 1 \in 1..Len(Order)
           /\ Here \in SourcePath /\ Here \notin committed
           /\ \A p \in SourcePath : (\E i \in 1..next + 1 : Order[i] = p)
                 <=> p = Here \/ \E i \in 1..next : Order[i] = p
           /\ active = fingerprint /\ fingerprint \in Fingerprint
  <1>1. /\ migration = "import" /\ next < Len(Order) /\ Len(Order) \in Nat
        /\ next \in Nat /\ next + 1 \in 1..Len(Order) /\ Order \in Seq(SourcePath)
    BY MigrationAssumption DEF Importing, MigrationInv, MigrationTypes
  <1>2. Here \in SourcePath
    BY <1>1 DEF Here
  <1>3. \A i \in 1..next : Order[i] # Here
    BY <1>1, MigrationAssumption DEF Here
  <1>4. Here \notin committed
    BY <1>1, <1>2, <1>3 DEF MigrationInv, GoneThrough
  <1>5. \A p \in SourcePath : (\E i \in 1..next + 1 : Order[i] = p)
           <=> p = Here \/ \E i \in 1..next : Order[i] = p
    BY <1>1 DEF Here
  <1> QED
    BY <1>1, <1>2, <1>4, <1>5 DEF MigrationInv, MigrationTypes, OneFingerprint, Writing

LEMMA SkipKeeps ==
    ASSUME MigrationInv, Skip
    PROVE  MigrationInv'
  <1>1. /\ Importing /\ Here \notin Resolves(loaded) /\ next' = next + 1
        /\ UNCHANGED <<loaded, fingerprint, migration, put, committed, placements, verdict,
                       sourceVars, catalogVars>>
    BY DEF Skip
  <1>2. MigrationTypes'
    BY <1>1, ImportIsHere DEF MigrationInv, MigrationTypes, Index, sourceVars, catalogVars
  <1>3. OneFingerprint'
    BY <1>1 DEF MigrationInv, OneFingerprint, RowsOf, catalogVars
  <1>4. \A p : Mirrored(p)' <=> Mirrored(p)
    BY <1>1 DEF Mirrored, Artifact, RowsOf, catalogVars
  <1>5. /\ Resolves(loaded)' = Resolves(loaded)
        /\ References(committed)' = References(committed)
    BY <1>1 DEF Resolves, Documented, References
  <1>6. put = 0 /\ migration = "import"
    BY <1>1, ImportIsHere DEF MigrationInv, MigrationTypes, GoneThrough
  <1>7. \A p \in SourcePath :
           p \in committed' <=> p \in Resolves(loaded)' /\ \E i \in 1..next' : Order[i] = p
    BY <1>1, <1>5, <1>6, ImportIsHere DEF MigrationInv, GoneThrough
  <1>8. GoneThrough'
    BY <1>1, <1>4, <1>5, <1>6, <1>7 DEF MigrationInv, GoneThrough
  <1>9. EndsFaithful'
    BY <1>1, <1>6 DEF MigrationInv, EndsFaithful
  <1> QED
    BY <1>2, <1>3, <1>8, <1>9 DEF MigrationInv

LEMMA PutKeeps ==
    ASSUME MigrationInv, PutChunkVector
    PROVE  MigrationInv'
  <1>1. /\ Importing /\ Here \in Resolves(loaded) /\ put' = put + 1
        /\ vectors' = IF put' \in Usable(loaded[Here])
                      THEN vectors \cup {<<fingerprint, loaded[Here].chunks[put']>>} ELSE vectors
        /\ UNCHANGED <<loaded, fingerprint, migration, next, committed, placements, verdict,
                       active, rows, views, reembedded, sourceVars>>
    BY DEF PutChunkVector
  <1>2. MigrationTypes'
    BY <1>1 DEF MigrationInv, MigrationTypes, Index, sourceVars
  <1>3. vectors \subseteq vectors'
    BY <1>1
  <1>4. OneFingerprint'
    BY <1>1, <1>3 DEF MigrationInv, OneFingerprint, RowsOf
  <1>5. \A p : Mirrored(p)' <=> Mirrored(p)
    BY <1>1 DEF Mirrored, Artifact, RowsOf
  <1>6. /\ Resolves(loaded)' = Resolves(loaded) /\ (Importing <=> Importing') /\ Here' = Here
        /\ References(committed)' = References(committed)
    BY <1>1 DEF Resolves, Documented, References, Importing, Here
  <1>7. \A k \in 1..put' : k \in Usable(loaded[Here])
           => <<fingerprint, loaded[Here].chunks[k]>> \in vectors'
    <2> SUFFICES ASSUME NEW k \in 1..put', k \in Usable(loaded[Here])
                 PROVE  <<fingerprint, loaded[Here].chunks[k]>> \in vectors'
      OBVIOUS
    <2>1. CASE k = put'
      BY <1>1, <2>1
    <2>2. CASE k # put'
      BY <1>1, <1>3, <2>2, ImportIsHere DEF MigrationInv, MigrationTypes, GoneThrough
    <2> QED
      BY <2>1, <2>2
  <1>8. GoneThrough'
    BY <1>1, <1>5, <1>6, <1>7, ImportIsHere DEF MigrationInv, GoneThrough
  <1>9. EndsFaithful'
    BY <1>1, ImportIsHere DEF MigrationInv, EndsFaithful
  <1> QED
    BY <1>2, <1>4, <1>8, <1>9 DEF MigrationInv

\* An artifact's rows after a step.
RowsAfter(b) == {r \in rows' : r[1] = b}

\* What a commit does to the rows: the artifact has exactly those of its document,
\* or keeps some of another list of chunks for good.
LEMMA CommitWrites ==
    ASSUME MigrationInv, CommitUpdate
    PROVE  /\ \A b : b # Artifact(Here) => RowsAfter(b) = RowsOf(b)
           /\ RowsAfter(Artifact(Here)) # {}
           /\ Artifact(Here) \notin reembedded'
                 => RowsAfter(Artifact(Here)) = Rows(Artifact(Here), loaded[Here])
           /\ \A r \in rows' \ rows : r \in Rows(Artifact(Here), loaded[Here])
           /\ reembedded \subseteq reembedded'
  <1> DEFINE a == Artifact(Here)
             new == Rows(a, loaded[Here])
  <1>1. /\ rows' = rows \cup {r \in new : \A old \in RowsOf(a) : old[2] # r[2]}
        /\ reembedded' = IF RowsOf(a) \in {{}, new} THEN reembedded ELSE reembedded \cup {a}
        /\ Here \in Resolves(loaded)
    BY DEF CommitUpdate
  <1>2. (\A r \in new : r[1] = a) /\ new # {}
    BY <1>1, RowsShape DEF Resolves
  <1> HIDE DEF a, new
  <1>3. \A b : b # a => RowsAfter(b) = RowsOf(b)
    BY <1>1, <1>2 DEF RowsOf, RowsAfter
  <1>4. RowsAfter(a) = RowsOf(a) \cup {r \in new : \A old \in RowsOf(a) : old[2] # r[2]}
    BY <1>1, <1>2 DEF RowsOf, RowsAfter
  <1>5. RowsAfter(a) # {}
    BY <1>2, <1>4
  <1>6. a \notin reembedded' => RowsAfter(a) = new
    BY <1>1, <1>4
  <1> QED
    BY <1>1, <1>3, <1>5, <1>6 DEF a, new

LEMMA CommitKeeps ==
    ASSUME MigrationInv, CommitUpdate
    PROVE  MigrationInv'
  <1> DEFINE a == Artifact(Here)
  <1>1. /\ Importing /\ Here \in Resolves(loaded) /\ put = Len(loaded[Here].chunks)
        /\ views' = [p \in DOMAIN views \cup {Here} |-> IF p = Here THEN a ELSE views[p]]
        /\ committed' = committed \cup {Here}
        /\ placements' = placements + Cardinality(Usable(loaded[Here]))
        /\ next' = next + 1 /\ put' = 0
        /\ UNCHANGED <<loaded, fingerprint, migration, verdict, active, vectors, sourceVars>>
    BY DEF CommitUpdate
  <1>2. /\ migration = "import" /\ Here \in SourcePath /\ Here \notin committed
        /\ active = fingerprint /\ fingerprint \in Fingerprint
    BY <1>1, ImportIsHere
  <1>3. /\ Usable(loaded[Here]) \subseteq 1..put /\ IsFiniteSet(Usable(loaded[Here]))
        /\ Cardinality(Usable(loaded[Here])) \in Nat
    BY <1>1, UsableFinite, FS_CardinalityType
  <1>4. MigrationTypes'
    BY <1>1, <1>2, <1>3, ImportIsHere DEF MigrationInv, MigrationTypes, Index, sourceVars
  <1>5. \A p \in DOMAIN views : p # Here => views'[p] = views[p]
    BY <1>1
  <1>6. Here \in DOMAIN views' /\ views'[Here] = a /\ DOMAIN views' = DOMAIN views \cup {Here}
    BY <1>1
  <1>7. a[3] = fingerprint /\ \A p : Artifact(p)' = Artifact(p)
    BY <1>1 DEF Artifact
  <1>8. \A p : p # Here => Artifact(p) # a
    BY DEF Artifact
  <1>9. OneFingerprint'
    <2>1. active' # "none"
      BY <1>1, <1>2, MigrationAssumption
    <2>2. ASSUME NEW r \in rows'
          PROVE  r[1][3] = active /\ <<active, r[3]>> \in vectors
      <3>1. CASE r \in rows
        BY <3>1 DEF MigrationInv, OneFingerprint
      <3>2. CASE r \notin rows
        <4>1. r \in Rows(a, loaded[Here])
          BY <3>2, CommitWrites
        <4>2. r[1] = a /\ \E k \in Usable(loaded[Here]) : r[3] = loaded[Here].chunks[k]
          BY <4>1, RowsShape
        <4>3. \A k \in Usable(loaded[Here]) : <<fingerprint, loaded[Here].chunks[k]>> \in vectors
          BY <1>2, <1>3 DEF MigrationInv, GoneThrough
        <4> QED
          BY <1>2, <1>7, <4>2, <4>3
      <3> QED
        BY <3>1, <3>2
    <2>3. ASSUME NEW p \in DOMAIN views'
          PROVE  views'[p][3] = active /\ RowsAfter(views'[p]) # {}
      <3>1. CASE views'[p] = a
        BY <1>2, <1>7, <3>1, CommitWrites
      <3>2. CASE views'[p] # a
        <4>1. p \in DOMAIN views /\ views'[p] = views[p]
          BY <1>5, <1>6, <3>2
        <4>2. RowsAfter(views'[p]) = RowsOf(views[p])
          BY <3>2, <4>1, CommitWrites
        <4> QED
          BY <4>1, <4>2 DEF MigrationInv, OneFingerprint
      <3> QED
        BY <3>1, <3>2
    <2> QED
      BY <1>1, <1>2, <2>1, <2>2, <2>3 DEF OneFingerprint, RowsOf, RowsAfter
  <1>10. ASSUME NEW p \in committed'
         PROVE  Mirrored(p)'
    <2>1. CASE p = Here
      <3>1. a \notin reembedded' => RowsAfter(a) = Rows(a, loaded[Here])
        BY CommitWrites
      <3>2. Artifact(p)' = a /\ loaded' = loaded
        BY <1>1, <1>7, <2>1
      <3>3. Rows(Artifact(p), loaded[p])' = Rows(a, loaded[Here])
        BY <2>1, <3>2 DEF Rows, Ordinal, Usable
      <3> QED
        BY <1>6, <2>1, <3>1, <3>2, <3>3 DEF Mirrored, RowsOf, RowsAfter
    <2>2. CASE p # Here
      <3>1. p \in committed /\ Mirrored(p)
        BY <1>1, <1>2, <2>2 DEF MigrationInv, GoneThrough
      <3>2. /\ p \in DOMAIN views' /\ views'[p] = Artifact(p)
        BY <1>5, <1>6, <2>2, <3>1 DEF Mirrored
      <3>3. RowsAfter(Artifact(p)) = RowsOf(Artifact(p))
        BY <1>8, <2>2, CommitWrites
      <3>4. reembedded \subseteq reembedded'
        BY CommitWrites
      <3>5. Rows(Artifact(p), loaded[p])' = Rows(Artifact(p), loaded[p])
        BY <1>1 DEF Rows, Ordinal, Usable, Artifact
      <3>6. Artifact(p)' = Artifact(p)
        BY <1>7
      <3> QED
        BY <3>1, <3>2, <3>3, <3>4, <3>5, <3>6 DEF Mirrored, RowsOf, RowsAfter
    <2> QED
      BY <2>1, <2>2
  <1>11. /\ IsFiniteSet(References(committed)')
         /\ placements' = Cardinality(References(committed)')
    <2>1. References(committed)' = References(committed \cup {Here})
      BY <1>1 DEF References
    <2>2. IsFiniteSet(References(committed)) /\ placements = Cardinality(References(committed))
      BY <1>2 DEF MigrationInv, GoneThrough
    <2> QED
      BY <1>1, <1>2, <1>3, <2>1, <2>2, PlacementsAdd
  <1>12. \A p \in SourcePath :
            p \in committed' <=> p \in Resolves(loaded)' /\ \E i \in 1..next' : Order[i] = p
    <2>1. Resolves(loaded)' = Resolves(loaded)
      BY <1>1 DEF Resolves, Documented
    <2> QED
      BY <1>1, <1>2, <2>1, ImportIsHere DEF MigrationInv, GoneThrough
  <1>13. GoneThrough'
    BY <1>1, <1>2, <1>10, <1>11, <1>12 DEF GoneThrough
  <1>14. EndsFaithful'
    BY <1>1, <1>2 DEF MigrationInv, EndsFaithful
  <1> QED
    BY <1>4, <1>9, <1>13, <1>14 DEF MigrationInv

LEMMA ImportedKeeps ==
    ASSUME MigrationInv, Imported
    PROVE  MigrationInv'
  <1>1. /\ migration = "import" /\ next = Len(Order) /\ migration' = "prune"
        /\ UNCHANGED <<loaded, fingerprint, next, put, committed, placements, verdict,
                       sourceVars, catalogVars>>
    BY DEF Imported
  <1>2. MigrationTypes'
    BY <1>1 DEF MigrationInv, MigrationTypes, Index, Writing, sourceVars, catalogVars
  <1>3. OneFingerprint'
    BY <1>1 DEF MigrationInv, OneFingerprint, RowsOf, Writing, catalogVars
  <1>4. \A p : Mirrored(p)' <=> Mirrored(p)
    BY <1>1 DEF Mirrored, Artifact, RowsOf, Rows, Ordinal, Usable, catalogVars
  <1>5. /\ Resolves(loaded)' = Resolves(loaded)
        /\ References(committed)' = References(committed)
    BY <1>1 DEF Resolves, Documented, References
  <1>6. put = 0
    <2>1. ~Importing /\ put \in Nat
      BY <1>1 DEF Importing, MigrationInv, MigrationTypes
    <2> QED
      BY <1>1, <2>1 DEF MigrationInv, GoneThrough
  <1>7. GoneThrough'
    BY <1>1, <1>4, <1>5, <1>6 DEF MigrationInv, GoneThrough
  <1>8. EndsFaithful'
    BY <1>1 DEF MigrationInv, EndsFaithful
  <1> QED
    BY <1>2, <1>3, <1>7, <1>8 DEF MigrationInv

\* The prune takes no view of the migration under way.
LEMMA PruneKeeps ==
    ASSUME MigrationInv, Prune
    PROVE  MigrationInv'
  <1>1. /\ migration = "prune" /\ migration' \in {"prune", "verify"}
        /\ UNCHANGED <<loaded, fingerprint, next, put, committed, placements, verdict,
                       active, vectors, rows, reembedded, sourceVars>>
    BY DEF Prune
  <1>2. /\ DOMAIN views' \subseteq DOMAIN views
        /\ \A p \in DOMAIN views' : views'[p] = views[p]
        /\ \A p \in committed : p \in DOMAIN views => p \in DOMAIN views'
        /\ migration' = "verify" => DOMAIN views' \subseteq committed
    <2>1. CASE DOMAIN views \subseteq committed
      BY <2>1 DEF Prune
    <2>2. CASE ~(DOMAIN views \subseteq committed)
      BY <1>1, <2>2 DEF Prune
    <2> QED
      BY <2>1, <2>2
  <1>3. MigrationTypes'
    BY <1>1 DEF MigrationInv, MigrationTypes, Index, Writing, sourceVars
  <1>4. OneFingerprint'
    <2>1. active = "none" => rows = {} /\ DOMAIN views' = {}
      BY <1>1, <1>2 DEF MigrationInv, OneFingerprint
    <2>2. \A r \in rows : r[1][3] = active /\ <<active, r[3]>> \in vectors
      BY DEF MigrationInv, OneFingerprint
    <2>3. ASSUME NEW p \in DOMAIN views'
          PROVE  views'[p][3] = active /\ {r \in rows : r[1] = views'[p]} # {}
      BY <1>2 DEF MigrationInv, OneFingerprint, RowsOf
    <2>4. active = fingerprint
      BY <1>1 DEF MigrationInv, OneFingerprint, Writing
    <2> QED
      BY <1>1, <2>1, <2>2, <2>3, <2>4 DEF OneFingerprint, RowsOf
  <1>5. ASSUME NEW p \in committed
        PROVE  Mirrored(p)'
    <2>1. Mirrored(p)
      BY <1>1 DEF MigrationInv, GoneThrough
    <2>2. p \in DOMAIN views' /\ views'[p] = Artifact(p)
      BY <1>2, <2>1 DEF Mirrored
    <2>3. Artifact(p)' = Artifact(p) /\ RowsOf(Artifact(p))' = RowsOf(Artifact(p))
      BY <1>1 DEF Artifact, RowsOf
    <2>4. Rows(Artifact(p), loaded[p])' = Rows(Artifact(p), loaded[p])
      BY <1>1, <2>3 DEF Rows, Ordinal, Usable
    <2> QED
      BY <1>1, <2>1, <2>2, <2>3, <2>4 DEF Mirrored
  <1>6. /\ Resolves(loaded)' = Resolves(loaded)
        /\ References(committed)' = References(committed)
    BY <1>1 DEF Resolves, Documented, References
  <1>7. put = 0
    <2>1. ~Importing /\ put \in Nat
      BY <1>1 DEF Importing, MigrationInv, MigrationTypes
    <2> QED
      BY <1>1, <2>1 DEF MigrationInv, GoneThrough
  <1>8. GoneThrough'
    BY <1>1, <1>2, <1>5, <1>6, <1>7 DEF MigrationInv, GoneThrough
  <1>9. EndsFaithful'
    BY <1>1 DEF MigrationInv, EndsFaithful
  <1> QED
    BY <1>3, <1>4, <1>8, <1>9 DEF MigrationInv

\* Once the import is through and the prune too, the views are what was read.
LEMMA AllIsThrough ==
    ASSUME MigrationInv, migration = "verify"
    PROVE  /\ DOMAIN views = Resolves(loaded) /\ committed = Resolves(loaded)
           /\ \A p \in DOMAIN views : Mirrored(p)
           /\ placements = Expected
  <1>1. /\ next = Len(Order) /\ DOMAIN views \subseteq committed
        /\ \A p \in committed : Mirrored(p)
        /\ placements = Cardinality(References(committed))
    BY DEF MigrationInv, GoneThrough
  <1>2. committed = Resolves(loaded)
    <2>1. Resolves(loaded) \subseteq SourcePath
      BY DEF Resolves, Documented
    <2> QED
      BY <1>1, <2>1, MigrationAssumption DEF MigrationInv, MigrationTypes, GoneThrough
  <1>3. DOMAIN views = committed
    BY <1>1 DEF Mirrored
  <1>4. References(committed) = References(Documented(loaded))
    BY <1>2 DEF References, Resolves
  <1> QED
    BY <1>1, <1>2, <1>3, <1>4 DEF Expected, References

LEMMA ReconcileKeeps ==
    ASSUME MigrationInv, Reconcile
    PROVE  MigrationInv'
  <1>1. /\ migration = "verify" /\ migration' = "idle"
        /\ verdict' = IF Cardinality(DOMAIN views) = Cardinality(Resolves(loaded))
                         /\ placements = Expected
                      THEN "reconciled" ELSE "mismatch"
        /\ UNCHANGED <<loaded, fingerprint, next, put, committed, placements,
                       sourceVars, catalogVars>>
    BY DEF Reconcile
  <1>2. /\ DOMAIN views = Resolves(loaded) /\ placements = Expected
        /\ \A p \in DOMAIN views : Mirrored(p)
    BY <1>1, AllIsThrough
  <1>3. verdict' = "reconciled"
    BY <1>1, <1>2
  <1>4. MigrationTypes'
    BY <1>1 DEF MigrationInv, MigrationTypes, Index, sourceVars, catalogVars
  <1>5. OneFingerprint'
    BY <1>1 DEF MigrationInv, OneFingerprint, RowsOf, catalogVars, Writing
  <1>6. \A p : Mirrored(p)' <=> Mirrored(p)
    BY <1>1 DEF Mirrored, Artifact, RowsOf, Rows, Ordinal, Usable, catalogVars
  <1>7. Resolves(loaded)' = Resolves(loaded)
    BY <1>1 DEF Resolves, Documented
  <1>8. EndsFaithful'
    BY <1>1, <1>2, <1>3, <1>6, <1>7 DEF EndsFaithful, catalogVars
  <1> QED
    BY <1>1, <1>4, <1>5, <1>8 DEF MigrationInv, GoneThrough

LEMMA MigrationStep == MigrationInv /\ [MigrationNext]_migrationVars => MigrationInv'
  <1> SUFFICES ASSUME MigrationInv, [MigrationNext]_migrationVars
               PROVE  MigrationInv'
    OBVIOUS
  <1>1. ASSUME NEW p \in SourcePath, Reindex(p)
        PROVE  MigrationInv'
    <2>1. source' \in Index /\ UNCHANGED <<config, catalogVars, runVars>>
      BY <1>1 DEF Reindex, MigrationInv, MigrationTypes, Index
    <2> QED
      BY <2>1, ChangeKeeps DEF MigrationInv, MigrationTypes
  <1>2. CASE Configure
    <2>1. config' \in Fingerprint /\ UNCHANGED <<source, catalogVars, runVars>>
      BY <1>2 DEF Configure
    <2> QED
      BY <2>1, ChangeKeeps DEF MigrationInv, MigrationTypes
  <1>3. CASE LoadIndex
    BY <1>3, LoadKeeps
  <1>4. CASE Own
    BY <1>4, OwnKeeps
  <1>5. CASE Refuse
    BY <1>5, LeaveKeeps DEF Refuse
  <1>6. CASE Skip
    BY <1>6, SkipKeeps
  <1>7. CASE PutChunkVector
    BY <1>7, PutKeeps
  <1>8. CASE CommitUpdate
    BY <1>8, CommitKeeps
  <1>9. CASE Imported
    BY <1>9, ImportedKeeps
  <1>10. CASE Prune
    BY <1>10, PruneKeeps
  <1>11. CASE Reconcile
    BY <1>11, ReconcileKeeps
  <1>12. CASE KillMigration
    BY <1>12, LeaveKeeps DEF KillMigration
  <1>13. CASE UNCHANGED migrationVars
    <2>1. /\ source' \in Index /\ config' \in Fingerprint
          /\ UNCHANGED <<catalogVars, runVars>>
      BY <1>13 DEF migrationVars, sourceVars, MigrationInv, MigrationTypes
    <2> QED
      BY <2>1, ChangeKeeps
  <1> QED
    BY <1>1, <1>2, <1>3, <1>4, <1>5, <1>6, <1>7, <1>8, <1>9, <1>10, <1>11, <1>12, <1>13
       DEF MigrationNext

LEMMA MigrationStart == MigrationInit => MigrationInv
  <1> SUFFICES ASSUME MigrationInit
               PROVE  MigrationInv
    OBVIOUS
  <1>1. MigrationTypes
    BY MigrationAssumption DEF MigrationInit, MigrationTypes, Index
  <1>2. OneFingerprint
    BY DEF MigrationInit, OneFingerprint, Writing
  <1> QED
    BY <1>1, <1>2 DEF MigrationInit, MigrationInv, GoneThrough, EndsFaithful

LEMMA InvIsFaithful == MigrationInv => MigrationIsFaithful
  <1> SUFFICES ASSUME MigrationInv
               PROVE  MigrationIsFaithful
    OBVIOUS
  <1>1. CatalogIsWhole
    <2> SUFFICES ASSUME NEW p \in DOMAIN views
                 PROVE  /\ views[p][3] = active /\ RowsOf(views[p]) # {}
                        /\ \A r \in RowsOf(views[p]) : <<active, r[3]>> \in vectors
      BY DEF CatalogIsWhole, Searchable
    <2> QED
      BY DEF MigrationInv, OneFingerprint, RowsOf
  <1>2. ReconciledMirrors
    <2> SUFFICES ASSUME migration = "idle", verdict = "reconciled"
                 PROVE  /\ DOMAIN views = Resolves(loaded)
                        /\ \A p \in DOMAIN views :
                              /\ views[p] = Artifact(p)
                              /\ views[p] \notin reembedded =>
                                    Searchable(p)
                                       = {loaded[p].chunks[k] : k \in Usable(loaded[p])}
      BY DEF ReconciledMirrors
    <2>1. DOMAIN views = Resolves(loaded) /\ \A p \in DOMAIN views : Mirrored(p)
      BY DEF MigrationInv, EndsFaithful
    <2>2. ASSUME NEW p \in DOMAIN views, views[p] \notin reembedded
          PROVE  Searchable(p) = {loaded[p].chunks[k] : k \in Usable(loaded[p])}
      <3>1. RowsOf(views[p]) = Rows(Artifact(p), loaded[p])
        BY <2>1, <2>2 DEF Mirrored
      <3>2. Searchable(p) = {r[3] : r \in Rows(Artifact(p), loaded[p])}
        BY <3>1 DEF Searchable
      <3> QED
        BY <3>2, RowsShape
    <2> QED
      BY <2>1, <2>2 DEF Mirrored
  <1> QED
    BY <1>1, <1>2 DEF MigrationIsFaithful, MigrationInv, EndsFaithful

\* Whenever the migration is killed and run again, and whatever the first engine's
\* index and the configuration do meanwhile: the catalog keeps to one fingerprint,
\* and a migration that ends has brought over what it read, and says so.
THEOREM MigrationAlwaysFaithful == MigrationSpec => []MigrationIsFaithful
  <1>1. MigrationInit => MigrationInv
    BY MigrationStart
  <1>2. MigrationInv /\ [MigrationNext]_migrationVars => MigrationInv'
    BY MigrationStep
  <1>3. MigrationInv => MigrationIsFaithful
    BY InvIsFaithful
  <1> QED
    BY <1>1, <1>2, <1>3, PTL DEF MigrationSpec

(***************************************************************************)
(* Which files are indexed                                                 *)
(***************************************************************************)

\* A set of natural numbers has a least one; below a limit, a greatest.
LEMMA Smallest ==
    ASSUME NEW T \in SUBSET Nat, T # {}
    PROVE  \E x \in T : \A y \in T : x <= y
  <1> DEFINE R == OpToRel(<, Nat)
  <1>1. IsWellFoundedOn(R, Nat)
    BY NatLessThanWellFounded
  <1>2. \A x, y \in Nat : x < y => <<x, y>> \in R
    BY DEF OpToRel
  <1> HIDE DEF R
  <1>3. PICK x \in T : \A y \in T : ~ (<<y, x>> \in R)
    BY <1>1, WFMin
  <1>4. \A y \in T : ~ (y < x)
    BY <1>2, <1>3
  <1> QED
    BY <1>4

LEMMA Largest ==
    ASSUME NEW T \in SUBSET Nat, T # {}, NEW limit \in Nat, \A x \in T : x <= limit
    PROVE  \E x \in T : \A y \in T : y <= x
  <1> DEFINE Below == {limit - x : x \in T}
  <1>1. Below \in SUBSET Nat /\ Below # {}
    <2>1. \A x \in T : limit - x \in Nat
      OBVIOUS
    <2> QED
      BY <2>1
  <1>2. PICK m \in Below : \A y \in Below : m <= y
    BY <1>1, Smallest
  <1>3. PICK x \in T : m = limit - x
    BY <1>2
  <1>4. \A y \in T : limit - x <= limit - y
    BY <1>2, <1>3
  <1> QED
    BY <1>4

\* Of some nodes on the way to a node, one is the deepest.
LEMMA OneIsDeepest ==
    ASSUME NEW n \in Node, NEW S, S \subseteq Above[n] \union {n}, S # {}
    PROVE  \E d \in S : \A a \in S : Level(a) <= Level(d)
  <1> DEFINE Levels == {Level(d) : d \in S}
  <1>1. \A d \in S : Level(d) \in Nat /\ Level(d) <= Cardinality(Above[n])
    <2> TAKE d \in S
    <2>1. Above[d] \subseteq Above[n] /\ IsFiniteSet(Above[n])
      BY SelectionAssumption
    <2> QED
      BY <2>1, FS_Subset, FS_CardinalityType DEF Level
  <1>2. Cardinality(Above[n]) \in Nat
    BY SelectionAssumption, FS_CardinalityType
  <1>3. Levels \in SUBSET Nat /\ Levels # {} /\ \A x \in Levels : x <= Cardinality(Above[n])
    BY <1>1
  <1>4. PICK x \in Levels : \A y \in Levels : y <= x
    BY <1>2, <1>3, Largest
  <1> QED
    BY <1>4

\* Of the directories on the way to a node whose rule files speak, one is the deepest.
LEMMA DeepestSpeaks ==
    ASSUME NEW n \in Node, Speaking(n) # {}
    PROVE  Deepest(Speaking(n)) \in Speaking(n)
  <1>1. Speaking(n) \subseteq Above[n] \union {n}
    BY DEF Speaking, Scopes
  <1> QED
    BY <1>1, OneIsDeepest DEF Deepest

\* A list that has a pattern for a node and no negation ignores it.
LEMMA OnlyNegationsTakeBack ==
    ASSUME rules \in RuleFiles, NEW d \in Dir, NEW n,
           \E k \in 1..Len(rules.grepai[d]) : RuleHits(d, rules.grepai[d][k], n, TRUE),
           \A k \in 1..Len(rules.grepai[d]) : ~ rules.grepai[d][k].negated
    PROVE  SaysIgnore(d, n)
  <1> DEFINE list == rules.grepai[d]
             Matched == {k \in 1..Len(list) : RuleHits(d, list[k], n, TRUE)}
  <1>1. Len(list) \in Nat
    BY SelectionAssumption
  <1>2. (\E k \in 1..Len(list) : RuleHits(d, list[k], n, TRUE))
        /\ \A k \in 1..Len(list) : ~ list[k].negated
    OBVIOUS
  <1> HIDE DEF list
  <1>3. PICK k \in Matched : \A j \in Matched : j <= k
    <2>1. \A k \in 1..Len(list) : k \in Nat /\ k <= Len(list)
      BY <1>1
    <2>2. Matched \in SUBSET Nat /\ \A k \in Matched : k <= Len(list)
      BY <2>1
    <2>3. Matched # {}
      BY <1>2
    <2> HIDE DEF Matched
    <2> QED
      BY <1>1, <2>2, <2>3, Largest
  <1>4. \A j \in k + 1..Len(list) : ~ RuleHits(d, list[j], n, TRUE)
    <2>1. k \in 1..Len(list)
      BY <1>3
    <2>2. \A j \in k + 1..Len(list) : j \in 1..Len(list) /\ ~ (j <= k)
      BY <1>1, <2>1
    <2> QED
      BY <1>3, <2>2
  <1>5. ~ list[k].negated
    BY <1>2, <1>3
  <1>6. Matches(d, list, n, TRUE)
    BY <1>3, <1>4, <1>5 DEF Matches
  <1> QED
    BY <1>6 DEF SaysIgnore, list

\* A file that is taken back is reached, unless a directory above it is kept out.
LEMMA TakenBackIsReached == rules \in RuleFiles => NegationsAreReached
  <1> SUFFICES ASSUME rules \in RuleFiles, NEW f \in File, Speaking(f) # {}, ~ ShouldIgnore(f)
               PROVE  Reached(Root, f) <=> \A d \in Above[f] : ~ KeptOut(d)
    BY DEF NegationsAreReached, Selected
  <1>1. f \in Node /\ f \notin Dir /\ Above[f] \subseteq Dir
    BY SelectionAssumption DEF Node
  <1>2. HasNegations
    <2> DEFINE d == Deepest(Speaking(f))
    <2>1. d \in Speaking(f) /\ ~ SaysIgnore(d, f)
      BY <1>1, DeepestSpeaks DEF ShouldIgnore
    <2> HIDE DEF d
    <2>2. /\ d \in Dir /\ Loaded(d)
          /\ \E k \in 1..Len(rules.grepai[d]) : RuleHits(d, rules.grepai[d][k], f, TRUE)
      BY <1>1, <2>1 DEF Speaking, Scopes
    <2>3. \E k \in 1..Len(rules.grepai[d]) : rules.grepai[d][k].negated
      BY <2>1, <2>2, OnlyNegationsTakeBack
    <2> QED
      BY <2>2, <2>3 DEF HasNegations
  <1>3. \A d : ShouldSkipDir(d) <=> KeptOut(d)
    BY <1>2 DEF ShouldSkipDir, ShouldIgnore, KeptOut
  <1>4. \A d \in Above[f] : d = Root \/ Root \in Above[d]
    BY <1>1, SelectionAssumption DEF Node
  <1> QED
    BY <1>1, <1>3, <1>4 DEF Reached

(***************************************************************************)
(* The tree                                                                *)
(***************************************************************************)

LEMMA TreeIsOne ==
    ASSUME NEW n \in Node, n # Root
    PROVE  /\ ParentOf(n) \in Above[n] /\ ParentOf(n) \in Dir /\ ParentOf(n) \in Node
           /\ \A a \in Above[n] : a = ParentOf(n) \/ a \in Above[ParentOf(n)]
           /\ Above[ParentOf(n)] \subseteq Above[n]
           /\ Above[n] \subseteq Dir
  <1>1. \E d \in Above[n] : \A a \in Above[n] : a = d \/ a \in Above[d]
    <2>1. Above[n] # {} /\ Above[n] \subseteq Dir
      BY SelectionAssumption
    <2>2. PICK d \in Above[n] : \A a \in Above[n] : Level(a) <= Level(d)
      BY <2>1, OneIsDeepest
    <2>3. ASSUME NEW a \in Above[n], d \in Above[a]
          PROVE  FALSE
      <3>1. a \in Node /\ d \in Node
        BY <2>1 DEF Node
      <3>2. Above[d] \subseteq Above[a] /\ Above[d] # Above[a] /\ IsFiniteSet(Above[a])
        BY <2>3, <3>1, SelectionAssumption
      <3>3. Level(d) < Level(a)
        BY <3>2, FS_Subset, FS_CardinalityType DEF Level
      <3>4. Level(d) \in Nat /\ Level(a) \in Nat
        BY <3>1, SelectionAssumption, FS_CardinalityType DEF Level
      <3> QED
        BY <2>2, <3>3, <3>4
    <2> QED
      BY <2>2, <2>3, SelectionAssumption
  <1>2. ParentOf(n) \in Above[n] /\ \A a \in Above[n] : a = ParentOf(n) \/ a \in Above[ParentOf(n)]
    BY <1>1 DEF ParentOf
  <1> QED
    BY <1>2, SelectionAssumption DEF Node

\* What is reached from the root is reached through each directory above it.
LEMMA ReachedAbove ==
    ASSUME NEW n \in Node, Reached(Root, n), NEW a \in Above[n]
    PROVE  Reached(Root, a)
  <1>1. a \in Dir /\ Above[a] \subseteq Above[n] /\ a \in Node
    BY SelectionAssumption DEF Node
  <1> QED
    BY <1>1 DEF Reached

LEMMA ReachedFromAny ==
    ASSUME NEW n \in Node, Reached(Root, n), NEW a
    PROVE  Reached(a, n)
  <1>1. \A d \in Above[n] \cup ({n} \intersect Dir) : d = Root \/ Root \in Above[d]
    BY SelectionAssumption DEF Node
  <1> QED
    BY <1>1 DEF Reached

\* What a walk from a directory reaches below a parent that is reached, is reached.
LEMMA ReachedBelow ==
    ASSUME NEW n \in Dir, NEW m \in Node, m = n \/ n \in Above[m],
           n # Root, Reached(Root, ParentOf(n)), Reached(n, m)
    PROVE  Reached(Root, m)
  <1> SUFFICES ASSUME NEW d \in Above[m] \cup ({m} \intersect Dir)
               PROVE  ~ ShouldSkipDir(d)
    BY DEF Reached
  <1>1. d \in Dir
    BY SelectionAssumption DEF Node
  <1>2. CASE d = n \/ n \in Above[d]
    BY <1>2 DEF Reached
  <1>3. CASE d # n /\ n \notin Above[d]
    <2>1. d \in Above[n]
      BY <1>3, SelectionAssumption DEF Node
    <2>2. d = ParentOf(n) \/ d \in Above[ParentOf(n)]
      BY <2>1, TreeIsOne DEF Node
    <2>3. ParentOf(n) \in Dir
      BY <2>1, TreeIsOne DEF Node
    <2>4. Root \in Above[d] \/ d = Root
      BY <1>1, SelectionAssumption DEF Node
    <2> QED
      BY <2>2, <2>3, <2>4 DEF Reached
  <1> QED
    BY <1>2, <1>3

(***************************************************************************)
(* The session                                                             *)
(***************************************************************************)

Event == [kind : {"create", "modify", "delete"}, node : Node]

SelectionTypes ==
    /\ rules \in RuleFiles
    /\ exists \subseteq Node /\ Root \in exists
    /\ \A n \in exists : n = Root \/ ParentOf(n) \in exists
    /\ content \in [File -> {0, 1}] /\ index \in [File -> {0, 1, Unindexed}]
    /\ events \in Seq(Event)

\* A watch is on what a walk from the root reaches, and an event comes from one.
WatchesReach == \A d \in watching : d \in Dir /\ Reached(Root, d)
EventsReported ==
    \A i \in 1..Len(events) : LET n == events[i].node IN
        n # Root /\ ParentOf(n) \in watching /\ (n \in Dir => n \in exists)

\* A directory to be watched is watched, or it or one above it is about to be.
Announced(d) == \E i \in 1..Len(events) :
    events[i].node \in Dir /\ events[i].node \in Above[d] \cup {d}
DirsFollowed == \A d \in Dir \intersect exists : Wanted(d) => d \in watching \/ Announced(d)

\* The index has a file as it is, or the last event of the file is still to come.
Right(f) == index[f] = IF f \in exists /\ Selected(f) THEN content[f] ELSE Unindexed
Settled(f) == Right(f) /\ \A i \in 1..Len(events) : events[i].node # f
Coming(f) == \E i \in 1..Len(events) :
    /\ events[i].node = f /\ \A j \in i + 1..Len(events) : events[j].node # f
    /\ events[i].kind = "delete" <=> f \notin exists
FilesFollowed ==
    \A f \in File \ early : Visible(f) /\ Wanted(ParentOf(f)) => Settled(f) \/ Coming(f)

OnlySelected == \A f \in File : index[f] # Unindexed => Selected(f)

SelectionInv == /\ SelectionTypes /\ WatchesReach /\ EventsReported /\ DirsFollowed
                /\ FilesFollowed /\ OnlySelected

\* The rules are read once.
LEMMA RulesStay ==
    ASSUME rules' = rules
    PROVE  /\ \A n : ShouldIgnore(n)' <=> ShouldIgnore(n)
           /\ \A d, n : Reached(d, n)' <=> Reached(d, n)
           /\ \A n : Selected(n)' <=> Selected(n)
           /\ \A n : Wanted(n)' <=> Wanted(n)
           /\ \A n : ParentOf(n)' = ParentOf(n)
  <1>1. /\ \A n : Scopes(n)' = Scopes(n) /\ GitLevels(n)' = GitLevels(n)
        /\ \A n : Speaking(n)' = Speaking(n)
        /\ \A d, n : SaysIgnore(d, n)' <=> SaysIgnore(d, n)
        /\ HasNegations' <=> HasNegations
    BY DEF Scopes, GitLevels, Speaking, SaysIgnore, HasNegations, Loaded, Matches, RuleHits, Level
  <1>2. \A n : ShouldIgnore(n)' <=> ShouldIgnore(n)
    BY <1>1 DEF ShouldIgnore, Deepest, Level
  <1>3. \A n : ShouldSkipDir(n)' <=> ShouldSkipDir(n)
    BY <1>1, <1>2 DEF ShouldSkipDir, Deepest, Level
  <1>4. \A d, n : Reached(d, n)' <=> Reached(d, n)
    BY <1>3 DEF Reached
  <1> QED
    BY <1>2, <1>4 DEF Selected, Wanted, Visible, ParentOf

\* A file below a watched directory is selected unless it is ignored.
LEMMA WatchedIsSelected ==
    ASSUME NEW f \in File, WatchesReach, ParentOf(f) \in watching, ~ ShouldIgnore(f)
    PROVE  Selected(f)
  <1>1. f \in Node /\ f # Root /\ f \notin Dir
    BY SelectionAssumption DEF Node
  <1>2. /\ \A a \in Above[f] : a = ParentOf(f) \/ a \in Above[ParentOf(f)]
        /\ ParentOf(f) \in Node
    BY <1>1, TreeIsOne
  <1>3. Reached(Root, ParentOf(f)) /\ ParentOf(f) \in Dir
    BY DEF WatchesReach
  <1>4. \A a \in Above[f] : a = Root \/ Root \in Above[a]
    <2>1. \A a \in Above[f] : a \in Node
      BY <1>1, SelectionAssumption DEF Node
    <2> QED
      BY <2>1, SelectionAssumption
  <1> QED
    BY <1>1, <1>2, <1>3, <1>4 DEF Reached, Selected

\* What is appended to the reported events.
LEMMA Appended ==
    ASSUME events \in Seq(Event), NEW e \in Event, events' = Append(events, e)
    PROVE  /\ events' \in Seq(Event) /\ Len(events') = Len(events) + 1 /\ Len(events) \in Nat
           /\ \A i \in 1..Len(events) : events'[i] = events[i] /\ i \in 1..Len(events')
           /\ events'[Len(events')] = e /\ Len(events') \in 1..Len(events')
           /\ \A i \in 1..Len(events') : i = Len(events') \/ i \in 1..Len(events)
  OBVIOUS

\* A file changes, and the event is queued if its directory is watched.
LEMMA FileChangeKeeps ==
    ASSUME SelectionInv, NEW f \in File, NEW kind \in {"create", "modify", "delete"},
           ParentOf(f) \in exists,
           exists' \in {exists \cup {f}, exists \ {f}}, kind = "delete" <=> f \notin exists',
           content' \in [File -> {0, 1}], \A g \in File \ {f} : content'[g] = content[g],
           Report(kind, f), Noted(f), UNCHANGED <<rules, watching, index>>
    PROVE  SelectionInv'
  <1> DEFINE e == [kind |-> kind, node |-> f]
  <1>1. f \in Node /\ f # Root /\ f \notin Dir /\ e \in Event
    BY SelectionAssumption DEF Node, Event
  <1>2. events' = IF Reports(f) THEN Append(events, e) ELSE events
    BY DEF Report
  <1>3. /\ events' \in Seq(Event) /\ Len(events) \in Nat
        /\ \A i \in 1..Len(events) : events'[i] = events[i] /\ i \in 1..Len(events')
        /\ \A i \in 1..Len(events') : \/ i \in 1..Len(events)
                                      \/ events'[i] = e /\ i = Len(events') /\ Reports(f)
    <2>1. CASE Reports(f)
      BY <1>1, <1>2, <2>1, Appended DEF SelectionInv, SelectionTypes
    <2>2. CASE ~ Reports(f)
      BY <1>2, <2>2 DEF SelectionInv, SelectionTypes
    <2> QED
      BY <2>1, <2>2
  <1>4. SelectionTypes'
    <2>1. \A n \in exists' : n = Root \/ ParentOf(n) \in exists'
      <3>1. \A n \in Node : n # Root => ParentOf(n) \notin File
        BY TreeIsOne, SelectionAssumption
      <3> QED
        BY <1>1, <3>1 DEF SelectionInv, SelectionTypes
    <2>2. \A n \in exists' : n = Root \/ ParentOf(n)' \in exists'
      BY <2>1 DEF ParentOf
    <2> QED
      BY <1>1, <1>3, <2>2 DEF SelectionInv, SelectionTypes
  <1>5. WatchesReach' /\ OnlySelected'
    BY RulesStay DEF SelectionInv, WatchesReach, OnlySelected
  <1>6. EventsReported'
    <2> SUFFICES ASSUME NEW i \in 1..Len(events')
                 PROVE  LET n == events'[i].node IN
                        n # Root /\ ParentOf(n) \in watching /\ (n \in Dir => n \in exists')
      BY DEF EventsReported, ParentOf
    <2>1. CASE i \in 1..Len(events)
      <3>1. LET n == events[i].node IN
            n # Root /\ ParentOf(n) \in watching /\ (n \in Dir => n \in exists)
        BY <2>1 DEF SelectionInv, EventsReported
      <3> QED
        BY <1>1, <1>3, <2>1, <3>1
    <2>2. CASE events'[i] = e /\ Reports(f)
      BY <1>1, <2>2 DEF Reports
    <2> QED
      BY <1>3, <2>1, <2>2
  <1>7. DirsFollowed'
    <2>1. \A d : Announced(d) => Announced(d)'
      BY <1>3 DEF Announced
    <2>2. \A d \in Dir : d \in exists' => d \in exists
      BY <1>1
    <2> QED
      BY <2>1, <2>2, RulesStay DEF SelectionInv, DirsFollowed
  <1>8. FilesFollowed'
    <2> SUFFICES ASSUME NEW g \in File, g \notin early', Visible(g), Wanted(ParentOf(g))
                 PROVE  Settled(g)' \/ Coming(g)'
      BY RulesStay DEF FilesFollowed, Visible
    <2>1. CASE g = f
      <3>1. Reports(f)
        <4> DEFINE p == ParentOf(f)
        <4>1. p \in Dir /\ p \in Above[f] /\ p \in exists
              /\ Above[p] \subseteq Above[f]
          BY <1>1, TreeIsOne
        <4>2. Reports(f) \/ ~ Awaited(f)
          BY <2>1 DEF Noted
        <4> SUFFICES ASSUME p \notin watching
                     PROVE  Awaited(f)
          BY <4>2 DEF Reports
        <4> HIDE DEF p
        <4>3. Announced(p)
          BY <2>1, <4>1 DEF SelectionInv, DirsFollowed, p
        <4> QED
          BY <4>1, <4>3 DEF Announced, Awaited
      <3>2. events' = Append(events, e) /\ events \in Seq(Event)
        BY <1>2, <3>1 DEF SelectionInv, SelectionTypes
      <3>3. /\ events'[Len(events')] = e /\ Len(events') \in 1..Len(events') /\ Len(events') \in Nat
        BY <1>1, <3>2, Appended
      <3> HIDE DEF e
      <3>4. e.node = f /\ e.kind = kind
        BY DEF e
      <3> QED
        BY <2>1, <3>3, <3>4 DEF Coming
    <2>2. CASE g # f
      <3>1. Settled(g) \/ Coming(g)
        BY <2>2 DEF SelectionInv, FilesFollowed, Noted
      <3>2. (g \in exists' <=> g \in exists) /\ content'[g] = content[g]
        BY <2>2
      <3>3. \A i \in 1..Len(events') : i \in 1..Len(events) \/ events'[i].node # g
        BY <1>3, <2>2
      <3>4. Settled(g) => Settled(g)'
        BY <1>3, <3>2, <3>3, RulesStay DEF Settled, Right
      <3>5. Coming(g) => Coming(g)'
        BY <1>3, <3>2, <3>3 DEF Coming
      <3> QED
        BY <3>1, <3>4, <3>5
    <2> QED
      BY <2>1, <2>2
  <1> QED
    BY <1>4, <1>5, <1>6, <1>7, <1>8 DEF SelectionInv

LEMMA WriteKeeps ==
    ASSUME SelectionInv, NEW f \in File, Write(f)
    PROVE  SelectionInv'
  <1> DEFINE kind == IF f \in exists THEN "modify" ELSE "create"
  <1>1. /\ ParentOf(f) \in exists
        /\ exists' = exists \cup {f} /\ content' = [content EXCEPT ![f] = 1 - @]
        /\ Report(kind, f) /\ Noted(f) /\ UNCHANGED <<rules, watching, index>>
    BY DEF Write
  <1>2. kind \in {"create", "modify", "delete"} /\ (kind = "delete" <=> f \notin exists')
    BY <1>1
  <1>3. content' \in [File -> {0, 1}] /\ \A g \in File \ {f} : content'[g] = content[g]
    BY <1>1 DEF SelectionInv, SelectionTypes
  <1> HIDE DEF kind
  <1> QED
    BY <1>1, <1>2, <1>3, FileChangeKeeps

LEMMA RemoveKeeps ==
    ASSUME SelectionInv, NEW f \in File, Remove(f)
    PROVE  SelectionInv'
  <1>1. /\ exists' = exists \ {f} /\ Report("delete", f) /\ Noted(f)
        /\ UNCHANGED <<rules, content, watching, index>>
    BY DEF Remove
  <1>2. content' \in [File -> {0, 1}] /\ \A g \in File \ {f} : content'[g] = content[g]
    BY <1>1 DEF SelectionInv, SelectionTypes
  <1>3. f # Root /\ f \in exists
    BY SelectionAssumption DEF Remove
  <1> QED
    BY <1>1, <1>2, <1>3, FileChangeKeeps DEF SelectionInv, SelectionTypes

\* What a directory is wanted for, the one above it is.
LEMMA WantedAbove ==
    ASSUME NEW d \in Dir, Wanted(d), NEW a \in Above[d]
    PROVE  Wanted(a)
  <1>1. d \in Node /\ Above[a] \subseteq Above[d]
    BY SelectionAssumption DEF Node
  <1> QED
    BY <1>1, ReachedAbove DEF Wanted, Visible

LEMMA AppearKeeps ==
    ASSUME SelectionInv, NEW d \in Dir, NEW inside \in SUBSET Inside(d), Appear(d, inside)
    PROVE  SelectionInv'
  <1> DEFINE e == [kind |-> "create", node |-> d]
  <1>1. /\ d \notin exists /\ ParentOf(d) \in exists
        /\ exists' = exists \cup {d} \cup inside /\ Report("create", d)
        /\ early' = early \cup (inside \cap File)
        /\ UNCHANGED <<rules, content, watching, index>>
    BY DEF Appear
  <1>2. d \in Node /\ d # Root /\ e \in Event /\ d \notin File
    BY <1>1, SelectionAssumption DEF Node, Event, SelectionInv, SelectionTypes
  <1>3. inside \subseteq Node /\ \A n \in inside : d \in Above[n]
    BY DEF Inside
  <1>4. events' = IF Reports(d) THEN Append(events, e) ELSE events
    BY <1>1 DEF Report
  <1>5. /\ events' \in Seq(Event) /\ Len(events) \in Nat
        /\ \A i \in 1..Len(events) : events'[i] = events[i] /\ i \in 1..Len(events')
        /\ \A i \in 1..Len(events') : \/ i \in 1..Len(events)
                                      \/ events'[i] = e /\ i = Len(events') /\ Reports(d)
        /\ Reports(d) => \E i \in 1..Len(events') : events'[i] = e
    <2>1. CASE Reports(d)
      BY <1>2, <1>4, <2>1, Appended DEF SelectionInv, SelectionTypes
    <2>2. CASE ~ Reports(d)
      BY <1>4, <2>2 DEF SelectionInv, SelectionTypes
    <2> QED
      BY <2>1, <2>2
  <1>6. SelectionTypes'
    <2>1. \A n \in inside : ParentOf(n) \in inside \cup {d}
      BY DEF Appear
    <2>2. \A n \in exists' : n = Root \/ ParentOf(n) \in exists'
      BY <1>1, <2>1 DEF SelectionInv, SelectionTypes
    <2>3. \A n \in exists' : n = Root \/ ParentOf(n)' \in exists'
      BY <2>2 DEF ParentOf
    <2> QED
      BY <1>1, <1>2, <1>3, <1>5, <2>3 DEF SelectionInv, SelectionTypes
  <1>7. WatchesReach' /\ OnlySelected'
    BY <1>1, RulesStay DEF SelectionInv, WatchesReach, OnlySelected
  <1>8. EventsReported'
    <2> SUFFICES ASSUME NEW i \in 1..Len(events')
                 PROVE  LET n == events'[i].node IN
                        n # Root /\ ParentOf(n) \in watching /\ (n \in Dir => n \in exists')
      BY <1>1 DEF EventsReported, ParentOf
    <2>1. CASE i \in 1..Len(events)
      <3>1. LET n == events[i].node IN
            n # Root /\ ParentOf(n) \in watching /\ (n \in Dir => n \in exists)
        BY <2>1 DEF SelectionInv, EventsReported
      <3> QED
        BY <1>1, <1>5, <2>1, <3>1
    <2>2. CASE events'[i] = e /\ Reports(d)
      BY <1>1, <1>2, <2>2 DEF Reports
    <2> QED
      BY <1>5, <2>1, <2>2
  <1>9. DirsFollowed'
    <2> SUFFICES ASSUME NEW c \in Dir, c \in exists', Wanted(c)
                 PROVE  c \in watching \/ Announced(c)'
      BY <1>1, RulesStay DEF DirsFollowed
    <2>1. \A b : Announced(b) => Announced(b)'
      BY <1>5 DEF Announced
    <2>2. CASE c \in exists
      BY <2>1, <2>2 DEF SelectionInv, DirsFollowed
    <2>3. CASE c \notin exists
      <3>1. d \in Above[c] \cup {c} /\ Above[d] \subseteq Above[c]
        BY <1>1, <1>2, <1>3, <2>3, SelectionAssumption DEF Node
      <3>2. CASE Reports(d)
        <4>1. PICK i \in 1..Len(events') : events'[i] = e
          BY <1>5, <3>2
        <4>2. events'[i].node = d
          BY <4>1
        <4> QED
          BY <3>1, <4>2 DEF Announced
      <3>3. CASE ~ Reports(d)
        <4> DEFINE p == ParentOf(d)
        <4>1. p \in Above[d] /\ p \in Dir /\ p \in exists /\ p \notin watching /\ Above[p] \subseteq Above[d]
          BY <1>1, <1>2, <3>3, TreeIsOne DEF Reports
        <4> HIDE DEF p
        <4>2. Wanted(p)
          BY <3>1, <4>1, WantedAbove
        <4>3. Announced(p)
          BY <4>1, <4>2 DEF SelectionInv, DirsFollowed
        <4>4. Announced(c)
          BY <3>1, <4>1, <4>3 DEF Announced
        <4> QED
          BY <2>1, <4>4
      <3> QED
        BY <3>2, <3>3
    <2> QED
      BY <2>2, <2>3
  <1>10. FilesFollowed'
    <2> SUFFICES ASSUME NEW g \in File, g \notin early', Visible(g), Wanted(ParentOf(g))
                 PROVE  Settled(g)' \/ Coming(g)'
      BY <1>1, RulesStay DEF FilesFollowed, Visible
    <2>1. Settled(g) \/ Coming(g)
      BY <1>1 DEF SelectionInv, FilesFollowed
    <2>2. (g \in exists' <=> g \in exists) /\ g # d
      BY <1>1, <1>2
    <2>3. \A i \in 1..Len(events') : i \in 1..Len(events) \/ events'[i].node # g
      BY <1>5, <2>2
    <2>4. Settled(g) => Settled(g)'
      BY <1>1, <1>5, <2>2, <2>3, RulesStay DEF Settled, Right
    <2>5. Coming(g) => Coming(g)'
      BY <1>5, <2>2, <2>3 DEF Coming
    <2> QED
      BY <2>1, <2>4, <2>5
  <1> QED
    BY <1>6, <1>7, <1>8, <1>9, <1>10 DEF SelectionInv

\* What the handled event leaves of the reported ones.
LEMMA Handled ==
    ASSUME events \in Seq(Event), events # <<>>, events' = Tail(events)
    PROVE  /\ events' \in Seq(Event) /\ Head(events) = events[1] /\ events[1] \in Event
           /\ Len(events) \in Nat /\ Len(events') \in Nat /\ 1 \in 1..Len(events)
           /\ \A i \in 1..Len(events') : events'[i] = events[i + 1] /\ i + 1 \in 1..Len(events)
           /\ \A i \in 1..Len(events) :
                 i = 1 \/ (i - 1 \in 1..Len(events') /\ events'[i - 1] = events[i])
  OBVIOUS

\* An event of a file is the last one or another of it is still to come.
LEMMA ComingStays ==
    ASSUME events \in Seq(Event), events # <<>>, events' = Tail(events), exists' = exists,
           NEW f, Coming(f)
    PROVE  \/ Coming(f)'
           \/ /\ events[1].node = f /\ (events[1].kind = "delete" <=> f \notin exists)
              /\ \A j \in 1..Len(events') : events'[j].node # f
  <1>1. PICK i \in 1..Len(events) :
           /\ events[i].node = f /\ \A j \in i + 1..Len(events) : events[j].node # f
           /\ events[i].kind = "delete" <=> f \notin exists
    BY DEF Coming
  <1>2. CASE i = 1
    <2>1. \A j \in 1..Len(events') : j + 1 \in i + 1..Len(events) /\ events'[j] = events[j + 1]
      BY <1>2, Handled
    <2> QED
      BY <1>1, <1>2, <2>1
  <1>3. CASE i # 1
    <2> DEFINE k == i - 1
    <2>1. k \in 1..Len(events') /\ events'[k] = events[i]
      BY <1>3, Handled
    <2>2. \A j \in k + 1..Len(events') : j + 1 \in i + 1..Len(events) /\ events'[j] = events[j + 1]
      BY <1>1, <2>1, Handled
    <2> HIDE DEF k
    <2>3. \A j \in k + 1..Len(events') : events'[j].node # f
      BY <1>1, <2>2
    <2> QED
      BY <1>1, <2>1, <2>3 DEF Coming
  <1> QED
    BY <1>2, <1>3

LEMMA HandleKeeps ==
    ASSUME SelectionInv, Handle
    PROVE  SelectionInv'
  <1> DEFINE n == events[1].node
             kind == events[1].kind
  <1>1. /\ events \in Seq(Event) /\ events # <<>> /\ events' = Tail(events)
        /\ UNCHANGED <<rules, exists, content, early>>
    BY DEF Handle, SelectionInv, SelectionTypes
  <1>2. /\ n \in Node /\ n # Root /\ ParentOf(n) \in watching /\ (n \in Dir => n \in exists)
        /\ 1 \in 1..Len(events) /\ Head(events) = events[1]
    BY <1>1, Handled DEF SelectionInv, EventsReported, Event
  <1>3. \/ (n \in Hidden \/ ShouldIgnore(n)) /\ UNCHANGED <<watching, index>>
        \/ /\ n \notin Hidden /\ ~ ShouldIgnore(n) /\ n \in Dir
           /\ watching' = watching \cup AddRecursive(n) /\ UNCHANGED index
        \/ /\ n \notin Hidden /\ ~ ShouldIgnore(n) /\ n \in File /\ n \notin Dir
           /\ UNCHANGED watching
           /\ index' = CASE kind = "delete" -> [index EXCEPT ![n] = Unindexed]
                         [] n \in exists -> [index EXCEPT ![n] = content[n]]
                         [] OTHER -> index
    BY <1>2, SelectionAssumption DEF Handle
  <1>4. /\ events' \in Seq(Event)
        /\ \A i \in 1..Len(events') : events'[i] = events[i + 1] /\ i + 1 \in 1..Len(events)
        /\ \A i \in 1..Len(events) :
              i = 1 \/ (i - 1 \in 1..Len(events') /\ events'[i - 1] = events[i])
    BY <1>1, Handled
  <1> HIDE DEF n, kind
  <1>5. watching \subseteq watching'
    BY <1>3
  <1>6. SelectionTypes'
    <2>1. index' \in [File -> {0, 1, Unindexed}]
      BY <1>3 DEF SelectionInv, SelectionTypes
    <2>2. \A m \in exists' : m = Root \/ ParentOf(m) \in exists'
      BY <1>1 DEF SelectionInv, SelectionTypes
    <2>3. \A m \in exists' : m = Root \/ ParentOf(m)' \in exists'
      BY <2>2 DEF ParentOf
    <2> QED
      BY <1>1, <1>4, <2>1, <2>3 DEF SelectionInv, SelectionTypes
  <1>7. WatchesReach'
    <2> SUFFICES ASSUME NEW d \in watching'
                 PROVE  d \in Dir /\ Reached(Root, d)
      BY <1>1, RulesStay DEF WatchesReach
    <2>1. CASE d \in watching
      BY <2>1 DEF SelectionInv, WatchesReach
    <2>2. CASE d \notin watching
      <3>1. n \in Dir /\ d \in AddRecursive(n)
        BY <1>3, <2>2
      <3>2. d \in Dir /\ d \in Node /\ (d = n \/ n \in Above[d]) /\ Reached(n, d)
        BY <3>1 DEF AddRecursive, Node
      <3>3. Reached(Root, ParentOf(n))
        BY <1>2 DEF SelectionInv, WatchesReach
      <3> QED
        BY <3>1, <3>2, <3>3, ReachedBelow
    <2> QED
      BY <2>1, <2>2
  <1>8. EventsReported'
    <2> SUFFICES ASSUME NEW i \in 1..Len(events')
                 PROVE  LET m == events'[i].node IN
                        m # Root /\ ParentOf(m) \in watching' /\ (m \in Dir => m \in exists')
      BY DEF EventsReported, ParentOf
    <2>1. LET m == events[i + 1].node IN
          m # Root /\ ParentOf(m) \in watching /\ (m \in Dir => m \in exists)
      BY <1>4 DEF SelectionInv, EventsReported
    <2> QED
      BY <1>1, <1>4, <1>5, <2>1
  <1>9. DirsFollowed'
    <2> SUFFICES ASSUME NEW d \in Dir, d \in exists, Wanted(d)
                 PROVE  d \in watching' \/ Announced(d)'
      BY <1>1, RulesStay DEF DirsFollowed
    <2>1. CASE d \in watching
      BY <1>5, <2>1
    <2>2. CASE d \notin watching
      <3>1. PICK i \in 1..Len(events) :
               events[i].node \in Dir /\ events[i].node \in Above[d] \cup {d}
        BY <2>2 DEF SelectionInv, DirsFollowed, Announced
      <3>2. CASE i # 1
        <4>1. i - 1 \in 1..Len(events') /\ events'[i - 1] = events[i]
          BY <1>4, <3>2
        <4> QED
          BY <3>1, <4>1 DEF Announced
      <3>3. CASE i = 1
        <4>1. n \in Dir /\ n \in Above[d] \cup {d} /\ n \notin File
          BY <3>1, <3>3, SelectionAssumption DEF n
        <4>2. n \notin Hidden /\ ~ ShouldIgnore(n) /\ ~ ShouldIgnore(d)
          BY <4>1 DEF Wanted, Visible
        <4>3. watching' = watching \cup AddRecursive(n)
          BY <1>3, <4>1, <4>2
        <4>4. Reached(n, d)
          BY ReachedFromAny DEF Wanted, Node
        <4>5. d \in AddRecursive(n)
          BY <4>1, <4>2, <4>4 DEF AddRecursive
        <4> QED
          BY <4>3, <4>5
      <3> QED
        BY <3>2, <3>3
    <2> QED
      BY <2>1, <2>2
  <1>10. FilesFollowed'
    <2> SUFFICES ASSUME NEW g \in File, g \notin early, Visible(g), Wanted(ParentOf(g))
                 PROVE  Settled(g)' \/ Coming(g)'
      BY <1>1, RulesStay DEF FilesFollowed, Visible
    <2>1. Settled(g) \/ Coming(g)
      BY DEF SelectionInv, FilesFollowed
    <2>2. ASSUME Settled(g)
          PROVE  Settled(g)'
      <3>1. g # n /\ \A i \in 1..Len(events') : events'[i].node # g
        BY <1>2, <1>4, <2>2 DEF Settled, n
      <3>2. index'[g] = index[g]
        BY <1>3, <3>1 DEF SelectionInv, SelectionTypes
      <3> QED
        BY <1>1, <2>2, <3>1, <3>2, RulesStay DEF Settled, Right
    <2>3. ASSUME Coming(g), ~ Coming(g)'
          PROVE  Settled(g)'
      <3>1. /\ n = g /\ (kind = "delete" <=> g \notin exists)
            /\ \A j \in 1..Len(events') : events'[j].node # g
        BY <1>1, <2>3, ComingStays DEF n, kind
      <3>2. n \notin Hidden
        BY <3>1 DEF Visible
      <3>3. CASE ShouldIgnore(g)
        <4>1. index'[g] = Unindexed /\ ~ Selected(g)
          BY <1>3, <3>1, <3>3 DEF SelectionInv, OnlySelected, Selected
        <4> QED
          BY <1>1, <3>1, <4>1, RulesStay DEF Settled, Right
      <3>4. CASE ~ ShouldIgnore(g)
        <4>1. Selected(g)
          BY <1>2, <3>1, <3>4, WatchedIsSelected DEF SelectionInv
        <4>2. g \notin Dir
          BY SelectionAssumption
        <4>3. index' = IF g \in exists THEN [index EXCEPT ![g] = content[g]]
                                       ELSE [index EXCEPT ![g] = Unindexed]
          BY <1>3, <3>1, <3>2, <3>4, <4>2
        <4>4. index'[g] = IF g \in exists THEN content[g] ELSE Unindexed
          BY <4>3 DEF SelectionInv, SelectionTypes
        <4> QED
          BY <1>1, <3>1, <4>1, <4>4, RulesStay DEF Settled, Right
      <3> QED
        BY <3>3, <3>4
    <2> QED
      BY <2>1, <2>2, <2>3
  <1>11. OnlySelected'
    <2> SUFFICES ASSUME NEW f \in File, index'[f] # Unindexed
                 PROVE  Selected(f)
      BY <1>1, RulesStay DEF OnlySelected
    <2>1. CASE f = n
      <3>1. ~ ShouldIgnore(f) => Selected(f)
        BY <1>2, <2>1, WatchedIsSelected DEF SelectionInv
      <3>2. ShouldIgnore(f) => index' = index
        BY <1>3, <2>1
      <3> QED
        BY <3>1, <3>2 DEF SelectionInv, OnlySelected
    <2>2. CASE f # n
      <3>1. index'[f] = index[f]
        BY <1>3, <2>2 DEF SelectionInv, SelectionTypes
      <3> QED
        BY <3>1 DEF SelectionInv, OnlySelected
    <2> QED
      BY <2>1, <2>2
  <1> QED
    BY <1>6, <1>7, <1>8, <1>9, <1>10, <1>11 DEF SelectionInv

LEMMA SelectionStart == FileInit => SelectionInv
  <1> SUFFICES ASSUME FileInit
               PROVE  SelectionInv
    OBVIOUS
  <1>1. /\ rules \in RuleFiles /\ exists \in {{Root}, Node} /\ content = [f \in File |-> 0]
        /\ watching = AddRecursive(Root) /\ events = <<>>
        /\ index = [f \in File |-> IF f \in exists /\ Selected(f) THEN 0 ELSE Unindexed]
    BY DEF FileInit
  <1>2. SelectionTypes
    <2>1. \A n \in Node : n # Root => ParentOf(n) \in Node
      BY TreeIsOne
    <2> QED
      BY <1>1, <2>1, SelectionAssumption DEF SelectionTypes, Node
  <1>3. WatchesReach /\ EventsReported
    BY <1>1 DEF WatchesReach, EventsReported, AddRecursive
  <1>4. DirsFollowed
    <2> SUFFICES ASSUME NEW d \in Dir, d \in exists, Wanted(d)
                 PROVE  d \in AddRecursive(Root)
      BY <1>1 DEF DirsFollowed
    <2> QED
      BY SelectionAssumption DEF Wanted, AddRecursive, Node
  <1>5. FilesFollowed /\ OnlySelected
    BY <1>1 DEF FilesFollowed, Settled, Right, OnlySelected, Selected
  <1> QED
    BY <1>2, <1>3, <1>4, <1>5 DEF SelectionInv

LEMMA SelectionStep == SelectionInv /\ [FileNext]_fileVars => SelectionInv'
  <1> SUFFICES ASSUME SelectionInv, [FileNext]_fileVars
               PROVE  SelectionInv'
    OBVIOUS
  <1>1. CASE UNCHANGED fileVars
    <2>1. /\ rules' = rules /\ exists' = exists /\ content' = content /\ watching' = watching
          /\ events' = events /\ index' = index /\ early' = early
      BY <1>1 DEF fileVars
    <2>2. SelectionTypes' /\ WatchesReach' /\ OnlySelected'
      BY <2>1, RulesStay DEF SelectionInv, SelectionTypes, WatchesReach, OnlySelected, ParentOf
    <2>3. EventsReported'
      <3> SUFFICES ASSUME NEW i \in 1..Len(events')
                   PROVE  LET m == events'[i].node IN
                          m # Root /\ ParentOf(m) \in watching' /\ (m \in Dir => m \in exists')
        BY DEF EventsReported, ParentOf
      <3> QED
        BY <2>1 DEF SelectionInv, EventsReported
    <2>4. DirsFollowed'
      BY <2>1, RulesStay DEF SelectionInv, DirsFollowed, Announced
    <2>5. \A f : (Settled(f)' <=> Settled(f)) /\ (Coming(f)' <=> Coming(f))
      BY <2>1, RulesStay DEF Settled, Right, Coming
    <2>6. FilesFollowed'
      BY <2>1, <2>5, RulesStay DEF SelectionInv, FilesFollowed, Visible
    <2> QED
      BY <2>2, <2>3, <2>4, <2>6 DEF SelectionInv
  <1>2. ASSUME NEW f \in File, Write(f)
        PROVE  SelectionInv'
    BY <1>2, WriteKeeps
  <1>3. ASSUME NEW f \in File, Remove(f)
        PROVE  SelectionInv'
    BY <1>3, RemoveKeeps
  <1>4. ASSUME NEW d \in Dir, NEW inside \in SUBSET Inside(d), Appear(d, inside)
        PROVE  SelectionInv'
    BY <1>4, AppearKeeps
  <1>5. CASE Handle
    BY <1>5, HandleKeeps
  <1> QED
    BY <1>1, <1>2, <1>3, <1>4, <1>5 DEF FileNext

LEMMA InvFollowsRules == SelectionInv => RulesAreFollowed
  <1> SUFFICES ASSUME SelectionInv
               PROVE  RulesAreFollowed
    OBVIOUS
  <1>1. NegationsAreReached
    BY TakenBackIsReached DEF SelectionInv, SelectionTypes
  <1>2. SelectionIsFollowed
    <2> SUFFICES ASSUME events = <<>>
                 PROVE  /\ \A d \in Dir \intersect exists : Wanted(d) => d \in watching
                        /\ \A f \in File \ early :
                              Visible(f) /\ Wanted(ParentOf(f)) => Right(f)
      BY DEF SelectionIsFollowed, Right, SelectionInv, OnlySelected
    <2> QED
      BY DEF SelectionInv, DirsFollowed, Announced, FilesFollowed, Settled, Coming
  <1> QED
    BY <1>1, <1>2 DEF RulesAreFollowed

\* For any tree, any rules and any changes of it: what a negation takes back is found
\* by the scan unless a .grepaiignore itself ignores a directory above it; once the
\* events are handled, the directories that neither are ignored nor lie below an ignored
\* one are watched, and a file in one is indexed as it is and as the rules say, unless
\* it last changed before the watch on its directory; and nothing else is indexed.
THEOREM RulesAlwaysFollowed == FileSpec => []RulesAreFollowed
  <1>1. FileInit => SelectionInv
    BY SelectionStart
  <1>2. SelectionInv /\ [FileNext]_fileVars => SelectionInv'
    BY SelectionStep
  <1>3. SelectionInv => RulesAreFollowed
    BY InvFollowsRules
  <1> QED
    BY <1>1, <1>2, <1>3, PTL DEF FileSpec

(***************************************************************************)
(* What clients read                                                       *)
(***************************************************************************)
Versions == ServedContent \union {Gone}
Found == ServedTree \X ServedPath \X ServedContent
WatchAsk == [op : {"watch"}, wt : ServedTree, at : {"registered", "counted", "waits", "fresh", "done"},
             baseline : Int, queued : SUBSET ServedPath, lost : SUBSET ServedPath,
             skipped : BOOLEAN, warned : BOOLEAN]
AllAsk == [op : {"all"}, at : {"reads", "done"}, left : SUBSET ServedTree, hits : SUBSET Found,
           skipped : SUBSET ServedTree, stale : SUBSET ServedTree, read : SUBSET Found]
WaitAsk == [op : {"wait"}, wt : ServedTree, at : {"done"}, current : SUBSET ServedPath]
ReadTypes ==
    /\ view \in [ServedTree -> [ServedPath -> Versions]]
    /\ tree \in [ServedTree -> [ServedPath -> Versions]]
    /\ failed \in [ServedTree -> Nat]
    /\ ask \in {Idle} \union WatchAsk \union AllAsk \union WaitAsk

\* What a watch counted before it queued its paths is at most what has failed by now,
\* and less once a path it queued has failed.
CountsGrow ==
    ask.op = "watch" =>
        /\ ask.at = "registered" => ask.queued = {} /\ ask.lost = {}
        /\ ask.at \in {"counted", "waits", "fresh"} /\ ~ ask.skipped =>
              /\ ask.baseline <= Total(ServedTree)
              /\ ask.lost # {} => ask.baseline < Total(ServedTree)

\* What a search left out of the hits of a worktree ranks below a full list of hits.
Beaten(g, hits) ==
    \E full \in SUBSET hits :
        /\ Cardinality(full) = ResultLimit
        /\ \A h \in full : Rank(g[1], g[3]) <= Rank(h[1], h[3])
BestAreKept ==
    AskingAll("reads") =>
        /\ IsFiniteSet(ask.read)
        /\ ask.hits \subseteq ask.read
        /\ \A g \in ask.read \ ask.hits : Beaten(g, ask.hits)
        /\ \A h \in ask.read : h[1] \notin ask.left /\ h[1] \notin ask.skipped
        /\ ask.skipped \intersect ask.left = {}

ReadInv == ReadTypes /\ CountsGrow /\ BestAreKept /\ ReadsAreHonest

LettersOf(f) == UNION {{w} \X (1..f[w]) : w \in ServedTree}

\* There are finitely many dead letters, and one more makes the number grow.
LEMMA LettersFinite ==
    ASSUME NEW f \in [ServedTree -> Nat]
    PROVE  IsFiniteSet(LettersOf(f))
<1> DEFINE LettersAt(w) == {w} \X (1..f[w])
<1>1. \A w \in ServedTree : IsFiniteSet(LettersAt(w))
  <2> TAKE w \in ServedTree
  <2>1. IsFiniteSet({w})
    BY FS_Singleton
  <2>2. IsFiniteSet(1..f[w])
    BY FS_Interval
  <2> QED
    BY <2>1, <2>2, FS_Product
<1>2. IsFiniteSet({LettersAt(w) : w \in ServedTree})
  <2> HIDE DEF LettersAt
  <2> DEFINE by == [w \in ServedTree |-> LettersAt(w)]
             Ofs == {LettersAt(w) : w \in ServedTree}
  <2>1. by \in Surjection(ServedTree, Ofs)
    BY DEF Surjection
  <2> HIDE DEF Ofs, by
  <2>2. IsFiniteSet(Ofs)
    BY <2>1, FS_Surjection, ReadAssumption DEF ReadAssumption
  <2> QED
    BY <2>2 DEF Ofs
<1>3. \A T \in {LettersAt(w) : w \in ServedTree} : IsFiniteSet(T)
  <2> HIDE DEF LettersAt
  <2> QED
    BY <1>1
<1>4. IsFiniteSet(UNION {LettersAt(w) : w \in ServedTree})
  <2> HIDE DEF LettersAt
  <2> QED
    BY <1>2, <1>3, FS_UNION
<1> QED
  BY <1>4 DEF LettersOf

LEMMA LettersGrow ==
    ASSUME NEW f \in [ServedTree -> Nat], NEW w \in ServedTree
    PROVE  Cardinality(LettersOf(f)) < Cardinality(LettersOf([f EXCEPT ![w] = @ + 1]))
<1> DEFINE g == [f EXCEPT ![w] = @ + 1]
<1>1. g \in [ServedTree -> Nat] /\ g[w] = f[w] + 1 /\ \A v \in ServedTree : f[v] <= g[v]
  OBVIOUS
<1>2. IsFiniteSet(LettersOf(f)) /\ IsFiniteSet(LettersOf(g))
  BY <1>1, LettersFinite
<1>3. LettersOf(f) \subseteq LettersOf(g)
  BY <1>1 DEF LettersOf
<1>4. <<w, f[w] + 1>> \in LettersOf(g)
  BY <1>1 DEF LettersOf
<1>5. <<w, f[w] + 1>> \notin LettersOf(f)
  BY DEF LettersOf
<1> HIDE DEF g
<1>6. LettersOf(f) # LettersOf(g)
  BY <1>4, <1>5
<1>7. Cardinality(LettersOf(f)) <= Cardinality(LettersOf(g))
      /\ Cardinality(LettersOf(f)) # Cardinality(LettersOf(g))
  BY <1>2, <1>3, <1>6, FS_Subset
<1>8. Cardinality(LettersOf(f)) \in Nat /\ Cardinality(LettersOf(g)) \in Nat
  BY <1>2, FS_CardinalityType
<1>9. Cardinality(LettersOf(f)) < Cardinality(LettersOf(g))
  BY <1>7, <1>8
<1> QED
  BY <1>9 DEF g

LEMMA TotalCounts ==
    ASSUME failed \in [ServedTree -> Nat]
    PROVE  Total(ServedTree) = Cardinality(LettersOf(failed)) /\ Total(ServedTree) \in Nat
<1>1. Total(ServedTree) = Cardinality(LettersOf(failed))
  BY DEF Total, Letters, LettersOf
<1> QED
  BY <1>1, LettersFinite, FS_CardinalityType

\* The hits of a worktree are finitely many rows of it.
LEMMA HitsOfWorktree ==
    ASSUME ReadTypes, NEW w \in ServedTree
    PROVE  /\ IsFiniteSet(Hits(w)) /\ Hits(w) \subseteq Found
           /\ \A h \in Hits(w) : h[1] = w
<1> DEFINE RowOf(q) == <<w, q, view[w][q]>>
           Shown == {q \in ServedPath : view[w][q] # Gone}
<1>1. IsFiniteSet(Shown)
  BY FS_Subset, ReadAssumption DEF ReadAssumption
<1>2. IsFiniteSet({RowOf(q) : q \in Shown})
  <2> HIDE DEF RowOf, Shown
  <2> DEFINE by == [q \in Shown |-> RowOf(q)]
             AllRows == {RowOf(q) : q \in Shown}
  <2>1. by \in Surjection(Shown, AllRows)
    BY DEF Surjection
  <2> HIDE DEF AllRows, by
  <2>2. IsFiniteSet(AllRows)
    BY <1>1, <2>1, FS_Surjection
  <2> QED
    BY <2>2 DEF AllRows
<1>3. Hits(w) = {RowOf(q) : q \in Shown}
  BY DEF Hits
<1>4. \A q \in Shown : view[w][q] \in ServedContent
  BY DEF ReadTypes, Versions
<1>5. Hits(w) \subseteq Found
  BY <1>4 DEF Hits, Found
<1>6. \A h \in Hits(w) : h[1] = w
  BY DEF Hits
<1> QED
  BY <1>2, <1>3, <1>5, <1>6

\* A call is what its kind says.
LEMMA AskKinds ==
    ASSUME ReadTypes
    PROVE  /\ ask.op = "watch" => ask \in WatchAsk
           /\ ask.op = "all" => ask \in AllAsk
           /\ ask # Idle /\ ask.op # "watch" /\ ask.op # "all" => ask \in WaitAsk
  BY DEF ReadTypes, Idle, WatchAsk, AllAsk, WaitAsk

\* What the invariant says of the catalogs, after a step that plans.
LEMMA PlanningKeepsTypes ==
    ASSUME ReadTypes, NEW w \in ServedTree, PlanAll(w)
    PROVE  view' = view /\ failed' = failed
  BY DEF PlanAll

\* A step that leaves the call and the dead letters alone leaves the invariant.
LEMMA CallUntouched ==
    ASSUME ReadInv, ask' = ask, failed' = failed,
           view' \in [ServedTree -> [ServedPath -> Versions]],
           tree' \in [ServedTree -> [ServedPath -> Versions]]
    PROVE  ReadInv'
<1>1. ReadTypes'
  BY DEF ReadInv, ReadTypes
<1>2. Total(ServedTree)' = Total(ServedTree)
  BY DEF Total, Letters
<1>3. CountsGrow'
  BY <1>2 DEF ReadInv, CountsGrow
<1>4. BestAreKept'
  BY DEF ReadInv, BestAreKept, AskingAll
<1>5. ReadsAreHonest'
  BY DEF ReadInv, ReadsAreHonest, FailuresAreReported, AnswersAreBest, AskingAll, Watching
<1> QED
  BY <1>1, <1>3, <1>4, <1>5 DEF ReadInv

LEMMA ReadInvInit == ReadInit => ReadInv
<1> SUFFICES ASSUME ReadInit
             PROVE  ReadInv
  OBVIOUS
<1>1. (CHOOSE c \in ServedContent : TRUE) \in Versions
  BY ReadAssumption DEF ReadAssumption, Versions
<1>2. tree \in [ServedTree -> [ServedPath -> Versions]]
  BY <1>1 DEF ReadInit
<1>3. view \in [ServedTree -> [ServedPath -> Versions]]
  <2>1. CASE view = tree
    BY <1>2, <2>1
  <2>2. CASE view = [w \in ServedTree |-> [p \in ServedPath |-> Gone]]
    BY <2>2 DEF Versions
  <2> QED
    BY <2>1, <2>2 DEF ReadInit
<1>4. ask = Idle /\ ask.op = "none"
  BY DEF ReadInit, Idle
<1>5. ReadTypes
  BY <1>2, <1>3, <1>4 DEF ReadInit, ReadTypes
<1>6. CountsGrow /\ BestAreKept
  BY <1>4 DEF CountsGrow, BestAreKept, AskingAll
<1>7. ReadsAreHonest
  BY <1>4 DEF ReadsAreHonest, FailuresAreReported, AnswersAreBest, AskingAll, Watching
<1> QED
  BY <1>5, <1>6, <1>7 DEF ReadInv

LEMMA DaemonKeepsReads == ReadInv /\ DaemonMoves => ReadInv'
<1> SUFFICES ASSUME ReadInv, DaemonMoves
             PROVE  ReadInv'
  OBVIOUS
<1> USE DEF ReadInv
<1>1. CASE \E w \in ServedTree, p \in ServedPath, c \in ServedContent \union {Gone} : Edit(w, p, c)
  <2> PICK w \in ServedTree, p \in ServedPath, c \in Versions : Edit(w, p, c)
    BY <1>1 DEF Versions
  <2>1. ask' = ask /\ failed' = failed /\ view' = view
    BY DEF Edit, queueVars
  <2>2. tree' \in [ServedTree -> [ServedPath -> Versions]]
    BY DEF Edit, ReadTypes
  <2> QED
    BY <2>1, <2>2, CallUntouched DEF ReadTypes
<1>2. CASE \E w \in ServedTree : WatchLoop(w)
  <2>1. ask' = ask /\ failed' = failed /\ view' = view /\ tree' = tree
    BY <1>2 DEF WatchLoop, PlanAll
  <2> QED
    BY <2>1, CallUntouched DEF ReadTypes
<1>3. CASE \E w \in ServedTree, p \in ServedPath : Commit(w, p)
  <2> PICK w \in ServedTree, p \in ServedPath : Commit(w, p)
    BY <1>3
  <2>1. ask' = ask /\ failed' = failed /\ tree' = tree
    BY DEF Commit
  <2>2. view' \in [ServedTree -> [ServedPath -> Versions]]
    BY DEF Commit, ReadTypes, Versions
  <2> QED
    BY <2>1, <2>2, CallUntouched DEF ReadTypes
<1>4. CASE \E w \in ServedTree, p \in ServedPath : CommitGone(w, p)
  <2> PICK w \in ServedTree, p \in ServedPath : CommitGone(w, p)
    BY <1>4
  <2>1. ask' = ask /\ failed' = failed /\ tree' = tree
    BY DEF CommitGone
  <2>2. view' \in [ServedTree -> [ServedPath -> Versions]]
    BY DEF CommitGone, ReadTypes, Versions
  <2> QED
    BY <2>1, <2>2, CallUntouched DEF ReadTypes
<1>5. CASE \E w \in ServedTree, p \in ServedPath : DeadLetter(w, p)
  <2> PICK w \in ServedTree, p \in ServedPath : DeadLetter(w, p)
    BY <1>5
  <2>1. /\ failed' = [failed EXCEPT ![w] = @ + 1]
        /\ failed \in [ServedTree -> Nat] /\ failed' \in [ServedTree -> Nat]
        /\ view' = view /\ tree' = tree /\ ask' = Noticed(w, p)
    BY DEF DeadLetter, ReadTypes
  <2>2. Total(ServedTree) \in Nat /\ Total(ServedTree) = Cardinality(LettersOf(failed))
    BY <2>1, TotalCounts
  <2>3. Total(ServedTree)' = Cardinality(LettersOf(failed'))
    BY DEF Total, Letters, LettersOf
  <2>4. Total(ServedTree) < Total(ServedTree)' /\ Total(ServedTree)' \in Nat
    BY <2>1, <2>2, <2>3, LettersGrow, LettersFinite, FS_CardinalityType
  <2>5. CASE ask.op = "watch" /\ ask.at # "done" /\ ask.wt = w /\ p \in ask.queued
    <3>1. ask' = [ask EXCEPT !.lost = @ \union {p}] /\ ask \in WatchAsk
      BY <2>1, <2>5, AskKinds DEF Noticed
    <3>2. /\ ask' \in WatchAsk /\ ask'.op = "watch" /\ ask'.at = ask.at /\ ask'.at # "done"
          /\ ask'.queued = ask.queued /\ (ask'.skipped <=> ask.skipped)
          /\ ask'.baseline = ask.baseline /\ ask.baseline \in Int
      BY <3>1, <2>5 DEF WatchAsk
    <3>3. ReadTypes'
      BY <2>1, <3>2 DEF ReadTypes
    <3>4. ask.at # "registered"
      BY <2>5 DEF CountsGrow
    <3>5. CountsGrow'
      <4>1. ask.op = "watch" /\ ask.at # "registered"
        BY <2>5, <3>4
      <4>2. SUFFICES ASSUME ask.at \in {"counted", "waits", "fresh"}, ~ ask.skipped
                     PROVE  ask.baseline < Total(ServedTree)'
        BY <2>4, <3>2, <3>4 DEF CountsGrow
      <4>3. ask.baseline <= Total(ServedTree)
        BY <4>1, <4>2 DEF CountsGrow
      <4> QED
        BY <2>2, <2>4, <3>2, <4>3
    <3>6. BestAreKept' /\ ReadsAreHonest'
      BY <3>2 DEF BestAreKept, AskingAll, ReadsAreHonest, FailuresAreReported,
                  AnswersAreBest, Watching
    <3> QED
      BY <3>3, <3>5, <3>6
  <2>6. CASE ~ (ask.op = "watch" /\ ask.at # "done" /\ ask.wt = w /\ p \in ask.queued)
    <3>1. ask' = ask
      BY <2>1, <2>6 DEF Noticed
    <3>2. ReadTypes'
      BY <2>1, <3>1 DEF ReadTypes
    <3>3. ask.op = "watch" => ask.baseline \in Int
      BY AskKinds DEF WatchAsk
    <3>4. CountsGrow'
      BY <2>2, <2>4, <3>1, <3>3 DEF CountsGrow
    <3>5. BestAreKept' /\ ReadsAreHonest'
      BY <3>1 DEF BestAreKept, AskingAll, ReadsAreHonest, FailuresAreReported,
                  AnswersAreBest, Watching
    <3> QED
      BY <3>2, <3>4, <3>5
  <2> QED
    BY <2>5, <2>6
<1> QED
  BY <1>1, <1>2, <1>3, <1>4, <1>5 DEF DaemonMoves

\* `grepai watch` step by step.
LEMMA WatchKeepsReads ==
    ReadInv /\ ((\E w \in ServedTree : BeginWatch(w)) \/ Baseline \/ Explicit \/ SeesFresh \/ CountsFailed)
        => ReadInv'
<1> USE DEF ReadInv
<1>0. ASSUME ReadInv, ask' \in WatchAsk,
             failed' = failed, view' = view, tree' = tree,
             CountsGrow', ask'.at = "done" /\ ask'.lost # {} => ask'.warned \/ ask'.skipped
      PROVE  ReadInv'
  <2>1. ask'.op = "watch"
    BY <1>0 DEF WatchAsk
  <2>2. ReadTypes'
    BY <1>0 DEF ReadTypes
  <2>3. BestAreKept' /\ AnswersAreBest' /\ FailuresAreReported'
    BY <1>0, <2>1 DEF BestAreKept, AskingAll, AnswersAreBest, FailuresAreReported, Watching
  <2> QED
    BY <1>0, <2>2, <2>3 DEF ReadsAreHonest
<1>1. ASSUME ReadInv, NEW w \in ServedTree, BeginWatch(w)
      PROVE  ReadInv'
  <2>1. view' = view /\ failed' = failed /\ tree' = tree
    BY <1>1 DEF BeginWatch, RegisterCall, PlanAll, queueVars
  <2>2. /\ ask' \in WatchAsk /\ ask'.at = "registered" /\ ask'.queued = {} /\ ask'.lost = {}
    BY <1>1 DEF BeginWatch, WatchAsk
  <2>3. CountsGrow'
    BY <2>2 DEF CountsGrow
  <2> QED
    BY <1>0, <1>1, <2>1, <2>2, <2>3
<1>2. ASSUME ReadInv, Baseline
      PROVE  ReadInv'
  <2>1. ask \in WatchAsk /\ ask.op = "watch" /\ ask.at = "registered" /\ ask.lost = {}
    BY <1>2, AskKinds DEF Baseline, Watching, CountsGrow
  <2>2. PICK readable \in SUBSET ServedTree :
            ask' = [ask EXCEPT !.at = "counted", !.baseline = Total(readable),
                               !.skipped = readable # ServedTree]
    BY <1>2 DEF Baseline
  <2>3. view' = view /\ failed' = failed /\ tree' = tree
    BY <1>2 DEF Baseline, queueVars
  <2>4. Total(readable) \in Nat
    <3>1. Letters(readable) \subseteq LettersOf(failed)
      BY DEF Letters, LettersOf
    <3>2. IsFiniteSet(Letters(readable))
      BY <1>2, <3>1, LettersFinite, FS_Subset DEF ReadTypes
    <3> QED
      BY <3>2, FS_CardinalityType DEF Total
  <2> DEFINE skips == readable # ServedTree
             counted == Total(readable)
  <2>5. /\ ask' \in WatchAsk /\ ask'.at = "counted" /\ ask'.lost = {}
        /\ ask'.baseline = Total(readable) /\ (ask'.skipped <=> readable # ServedTree)
    <3>1. skips \in BOOLEAN /\ counted \in Int
      BY <2>4
    <3>2. ask' = [ask EXCEPT !.at = "counted", !.baseline = counted, !.skipped = skips]
      BY <2>2
    <3> HIDE DEF skips, counted
    <3>3. /\ ask' \in WatchAsk /\ ask'.at = "counted" /\ ask'.lost = {}
          /\ ask'.baseline = counted /\ (ask'.skipped <=> skips)
      BY <2>1, <3>1, <3>2 DEF WatchAsk
    <3> QED
      BY <3>3 DEF skips, counted
  <2>6. Total(ServedTree)' = Total(ServedTree)
    BY <2>3 DEF Total, Letters
  <2>7. CountsGrow'
    BY <2>4, <2>5, <2>6 DEF CountsGrow
  <2> QED
    BY <1>0, <1>2, <2>3, <2>5, <2>7
<1>3. ASSUME ReadInv, Explicit
      PROVE  ReadInv'
  <2>1. ask \in WatchAsk /\ ask.op = "watch" /\ ask.at = "counted"
    BY <1>3, AskKinds DEF Explicit, Watching
  <2>2. view' = view /\ failed' = failed /\ tree' = tree
    BY <1>3 DEF Explicit, PlanAll
  <2>3. /\ ask' \in WatchAsk /\ ask'.at = "waits" /\ ask'.lost = ask.lost
        /\ ask'.baseline = ask.baseline /\ (ask'.skipped <=> ask.skipped)
    BY <1>3, <2>1 DEF Explicit, WatchAsk
  <2>4. Total(ServedTree)' = Total(ServedTree)
    BY <2>2 DEF Total, Letters
  <2>5. CountsGrow'
    BY <1>3, <2>1, <2>3, <2>4 DEF CountsGrow
  <2> QED
    BY <1>0, <1>3, <2>2, <2>3, <2>5
<1>4. ASSUME ReadInv, SeesFresh
      PROVE  ReadInv'
  <2>1. ask \in WatchAsk /\ ask.op = "watch" /\ ask.at = "waits"
    BY <1>4, AskKinds DEF SeesFresh, Watching
  <2>2. view' = view /\ failed' = failed /\ tree' = tree
    BY <1>4 DEF SeesFresh, queueVars
  <2>3. /\ ask' \in WatchAsk /\ ask'.at = "fresh" /\ ask'.lost = ask.lost
        /\ ask'.baseline = ask.baseline /\ (ask'.skipped <=> ask.skipped)
    BY <1>4, <2>1 DEF SeesFresh, WatchAsk
  <2>4. Total(ServedTree)' = Total(ServedTree)
    BY <2>2 DEF Total, Letters
  <2>5. CountsGrow'
    BY <1>4, <2>1, <2>3, <2>4 DEF CountsGrow
  <2> QED
    BY <1>0, <1>4, <2>2, <2>3, <2>5
<1>5. ASSUME ReadInv, CountsFailed
      PROVE  ReadInv'
  <2>1. ask \in WatchAsk /\ ask.op = "watch" /\ ask.at = "fresh"
    BY <1>5, AskKinds DEF CountsFailed, Watching
  <2>2. PICK readable \in SUBSET ServedTree :
            ask' = [ask EXCEPT !.at = "done", !.warned = SinceBaseline(readable) > 0,
                               !.skipped = @ \/ readable # ServedTree]
    BY <1>5 DEF CountsFailed
  <2>3. view' = view /\ failed' = failed /\ tree' = tree
    BY <1>5 DEF CountsFailed, queueVars
  <2>4. /\ ask' \in WatchAsk /\ ask'.at = "done" /\ ask'.lost = ask.lost
        /\ (ask'.warned <=> SinceBaseline(readable) > 0)
        /\ (ask'.skipped <=> ask.skipped \/ readable # ServedTree)
    <3> DEFINE skips == ask.skipped \/ readable # ServedTree
               warns == SinceBaseline(readable) > 0
    <3>1. skips \in BOOLEAN /\ warns \in BOOLEAN
      OBVIOUS
    <3>2. ask' = [ask EXCEPT !.at = "done", !.warned = warns, !.skipped = skips]
      BY <2>2
    <3> HIDE DEF skips, warns
    <3>3. /\ ask' \in WatchAsk /\ ask'.at = "done" /\ ask'.lost = ask.lost
          /\ (ask'.warned <=> warns) /\ (ask'.skipped <=> skips)
      BY <2>1, <3>1, <3>2 DEF WatchAsk
    <3> QED
      BY <3>3 DEF skips, warns
  <2>5. CountsGrow'
    BY <2>4 DEF CountsGrow
  <2>6. ASSUME ask.lost # {}, ~ ask'.skipped
        PROVE  ask'.warned
    <3>1. readable = ServedTree /\ ~ ask.skipped
      BY <2>4, <2>6
    <3>2. ask.baseline < Total(ServedTree)
      BY <1>5, <2>1, <2>6, <3>1 DEF CountsGrow
    <3>3. ask.baseline \in Int /\ Total(ServedTree) \in Nat
      BY <1>5, <2>1, TotalCounts DEF WatchAsk, ReadTypes
    <3>4. SinceBaseline(ServedTree) > 0
      BY <3>2, <3>3 DEF SinceBaseline
    <3> QED
      BY <2>4, <3>1, <3>4
  <2> QED
    BY <1>0, <1>5, <2>3, <2>4, <2>5, <2>6
<1> QED
  BY <1>1, <1>2, <1>3, <1>4, <1>5

\* What a worktree's best leave out ranks below a full list of them.
LEMMA LeftOutIsBeaten ==
    ASSUME NEW hits \in SUBSET Found, IsFiniteSet(hits),
           NEW top \in Best(ResultLimit, hits), NEW g \in hits \ top
    PROVE  Beaten(g, top)
<1>1. top \subseteq hits /\ IsFiniteSet(top)
  BY FS_Subset DEF Best
<1>2. Cardinality(top) \in Nat /\ Cardinality(hits) \in Nat /\ ResultLimit \in Nat
  BY <1>1, FS_CardinalityType, ReadAssumption DEF ReadAssumption
<1>3. Cardinality(top) # Cardinality(hits)
  BY <1>1, FS_Subset
<1>4. Cardinality(top) = ResultLimit
  BY <1>2, <1>3 DEF Best
<1>5. \A h \in top : Rank(g[1], g[3]) <= Rank(h[1], h[3])
  BY DEF Best
<1> QED
  BY <1>4, <1>5 DEF Beaten

\* The merged list is the best of everything read, whatever each worktree left out.
LEMMA MergedAreBest ==
    ASSUME NEW read \in SUBSET Found, IsFiniteSet(read), NEW hits \in SUBSET read,
           \A g \in read \ hits : Beaten(g, hits),
           NEW top \in Best(ResultLimit, hits)
    PROVE  /\ top \subseteq read
           /\ \A h \in top, g \in read \ top : Rank(g[1], g[3]) <= Rank(h[1], h[3])
           /\ Cardinality(top) =
                  IF Cardinality(read) < ResultLimit THEN Cardinality(read) ELSE ResultLimit
<1>1. top \subseteq hits /\ IsFiniteSet(top) /\ IsFiniteSet(hits)
  BY FS_Subset DEF Best
<1>2. /\ Cardinality(top) \in Nat /\ Cardinality(hits) \in Nat /\ Cardinality(read) \in Nat
      /\ ResultLimit \in Nat
  BY <1>1, FS_CardinalityType, ReadAssumption DEF ReadAssumption
<1>3. Cardinality(top) =
          IF Cardinality(hits) < ResultLimit THEN Cardinality(hits) ELSE ResultLimit
  BY DEF Best
<1>4. \A h \in top, g \in hits \ top : Rank(g[1], g[3]) <= Rank(h[1], h[3])
  BY DEF Best
<1>5. \A h \in Found : Rank(h[1], h[3]) \in Int
  BY ReadAssumption DEF ReadAssumption, Found
<1>6. ASSUME NEW h \in top, NEW g \in read \ top
      PROVE  Rank(g[1], g[3]) <= Rank(h[1], h[3])
  <2>1. CASE g \in hits
    BY <1>4, <1>6, <2>1
  <2>2. CASE g \notin hits
    <3>1. PICK full \in SUBSET hits :
              /\ Cardinality(full) = ResultLimit
              /\ \A b \in full : Rank(g[1], g[3]) <= Rank(b[1], b[3])
      BY <1>6, <2>2 DEF Beaten
    <3>2. CASE full \subseteq top
      <4>1. Cardinality(full) <= Cardinality(top) /\
            (Cardinality(full) = Cardinality(top) => full = top)
        BY <1>1, <3>2, FS_Subset
      <4>2. Cardinality(top) <= ResultLimit
        BY <1>2, <1>3
      <4>3. full = top
        BY <1>2, <3>1, <4>1, <4>2
      <4> QED
        BY <3>1, <4>3
    <3>3. CASE ~ (full \subseteq top)
      <4>1. PICK b \in full : b \notin top
        BY <3>3
      <4>2. Rank(g[1], g[3]) <= Rank(b[1], b[3]) /\ Rank(b[1], b[3]) <= Rank(h[1], h[3])
        BY <1>4, <3>1, <4>1
      <4>3. g \in Found /\ b \in Found /\ h \in Found
        BY <1>1, <4>1
      <4> QED
        BY <1>5, <4>2, <4>3
    <3> QED
      BY <3>2, <3>3
  <2> QED
    BY <2>1, <2>2
<1>7. Cardinality(top) =
          IF Cardinality(read) < ResultLimit THEN Cardinality(read) ELSE ResultLimit
  <2>1. CASE hits = read
    BY <1>3, <2>1
  <2>2. CASE hits # read
    <3>1. PICK g \in read : g \notin hits
      BY <2>2
    <3>2. PICK full \in SUBSET hits : Cardinality(full) = ResultLimit
      BY <3>1 DEF Beaten
    <3>3. ResultLimit <= Cardinality(hits) /\ Cardinality(hits) <= Cardinality(read)
      BY <1>1, <3>2, FS_Subset
    <3> QED
      BY <1>2, <1>3, <3>3
  <2> QED
    BY <2>1, <2>2
<1> QED
  BY <1>1, <1>6, <1>7

\* A host-wide search step by step.
LEMMA SearchKeepsReads ==
    ReadInv /\ (BeginAll \/ (\E w \in ServedTree : ReadOne(w)) \/ Merge) => ReadInv'
<1> USE DEF ReadInv
<1>0. ASSUME ReadInv, ask' \in AllAsk, failed' = failed, view' = view, tree' = tree,
             BestAreKept', AnswersAreBest'
      PROVE  ReadInv'
  <2>1. ask'.op = "all"
    BY <1>0 DEF AllAsk
  <2>2. ReadTypes'
    BY <1>0 DEF ReadTypes
  <2>3. CountsGrow' /\ FailuresAreReported'
    BY <2>1 DEF CountsGrow, FailuresAreReported, Watching
  <2> QED
    BY <1>0, <2>2, <2>3 DEF ReadsAreHonest
<1>1. ASSUME ReadInv, BeginAll
      PROVE  ReadInv'
  <2>1. view' = view /\ failed' = failed /\ tree' = tree
    BY <1>1 DEF BeginAll, queueVars
  <2>2. ask' \in AllAsk /\ ask'.at = "reads" /\ ask'.hits = {} /\ ask'.read = {}
        /\ ask'.skipped = {}
    BY <1>1 DEF BeginAll, AllAsk
  <2>3. BestAreKept' /\ AnswersAreBest'
    BY <2>2, FS_EmptySet DEF BestAreKept, AnswersAreBest, AskingAll
  <2> QED
    BY <1>0, <1>1, <2>1, <2>2, <2>3
<1>2. ASSUME ReadInv, NEW w \in ServedTree, ReadOne(w)
      PROVE  ReadInv'
  <2>1. /\ ask \in AllAsk /\ ask.op = "all" /\ ask.at = "reads" /\ w \in ask.left
        /\ IsFiniteSet(ask.read) /\ ask.hits \subseteq ask.read
        /\ \A g \in ask.read \ ask.hits : Beaten(g, ask.hits)
        /\ \A h \in ask.read : h[1] \notin ask.left /\ h[1] \notin ask.skipped
        /\ ask.skipped \intersect ask.left = {}
    BY <1>2, AskKinds DEF ReadOne, AskingAll, BestAreKept
  <2>2. view' = view /\ failed' = failed /\ tree' = tree
    BY <1>2 DEF ReadOne, queueVars
  <2>3. CASE ask' = [ask EXCEPT !.left = @ \ {w}, !.skipped = @ \union {w}]
    <3>1. /\ ask' \in AllAsk /\ ask'.at = "reads" /\ ask'.left = ask.left \ {w}
          /\ ask'.skipped = ask.skipped \union {w} /\ ask'.read = ask.read
          /\ ask'.hits = ask.hits
      BY <2>1, <2>3 DEF AllAsk
    <3>2. BestAreKept'
      BY <2>1, <3>1 DEF BestAreKept
    <3>3. AnswersAreBest'
      BY <3>1 DEF AnswersAreBest, AskingAll
    <3> QED
      BY <1>0, <1>2, <2>2, <3>1, <3>2, <3>3
  <2>4. ASSUME NEW top \in Best(ResultLimit, Hits(w)),
               ask' = [ask EXCEPT !.left = @ \ {w}, !.hits = @ \union top,
                                  !.read = @ \union Hits(w),
                                  !.stale = @ \union {v \in {w} : Pending(v) # {}}]
        PROVE  ReadInv'
    <3>1. /\ IsFiniteSet(Hits(w)) /\ Hits(w) \subseteq Found
          /\ \A h \in Hits(w) : h[1] = w
      BY <1>2, HitsOfWorktree
    <3>2. top \subseteq Hits(w)
      BY DEF Best
    <3>3. /\ ask' \in AllAsk /\ ask'.at = "reads" /\ ask'.left = ask.left \ {w}
          /\ ask'.skipped = ask.skipped /\ ask'.read = ask.read \union Hits(w)
          /\ ask'.hits = ask.hits \union top
      BY <2>1, <2>4, <3>1, <3>2 DEF AllAsk
    <3>4. IsFiniteSet(ask'.read) /\ ask'.hits \subseteq ask'.read
      <4>1. IsFiniteSet(ask.read \union Hits(w))
        BY <2>1, <3>1, FS_Union
      <4> QED
        BY <2>1, <3>2, <3>3, <4>1
    <3>5. ASSUME NEW g \in ask'.read \ ask'.hits
          PROVE  Beaten(g, ask'.hits)
      <4>1. CASE g \in ask.read
        BY <2>1, <3>3, <3>5, <4>1 DEF Beaten
      <4>2. CASE g \in Hits(w)
        <5>1. Beaten(g, top)
          BY <2>4, <3>1, <3>3, <3>5, <4>2, LeftOutIsBeaten
        <5> QED
          BY <3>3, <5>1 DEF Beaten
      <4> QED
        BY <3>3, <4>1, <4>2
    <3>6. w \notin ask.skipped /\ ask'.skipped \intersect ask'.left = {}
      BY <2>1, <3>3
    <3>7. \A h \in ask'.read : h[1] \notin ask'.left /\ h[1] \notin ask'.skipped
      BY <2>1, <3>1, <3>3, <3>6
    <3>8. BestAreKept'
      BY <3>4, <3>5, <3>6, <3>7 DEF BestAreKept
    <3>9. AnswersAreBest'
      BY <3>3 DEF AnswersAreBest, AskingAll
    <3> QED
      BY <1>0, <1>2, <2>2, <3>3, <3>8, <3>9
  <2> QED
    BY <1>2, <2>3, <2>4 DEF ReadOne
<1>3. ASSUME ReadInv, Merge
      PROVE  ReadInv'
  <2>1. /\ ask \in AllAsk /\ ask.op = "all" /\ ask.at = "reads"
        /\ IsFiniteSet(ask.read) /\ ask.hits \subseteq ask.read
        /\ \A g \in ask.read \ ask.hits : Beaten(g, ask.hits)
        /\ \A h \in ask.read : h[1] \notin ask.skipped
    BY <1>3, AskKinds DEF Merge, AskingAll, BestAreKept
  <2>2. view' = view /\ failed' = failed /\ tree' = tree
    BY <1>3 DEF Merge, queueVars
  <2>3. PICK top \in Best(ResultLimit, ask.hits) : ask' = [ask EXCEPT !.at = "done", !.hits = top]
    BY <1>3 DEF Merge
  <2>4. ask.read \in SUBSET Found /\ ask.hits \in SUBSET ask.read
    BY <2>1 DEF AllAsk
  <2>5. /\ top \subseteq ask.read
        /\ \A h \in top, g \in ask.read \ top : Rank(g[1], g[3]) <= Rank(h[1], h[3])
        /\ Cardinality(top) = IF Cardinality(ask.read) < ResultLimit
                              THEN Cardinality(ask.read) ELSE ResultLimit
    BY <2>1, <2>4, MergedAreBest
  <2>6. /\ ask' \in AllAsk /\ ask'.at = "done" /\ ask'.hits = top /\ ask'.read = ask.read
        /\ ask'.skipped = ask.skipped
    BY <2>1, <2>3, <2>4, <2>5 DEF AllAsk
  <2>7. BestAreKept'
    BY <2>6 DEF BestAreKept, AskingAll
  <2>8. AnswersAreBest'
    BY <2>1, <2>5, <2>6 DEF AnswersAreBest
  <2> QED
    BY <1>0, <1>3, <2>2, <2>6, <2>7, <2>8
<1> QED
  BY <1>1, <1>2, <1>3

LEMMA ReadStep == ReadInv /\ [ReadNext]_readVars => ReadInv'
<1> SUFFICES ASSUME ReadInv, [ReadNext]_readVars
             PROVE  ReadInv'
  OBVIOUS
<1>1. CASE DaemonMoves
  BY <1>1, DaemonKeepsReads
<1>2. CASE Asks
  <2>1. ASSUME NEW w \in ServedTree, WaitFresh(w)
        PROVE  ReadInv'
    <3>1. ask' \in WaitAsk /\ ask'.op = "wait" /\ view' = view /\ failed' = failed /\ tree' = tree
      BY <2>1 DEF WaitFresh, WaitAsk, queueVars
    <3>2. ReadTypes'
      BY <3>1 DEF ReadInv, ReadTypes
    <3> QED
      BY <3>1, <3>2 DEF ReadInv, CountsGrow, BestAreKept, AskingAll, ReadsAreHonest,
                        FailuresAreReported, AnswersAreBest, Watching
  <2>2. CASE Hear
    <3>1. ask' = Idle /\ ask'.op = "none" /\ view' = view /\ failed' = failed /\ tree' = tree
      BY <2>2 DEF Hear, Idle, queueVars
    <3>2. ReadTypes'
      BY <3>1 DEF ReadInv, ReadTypes
    <3> QED
      BY <3>1, <3>2 DEF ReadInv, CountsGrow, BestAreKept, AskingAll, ReadsAreHonest,
                        FailuresAreReported, AnswersAreBest, Watching
  <2> QED
    BY <1>2, <2>1, <2>2, WatchKeepsReads, SearchKeepsReads DEF Asks
<1>3. CASE UNCHANGED readVars
  <2>1. ask' = ask /\ view' = view /\ failed' = failed /\ tree' = tree
    BY <1>3 DEF readVars
  <2> QED
    BY <2>1, CallUntouched DEF ReadInv, ReadTypes
<1> QED
  BY <1>1, <1>2, <1>3 DEF ReadNext

\* `grepai watch` that ends has warned of what failed on its way, and SearchAll
\* answers the best of everything it read, for any number of worktrees and any limit
\* (cli/daemongate.go:186-217, service/server.go:192-254).
THEOREM ReadsAlwaysHonest == ReadSpec => []ReadsAreHonest
<1>1. ReadInv => ReadsAreHonest
  BY DEF ReadInv
<1> QED
  BY <1>1, ReadInvInit, ReadStep, PTL DEF ReadSpec

(***************************************************************************)
(* Walks of a graph                                                        *)
(***************************************************************************)

Queued == [name : Name, level : Nat]
Entries(q) == {q[i] : i \in 1..Len(q)}

\* Entries come in the order of their levels, which differ by one at most.
InOrder(q) ==
    \A i, j \in 1..Len(q) : i <= j => q[i].level <= q[j].level /\ q[j].level <= q[i].level + 1

Marks == ~ IsWalk("callgraph")
Looking == entry # Nowhere
Exact(n, k) == n \in Ball(k) /\ (k > 0 => n \notin Ball(k - 1))
Front == IF Looking THEN entry.level ELSE Head(queue).level
Walking == Looking \/ queue # <<>>
LinksFrom(n) == LinksOf([name |-> n, level |-> 0])

WalkTypes ==
    /\ query \in [walk : {"explore", "callgraph", "trace"},
                  direction : {"forward", "reverse", "both"}, depth : Nat \ {0}]
    /\ query.walk # "explore" => query.direction = "both"
    /\ links \in SUBSET (Name \X Name) /\ defs \in [Name -> Nat]
    /\ queue \in Seq(Queued) /\ entry \in Queued \union {Nowhere}
    /\ todo \in SUBSET links /\ visited \in SUBSET Name /\ nodes \in SUBSET Name
    /\ edges \in SUBSET links
    /\ reached \in Nat /\ cut \in BOOLEAN /\ answered \in BOOLEAN

\* Where the walk is: an entry is no farther from the start than its level says.
InPlace ==
    /\ InOrder(queue)
    /\ \A x \in Entries(queue) :
          /\ x.name \in Ball(x.level)
          /\ Marks => x.level <= query.depth
          /\ Looking => entry.level <= x.level /\ x.level <= entry.level + 1
    /\ Looking => /\ entry.name \in Ball(entry.level) /\ entry.level <= query.depth
                  /\ Marks => entry.level < query.depth
                  /\ todo \subseteq LinksOf(entry)
    /\ ~ Looking => todo = {}
    /\ answered => ~ Walking

NothingElse ==
    /\ nodes \subseteq AllNodes
    /\ edges \subseteq AllEdges

LimitsKept ==
    /\ Marks => IsFiniteSet(nodes) /\ Cardinality(nodes) <= NodeLimit
    /\ IsWalk("explore") /\ todo # {} => Cardinality(nodes) < NodeLimit
    /\ IsWalk("trace") =>
          /\ visited = nodes
          /\ IsFiniteSet(edges) /\ Cardinality(edges) <= EdgeLimit
          /\ todo # {} \/ queue # <<>> => Cardinality(edges) < EdgeLimit
          /\ \A x \in Entries(queue) : x.name \in visited
          /\ Looking => entry.name \in visited

\* A walk that marks what it queues: what is as near as the entry looked at has been
\* found, and what was found is walked from, or is still to be, or is too far.
Walked(n) == LinksFrom(n) \subseteq edges /\ \A m \in Name : Reaches(n, m) => m \in nodes
MarkedInTime ==
    Marks /\ ~ cut =>
        /\ Start \in nodes /\ nodes \subseteq visited
        /\ \A n \in visited : IsWalk("trace") \/ Fits(n) => n \in nodes
        /\ IsWalk("trace") => \A e \in edges : e[1] \in nodes /\ e[2] \in nodes
        /\ Walking => Ball(Front) \subseteq nodes
        /\ \A x \in Entries(queue) : Exact(x.name, x.level) /\ x.name \in nodes
        /\ \A n \in nodes :
              \/ Walked(n) \/ n \notin Ball(query.depth - 1)
              \/ \E x \in Entries(queue) : x.name = n
              \/ Looking /\ n = entry.name
        /\ Looking =>
              /\ entry.name \in nodes
              /\ \A e \in LinksOf(entry) \ todo :
                    e \in edges /\ \A m \in {e[1], e[2]} : Reaches(entry.name, m) => m \in nodes

\* The depth an Explore has reached is that of the farthest node.
DepthReached ==
    IsWalk("explore") /\ ~ cut =>
        /\ nodes \subseteq Ball(reached) /\ reached <= query.depth
        /\ reached > 0 => \E n \in nodes : n \notin Ball(reached - 1)
        /\ Looking => reached <= entry.level + 1
        /\ \A x \in Entries(queue) : reached <= x.level + 1

\* The call graph marks what it looks at, and what it found may be queued twice.
Seen == visited \union {x.name : x \in Entries(queue)}
CallsLeft(n) == {e \in Called : e[1] = n \/ (n = Start /\ e[2] = n)}
Followed(e, n) ==
    /\ e \in edges
    /\ e[1] = n /\ Fits(e[2]) /\ e[2] \in Ball(query.depth) => e[2] \in Seen
    /\ n = Start /\ e[2] = n /\ Known(e[1]) => e[1] \in nodes
CallsInTime ==
    IsWalk("callgraph") =>
        /\ ~ cut /\ Start \in Seen /\ visited \subseteq Ball(query.depth)
        /\ \A n \in visited : Known(n) => n \in nodes
        /\ Walking => Ball(Front) \intersect Ball(query.depth) \subseteq Seen
        /\ \A n \in (Seen \ visited) \intersect Ball(query.depth) :
              \E x \in Entries(queue) : x.name = n /\ Exact(n, x.level)
        /\ \A n \in visited :
              \/ Looking /\ n = entry.name
              \/ \A e \in CallsLeft(n) : Followed(e, n)
        /\ Looking => /\ entry.name \in visited
                      /\ entry.name = Start <=> entry.level = 0
                      /\ \A e \in LinksOf(entry) \ todo : Followed(e, entry.name)

WalkInv ==
    /\ WalkTypes /\ InPlace /\ NothingElse /\ LimitsKept
    /\ MarkedInTime /\ DepthReached /\ CallsInTime

----------------------------------------------------------------------------
\* What is at most k links away: a ball holds the smaller ones, and what is reached
\* from one is in the next.
LEMMA BallStart == Ball(0) = {Start}
<1>1. ASSUME NEW path \in Paths(0)
      PROVE  path[0] = Start
  BY DEF Paths
<1>2. [i \in 0..0 |-> Start] \in Paths(0)
  BY WalkAssumption DEF WalkAssumption, Paths
<1>3. Start \in Ball(0)
  BY <1>2 DEF Ball
<1> QED
  BY <1>1, <1>3 DEF Ball

LEMMA BallInName == ASSUME NEW k \in Nat PROVE Ball(k) \subseteq Name
  BY DEF Ball, Paths

LEMMA BallGrows ==
    ASSUME NEW j \in Nat, NEW k \in Nat, j <= k
    PROVE  Ball(j) \subseteq Ball(k)
<1> SUFFICES ASSUME NEW path \in Paths(j)
             PROVE  path[j] \in Ball(k)
  BY DEF Ball
<1> DEFINE stays == [i \in 0..k |-> IF i <= j THEN path[i] ELSE path[j]]
<1>1. path \in [0..j -> Name] /\ path[0] = Start
      /\ \A i \in 1..j : path[i] = path[i - 1] \/ Reaches(path[i - 1], path[i])
  BY DEF Paths
<1>2. stays \in [0..k -> Name] /\ stays[0] = Start
  BY <1>1
<1>3. ASSUME NEW i \in 1..k
      PROVE  stays[i] = stays[i - 1] \/ Reaches(stays[i - 1], stays[i])
  <2>1. CASE i <= j
    <3>1. stays[i] = path[i] /\ stays[i - 1] = path[i - 1]
      BY <2>1
    <3> QED
      BY <1>1, <2>1, <3>1
  <2>2. CASE i > j
    BY <2>2
  <2> QED
    BY <2>1, <2>2
<1>4. stays \in Paths(k) /\ stays[k] = path[j]
  BY <1>2, <1>3 DEF Paths
<1> QED
  BY <1>4 DEF Ball

LEMMA BallReaches ==
    ASSUME NEW k \in Nat, NEW m \in Ball(k), NEW n \in Name, Reaches(m, n)
    PROVE  n \in Ball(k + 1)
<1>1. PICK path \in Paths(k) : path[k] = m
  BY DEF Ball
<1> DEFINE goes == [i \in 0..k + 1 |-> IF i <= k THEN path[i] ELSE n]
<1>2. path \in [0..k -> Name] /\ path[0] = Start
      /\ \A i \in 1..k : path[i] = path[i - 1] \/ Reaches(path[i - 1], path[i])
  BY DEF Paths
<1>3. goes \in [0..k + 1 -> Name] /\ goes[0] = Start
  BY <1>2
<1>4. ASSUME NEW i \in 1..k + 1
      PROVE  goes[i] = goes[i - 1] \/ Reaches(goes[i - 1], goes[i])
  <2>1. CASE i <= k
    <3>1. goes[i] = path[i] /\ goes[i - 1] = path[i - 1]
      BY <2>1
    <3> QED
      BY <1>2, <2>1, <3>1
  <2>2. CASE i = k + 1
    <3>1. goes[i] = n /\ goes[i - 1] = m
      BY <1>1, <2>2
    <3> QED
      BY <3>1
  <2> QED
    BY <2>1, <2>2
<1>5. goes \in Paths(k + 1) /\ goes[k + 1] = n
  BY <1>3, <1>4 DEF Paths
<1> QED
  BY <1>5 DEF Ball

LEMMA BallReached ==
    ASSUME NEW k \in Nat, NEW n \in Ball(k + 1)
    PROVE  n \in Ball(k) \/ \E m \in Ball(k) : Reaches(m, n)
<1>1. PICK path \in Paths(k + 1) : path[k + 1] = n
  BY DEF Ball
<1> DEFINE before == [i \in 0..k |-> path[i]]
<1>2. path \in [0..k + 1 -> Name] /\ path[0] = Start
      /\ \A i \in 1..k + 1 : path[i] = path[i - 1] \/ Reaches(path[i - 1], path[i])
  BY DEF Paths
<1>3. before \in [0..k -> Name] /\ before[0] = Start /\ before[k] = path[k]
  BY <1>2
<1>4. ASSUME NEW i \in 1..k
      PROVE  before[i] = before[i - 1] \/ Reaches(before[i - 1], before[i])
  <2>1. before[i] = path[i] /\ before[i - 1] = path[i - 1]
    OBVIOUS
  <2> QED
    BY <1>2, <2>1
<1>5. path[k] \in Ball(k)
  BY <1>3, <1>4 DEF Paths, Ball
<1>6. path[k + 1] = path[k + 1 - 1] \/ Reaches(path[k + 1 - 1], path[k + 1])
  BY <1>2
<1>7. k + 1 - 1 = k
  OBVIOUS
<1> QED
  BY <1>1, <1>5, <1>6, <1>7

\* A walk keeps its query, and with it what is near.
LEMMA BallKept ==
    ASSUME UNCHANGED queryVars
    PROVE  /\ \A k : Ball(k)' = Ball(k)
           /\ \A m, n : Reaches(m, n)' <=> Reaches(m, n)
           /\ \A x : LinksOf(x)' = LinksOf(x)
           /\ \A n : (Fits(n)' <=> Fits(n)) /\ (Known(n)' <=> Known(n))
           /\ AllNodes' = AllNodes /\ AllEdges' = AllEdges
           /\ Called' = Called
<1>1. query' = query /\ links' = links /\ defs' = defs
  BY DEF queryVars
<1>2. \A m, n : Reaches(m, n)' <=> Reaches(m, n)
  BY <1>1 DEF Reaches, IsWalk, Called, Fits
<1>3. \A k : Ball(k)' = Ball(k)
  BY <1>1 DEF Ball, Paths, Reaches, IsWalk, Called, Fits
<1>4. \A x : LinksOf(x)' = LinksOf(x)
  BY <1>1 DEF LinksOf, IsWalk, Called, Outgoing, Incoming
<1>5. \A n : (Fits(n)' <=> Fits(n)) /\ (Known(n)' <=> Known(n))
  BY <1>1 DEF Fits, Known
<1>6. Called' = Called
  BY <1>1 DEF Called
<1>7. AllNodes' = AllNodes
  BY <1>1 DEF AllNodes, IsWalk, Ball, Paths, Reaches, Called, Fits, Known
<1>8. AllEdges' = AllEdges
  BY <1>1 DEF AllEdges, LinksOf, Outgoing, Incoming, IsWalk, Ball, Paths, Reaches, Called, Fits
<1> QED
  BY <1>2, <1>3, <1>4, <1>5, <1>6, <1>7, <1>8

----------------------------------------------------------------------------
\* The queue.
LEMMA DropHead ==
    ASSUME NEW q \in Seq(Queued), q # <<>>, InOrder(q)
    PROVE  /\ Tail(q) \in Seq(Queued) /\ Head(q) \in Queued /\ InOrder(Tail(q))
           /\ Entries(q) = {Head(q)} \union Entries(Tail(q))
           /\ \A x \in Entries(Tail(q)) : Head(q).level <= x.level /\ x.level <= Head(q).level + 1
<1>1. /\ Tail(q) \in Seq(Queued) /\ Head(q) = q[1] /\ Len(q) \in Nat \ {0}
      /\ Len(Tail(q)) = Len(q) - 1 /\ \A i \in 1..Len(q) - 1 : Tail(q)[i] = q[i + 1]
  OBVIOUS
<1>2. InOrder(Tail(q))
  BY <1>1 DEF InOrder
<1>3. Entries(q) = {Head(q)} \union Entries(Tail(q))
  <2>1. ASSUME NEW i \in 1..Len(q), i # 1
        PROVE  q[i] \in Entries(Tail(q))
    <3>1. i - 1 \in 1..Len(Tail(q)) /\ q[i] = Tail(q)[i - 1]
      BY <1>1, <2>1
    <3> QED
      BY <3>1 DEF Entries
  <2>2. ASSUME NEW i \in 1..Len(Tail(q))
        PROVE  Tail(q)[i] \in Entries(q)
    <3>1. i + 1 \in 1..Len(q) /\ Tail(q)[i] = q[i + 1]
      BY <1>1, <2>2
    <3> QED
      BY <3>1 DEF Entries
  <2>3. Head(q) \in Entries(q)
    BY <1>1 DEF Entries
  <2>4. ASSUME NEW x \in Entries(q)
        PROVE  x = Head(q) \/ x \in Entries(Tail(q))
    BY <1>1, <2>1 DEF Entries
  <2>5. \A x \in Entries(Tail(q)) : x \in Entries(q)
    BY <2>2 DEF Entries
  <2> QED
    BY <2>3, <2>4, <2>5
<1>4. ASSUME NEW x \in Entries(Tail(q))
      PROVE  Head(q).level <= x.level /\ x.level <= Head(q).level + 1
  <2>1. PICK i \in 1..Len(q) - 1 : x = q[i + 1]
    BY <1>1 DEF Entries
  <2> QED
    BY <1>1, <2>1 DEF InOrder
<1> QED
  BY <1>1, <1>2, <1>3, <1>4

LEMMA AddAtEnd ==
    ASSUME NEW q \in Seq(Queued), InOrder(q), NEW n \in Name, NEW k \in Nat,
           \A x \in Entries(q) : k <= x.level /\ x.level <= k + 1
    PROVE  LET new == [name |-> n, level |-> k + 1]
               longer == Enqueue(q, <<new>>)
           IN  /\ longer \in Seq(Queued) /\ InOrder(longer) /\ longer # <<>>
               /\ Entries(longer) = Entries(q) \union {new}
<1> DEFINE new == [name |-> n, level |-> k + 1]
           longer == Enqueue(q, <<new>>)
<1>1. new \in Queued /\ new.level = k + 1
  BY DEF Queued
<1> HIDE DEF new
<1>2. /\ longer \in Seq(Queued) /\ Len(longer) = Len(q) + 1 /\ Len(q) \in Nat
      /\ longer[Len(q) + 1] = new /\ \A i \in 1..Len(q) : longer[i] = q[i]
  BY <1>1 DEF Enqueue
<1> HIDE DEF longer
<1>3. \A i \in 1..Len(q) : q[i] \in Entries(q) /\ q[i].level \in Nat
  <2>1. \A i \in 1..Len(q) : q[i] \in Queued /\ q[i] \in Entries(q)
    BY DEF Entries
  <2> QED
    BY <2>1 DEF Queued
<1>4. InOrder(longer)
  <2> SUFFICES ASSUME NEW i \in 1..Len(longer), NEW j \in 1..Len(longer), i <= j
               PROVE  /\ longer[i].level <= longer[j].level
                      /\ longer[j].level <= longer[i].level + 1
    BY DEF InOrder
  <2>1. CASE j <= Len(q)
    <3>1. i \in 1..Len(q) /\ j \in 1..Len(q)
      BY <1>2, <2>1
    <3> QED
      BY <1>2, <3>1 DEF InOrder
  <2>2. CASE j = Len(q) + 1 /\ i <= Len(q)
    <3>1. i \in 1..Len(q) /\ longer[i] = q[i] /\ longer[j].level = k + 1
      BY <1>1, <1>2, <2>2
    <3>2. q[i].level \in Nat /\ k <= q[i].level /\ q[i].level <= k + 1
      BY <1>3, <3>1
    <3> QED
      BY <3>1, <3>2
  <2>3. CASE i = Len(q) + 1 /\ j = Len(q) + 1
    BY <1>1, <1>2, <2>3
  <2> QED
    BY <1>2, <2>1, <2>2, <2>3
<1>5. Entries(longer) = Entries(q) \union {new}
  <2>1. ASSUME NEW i \in 1..Len(longer)
        PROVE  longer[i] \in Entries(q) \union {new}
    <3>1. CASE i \in 1..Len(q)
      BY <1>2, <1>3, <3>1
    <3>2. CASE i = Len(q) + 1
      BY <1>2, <3>2
    <3> QED
      BY <1>2, <3>1, <3>2
  <2>2. \A i \in 1..Len(q) : q[i] \in Entries(longer)
    <3> TAKE i \in 1..Len(q)
    <3>1. i \in 1..Len(longer) /\ longer[i] = q[i]
      BY <1>2
    <3> QED
      BY <3>1 DEF Entries
  <2>3. new \in Entries(longer)
    <3>1. Len(q) + 1 \in 1..Len(longer)
      BY <1>2
    <3> QED
      BY <1>2, <3>1 DEF Entries
  <2>4. Entries(longer) \subseteq Entries(q) \union {new}
    BY <2>1 DEF Entries
  <2>5. Entries(q) \subseteq Entries(longer)
    BY <2>2 DEF Entries
  <2> QED
    BY <2>3, <2>4, <2>5
<1>6. longer # <<>>
  BY <1>2
<1> QED
  BY <1>2, <1>4, <1>5, <1>6 DEF longer, new

----------------------------------------------------------------------------
\* Links and what is reached over them.
LEMMA LinkEnds ==
    ASSUME WalkTypes, NEW x \in Queued \union {Nowhere}, NEW e \in LinksOf(x)
    PROVE  /\ e \in links /\ e[1] \in Name /\ e[2] \in Name /\ e = <<e[1], e[2]>>
           /\ e[1] = x.name \/ e[2] = x.name
  BY DEF WalkTypes, LinksOf, IsWalk, Called, Outgoing, Incoming

LEMMA LinksAnywhere ==
    ASSUME Marks, NEW x
    PROVE  LinksOf(x) = LinksFrom(x.name)
  BY DEF Marks, LinksOf, LinksFrom, Outgoing, Incoming

LEMMA LinkReaches ==
    ASSUME WalkTypes, Marks, NEW x \in Queued, NEW e \in LinksOf(x),
           NEW n \in {e[1], e[2]}, n # x.name, IsWalk("trace") \/ Fits(n)
    PROVE  Reaches(x.name, n)
<1>1. e \in links /\ e[1] \in Name /\ e[2] \in Name /\ e = <<e[1], e[2]>>
      /\ (e[1] = x.name \/ e[2] = x.name)
  BY LinkEnds
<1>2. CASE IsWalk("trace")
  BY <1>1, <1>2 DEF Reaches, IsWalk
<1>3. CASE IsWalk("explore")
  <2>1. query.direction = "forward" => e[1] = x.name
    BY <1>3 DEF LinksOf, IsWalk, Outgoing
  <2>2. query.direction = "reverse" => e[2] = x.name
    BY <1>3 DEF LinksOf, IsWalk, Incoming
  <2>3. Fits(n)
    BY <1>3 DEF IsWalk
  <2>4. CASE e[1] = x.name /\ e[2] = n
    BY <1>1, <1>3, <2>2, <2>3, <2>4 DEF Reaches, IsWalk
  <2>5. CASE e[2] = x.name /\ e[1] = n
    BY <1>1, <1>3, <2>1, <2>3, <2>5 DEF Reaches, IsWalk
  <2> QED
    BY <1>1, <2>4, <2>5
<1> QED
  BY <1>2, <1>3 DEF Marks, IsWalk, WalkTypes

LEMMA ReachesLink ==
    ASSUME WalkTypes, Marks, NEW m, NEW n, Reaches(m, n)
    PROVE  /\ \E e \in LinksFrom(m) : n \in {e[1], e[2]}
           /\ IsWalk("trace") \/ Fits(n)
<1>1. CASE IsWalk("trace")
  <2>1. <<m, n>> \in links \/ <<n, m>> \in links
    BY <1>1 DEF Reaches, IsWalk
  <2>2. LinksFrom(m) = Outgoing(m) \union Incoming(m)
    BY <1>1 DEF LinksFrom, LinksOf, IsWalk, WalkTypes
  <2> QED
    BY <1>1, <2>1, <2>2 DEF Outgoing, Incoming
<1>2. CASE IsWalk("explore")
  <2>1. Fits(n)
    BY <1>2 DEF Reaches, IsWalk
  <2>2. CASE query.direction # "reverse" /\ <<m, n>> \in links
    <3>1. <<m, n>> \in LinksFrom(m)
      BY <1>2, <2>2 DEF LinksFrom, LinksOf, IsWalk, Outgoing, Incoming
    <3> QED
      BY <2>1, <3>1
  <2>3. CASE query.direction # "forward" /\ <<n, m>> \in links
    <3>1. <<n, m>> \in LinksFrom(m)
      BY <1>2, <2>3 DEF LinksFrom, LinksOf, IsWalk, Outgoing, Incoming
    <3> QED
      BY <2>1, <3>1
  <2> QED
    BY <1>2, <2>2, <2>3 DEF Reaches, IsWalk
<1> QED
  BY <1>1, <1>2 DEF Marks, IsWalk, WalkTypes

----------------------------------------------------------------------------
\* Levels.  Who is queued farther than k away is not within k.
LEMMA ExactIsFar ==
    ASSUME NEW n, NEW j \in Nat, NEW k \in Nat, Exact(n, j), n \in Ball(k)
    PROVE  j <= k
<1> SUFFICES ASSUME k < j PROVE FALSE
  OBVIOUS
<1>1. j - 1 \in Nat /\ k <= j - 1 /\ j > 0
  OBVIOUS
<1>2. Ball(k) \subseteq Ball(j - 1)
  BY <1>1, BallGrows
<1> QED
  BY <1>1, <1>2 DEF Exact

\* When all that is within k of the start is found and none of it is left to be looked
\* at, all that is within k + 1 is found.
LEMMA NextLevel ==
    ASSUME WalkTypes, Marks, NEW k \in Nat, k < query.depth, Ball(k) \subseteq nodes,
           \A n \in nodes : \/ Walked(n) \/ n \notin Ball(query.depth - 1)
                            \/ \E x \in Entries(queue) : x.name = n,
           \A x \in Entries(queue) : x.level \in Nat /\ Exact(x.name, x.level) /\ k < x.level
    PROVE  Ball(k + 1) \subseteq nodes
<1> SUFFICES ASSUME NEW n \in Ball(k + 1), n \notin Ball(k)
             PROVE  n \in nodes
  OBVIOUS
<1>1. PICK m \in Ball(k) : Reaches(m, n)
  BY BallReached
<1>2. m \in nodes /\ m \in Ball(query.depth - 1)
  <2>1. query.depth \in Nat \ {0}
    BY DEF WalkTypes
  <2>2. query.depth - 1 \in Nat /\ k <= query.depth - 1
    BY <2>1
  <2> QED
    BY <2>2, BallGrows
<1>3. ~ \E x \in Entries(queue) : x.name = m
  BY ExactIsFar
<1>4. Walked(m)
  BY <1>2, <1>3
<1>5. n \in Name
  BY BallInName
<1> QED
  BY <1>1, <1>4, <1>5 DEF Walked

LEMMA NextCalls ==
    ASSUME WalkTypes, IsWalk("callgraph"), NEW k \in Nat, NEW seen, NEW waits,
           Ball(k) \intersect Ball(query.depth) \subseteq seen, k <= query.depth,
           \A n \in (seen \ visited) \intersect Ball(query.depth) :
               \E x \in waits : x.name = n /\ Exact(n, x.level),
           \A x \in waits : x.level \in Nat /\ k < x.level,
           \A n \in visited, e \in Called :
               e[1] = n /\ Fits(e[2]) /\ e[2] \in Ball(query.depth) => e[2] \in seen
    PROVE  Ball(k + 1) \intersect Ball(query.depth) \subseteq seen
<1> SUFFICES ASSUME NEW n \in Ball(k + 1), n \in Ball(query.depth), n \notin Ball(k)
             PROVE  n \in seen
  OBVIOUS
<1>1. PICK m \in Ball(k) : Reaches(m, n)
  BY BallReached
<1>2. query.depth \in Nat
  BY DEF WalkTypes
<1>3. m \in seen /\ m \in Ball(query.depth)
  BY <1>2, BallGrows
<1>4. m \in visited
  BY <1>3, ExactIsFar
<1>5. <<m, n>> \in Called /\ Fits(n)
  BY <1>1 DEF Reaches, IsWalk
<1> QED
  BY <1>4, <1>5

\* A queue that is not empty has entries of its kind.
LEMMA QueuedAre ==
    ASSUME WalkTypes
    PROVE  /\ \A x \in Entries(queue) : x \in Queued /\ x.name \in Name /\ x.level \in Nat
           /\ Looking => entry \in Queued /\ entry.name \in Name /\ entry.level \in Nat
           /\ queue # <<>> => Head(queue) \in Entries(queue)
           /\ queue = <<>> => Entries(queue) = {}
<1>1. queue \in Seq(Queued)
  BY DEF WalkTypes
<1>2. \A i \in 1..Len(queue) : queue[i] \in Queued
  BY <1>1
<1>3. \A x \in Queued : x.name \in Name /\ x.level \in Nat
  BY DEF Queued
<1>4. \A x \in Entries(queue) : x \in Queued
  BY <1>2 DEF Entries
<1>5. Looking => entry \in Queued
  BY DEF WalkTypes, Looking
<1>6. ASSUME queue # <<>>
      PROVE  Head(queue) \in Entries(queue)
  <2>1. 1 \in 1..Len(queue) /\ Head(queue) = queue[1]
    BY <1>1, <1>6
  <2> QED
    BY <2>1 DEF Entries
<1>7. queue = <<>> => Entries(queue) = {}
  BY DEF Entries
<1> QED
  BY <1>3, <1>4, <1>5, <1>6, <1>7

----------------------------------------------------------------------------
LEMMA WalkInvInit == WalkInit => WalkInv
<1> SUFFICES ASSUME WalkInit
             PROVE  WalkInv
  OBVIOUS
<1> DEFINE first == [name |-> Start, level |-> 0]
<1>0. Start \in Name /\ first \in Queued /\ queue = <<first>>
  BY WalkAssumption DEF WalkAssumption, WalkInit, Queued
<1>1. WalkTypes
  <2>1. /\ query \in [walk : {"explore", "callgraph", "trace"},
                      direction : {"forward", "reverse", "both"}, depth : Nat \ {0}]
        /\ query.walk # "explore" => query.direction = "both"
    BY WalkAssumption DEF WalkAssumption, WalkInit
  <2>2. links \in SUBSET (Name \X Name) /\ defs \in [Name -> Nat]
    BY WalkAssumption DEF WalkAssumption, WalkInit
  <2>3. visited \in SUBSET Name /\ nodes \in SUBSET Name
    BY <1>0 DEF WalkInit
  <2>4. queue \in Seq(Queued)
    BY <1>0
  <2>5. /\ entry = Nowhere /\ todo = {} /\ edges = {} /\ reached = 0
        /\ cut = FALSE /\ answered = FALSE
    BY DEF WalkInit
  <2> HIDE DEF first
  <2> QED
    BY <2>1, <2>2, <2>3, <2>4, <2>5 DEF WalkTypes
<1>2. Entries(queue) = {first}
  <2>1. Len(queue) = 1 /\ queue[1] = first
    BY <1>0
  <2> QED
    BY <2>1 DEF Entries
<1>3. InOrder(queue)
  <2>1. Len(queue) = 1 /\ queue[1].level = 0
    BY <1>0
  <2> QED
    BY <2>1 DEF InOrder
<1>4. ~ Looking /\ todo = {} /\ edges = {} /\ ~ cut /\ ~ answered /\ reached = 0
  BY DEF WalkInit, Looking
<1>5. Start \in Ball(0) /\ query.depth \in Nat \ {0}
  BY <1>1, BallStart DEF WalkTypes
<1>6. InPlace
  BY <1>2, <1>3, <1>4, <1>5 DEF InPlace
<1>7. Ball(0) \subseteq Ball(query.depth)
  BY <1>5, BallGrows
<1>8. NothingElse
  BY <1>4, <1>5, <1>7 DEF NothingElse, AllNodes, WalkInit
<1>9. LimitsKept
  <2>1. IsFiniteSet({Start}) /\ Cardinality({Start}) = 1
    BY FS_Singleton
  <2>2. IsFiniteSet({}) /\ Cardinality({}) = 0
    BY FS_EmptySet
  <2> QED
    BY <1>2, <1>4, <2>1, <2>2, WalkAssumption
       DEF LimitsKept, WalkInit, WalkAssumption, Marks, IsWalk
<1>10. Head(queue) = first /\ first.level = 0 /\ first.name = Start
  BY <1>0
<1>11. MarkedInTime
  BY <1>2, <1>4, <1>5, <1>10, BallStart DEF MarkedInTime, Marks, WalkInit, Front, Exact
<1>12. DepthReached
  BY <1>2, <1>4, <1>5, <1>10 DEF DepthReached, WalkInit, IsWalk
<1>13. CallsInTime
  <2> SUFFICES ASSUME IsWalk("callgraph")
               PROVE  CallsInTime
    BY DEF CallsInTime
  <2>1. visited = {} /\ Seen = {Start}
    BY <1>2, <1>10 DEF Seen, WalkInit
  <2> QED
    BY <1>2, <1>4, <1>5, <1>10, <2>1, BallStart DEF CallsInTime, Front, Exact
<1> QED
  BY <1>1, <1>6, <1>8, <1>9, <1>11, <1>12, <1>13 DEF WalkInv

----------------------------------------------------------------------------
\* The head is dropped.
LEMMA SkipEntryKeeps == WalkInv /\ SkipEntry => WalkInv'
<1> SUFFICES ASSUME WalkInv, SkipEntry
             PROVE  WalkInv'
  OBVIOUS
<1> DEFINE head == Head(queue)
           rest == Entries(Tail(queue))
<1>1. /\ WalkTypes /\ InPlace /\ NothingElse /\ LimitsKept
      /\ MarkedInTime /\ DepthReached /\ CallsInTime
  BY DEF WalkInv
<1>2. /\ UNCHANGED queryVars /\ query' = query /\ links' = links /\ defs' = defs
      /\ entry' = entry /\ todo' = todo /\ visited' = visited /\ nodes' = nodes
      /\ edges' = edges /\ reached' = reached /\ cut' = cut /\ answered' = answered
      /\ queue' = Tail(queue) /\ queue # <<>> /\ ~ Looking /\ Passed(head)
  BY DEF SkipEntry, queryVars, Looking
<1>3. /\ Tail(queue) \in Seq(Queued) /\ head \in Queued /\ InOrder(Tail(queue))
      /\ Entries(queue) = {head} \union rest
      /\ \A x \in rest : head.level <= x.level /\ x.level <= head.level + 1
  BY <1>1, <1>2, DropHead DEF WalkTypes, InPlace
<1>4. /\ query.depth \in Nat \ {0} /\ head.level \in Nat /\ head.name \in Name
      /\ \A x \in rest : x \in Queued /\ x.level \in Nat /\ x.name \in Name
      /\ Entries(queue)' = rest /\ ~ Looking'
  BY <1>1, <1>2, <1>3, QueuedAre DEF WalkTypes, Looking, Entries
<1>5. Tail(queue) # <<>> => Head(Tail(queue)) \in rest
  <2> SUFFICES ASSUME Tail(queue) # <<>>
               PROVE  Head(Tail(queue)) \in rest
    OBVIOUS
  <2>1. 1 \in 1..Len(Tail(queue)) /\ Head(Tail(queue)) = Tail(queue)[1]
    BY <1>3
  <2> QED
    BY <2>1 DEF Entries
<1> HIDE DEF head, rest
<1>6. WalkTypes'
  BY <1>1, <1>2, <1>3 DEF WalkTypes, Nowhere
<1>7. InPlace'
  BY <1>1, <1>2, <1>3, <1>4, BallKept DEF InPlace, Marks, IsWalk, Walking, Looking
<1>8. NothingElse'
  BY <1>1, <1>2, BallKept DEF NothingElse
<1>9. LimitsKept'
  BY <1>1, <1>2, <1>3, <1>4 DEF LimitsKept, Marks, IsWalk, InPlace
<1>10. MarkedInTime'
  <2> SUFFICES ASSUME Marks, ~ cut
               PROVE  MarkedInTime'
    BY <1>2 DEF MarkedInTime, Marks, IsWalk
  <2>1. head.level = query.depth
    <3>1. head.level <= query.depth
      BY <1>1, <1>3 DEF InPlace
    <3>2. head.level >= query.depth
      BY <1>2 DEF Passed, Marks
    <3> QED
      BY <1>4, <3>1, <3>2
  <2>2. /\ Start \in nodes /\ nodes \subseteq visited
        /\ \A n \in visited : IsWalk("trace") \/ Fits(n) => n \in nodes
        /\ IsWalk("trace") => \A e \in edges : e[1] \in nodes /\ e[2] \in nodes
        /\ Ball(head.level) \subseteq nodes
        /\ \A x \in Entries(queue) : Exact(x.name, x.level) /\ x.name \in nodes
        /\ \A n \in nodes :
              \/ Walked(n) \/ n \notin Ball(query.depth - 1)
              \/ \E x \in Entries(queue) : x.name = n
    BY <1>1, <1>2 DEF MarkedInTime, Walking, Front, head
  <2>3. head.name \notin Ball(query.depth - 1)
    BY <1>3, <1>4, <2>1, <2>2 DEF Exact
  <2>4. \A n \in nodes :
              \/ Walked(n) \/ n \notin Ball(query.depth - 1)
              \/ \E x \in rest : x.name = n
    BY <1>3, <2>2, <2>3
  <2>5. Walking' => Ball(Front)' \subseteq nodes
    <3> SUFFICES ASSUME Tail(queue) # <<>>
                 PROVE  Ball(Front)' \subseteq nodes
      BY <1>2, <1>4 DEF Walking
    <3>1. Front' = Head(Tail(queue)).level
      BY <1>2, <1>4 DEF Front
    <3>2. Head(Tail(queue)).level = query.depth
      <4>1. \A x \in rest : x.level <= query.depth
        BY <1>1, <1>3, <2>1 DEF InPlace
      <4> QED
        BY <1>3, <1>4, <1>5, <2>1, <4>1
    <3> QED
      BY <1>2, <2>1, <2>2, <3>1, <3>2, BallKept
  <2>6. \A n : Walked(n)' <=> Walked(n)
    BY <1>2, BallKept DEF Walked, LinksFrom
  <2>7. \A n, k : Exact(n, k)' <=> Exact(n, k)
    BY <1>2, BallKept DEF Exact
  <2> QED
    BY <1>2, <1>3, <1>4, <2>2, <2>4, <2>5, <2>6, <2>7, BallKept DEF MarkedInTime, IsWalk
<1>11. DepthReached'
  BY <1>1, <1>2, <1>3, <1>4, BallKept DEF DepthReached, IsWalk
<1>12. CallsInTime'
  <2> SUFFICES ASSUME IsWalk("callgraph")
               PROVE  CallsInTime'
    BY <1>2 DEF CallsInTime, IsWalk
  <2> DEFINE seen == visited \union {x.name : x \in rest}
  <2>1. /\ ~ cut /\ Start \in Seen /\ visited \subseteq Ball(query.depth)
        /\ \A n \in visited : Known(n) => n \in nodes
        /\ Ball(head.level) \intersect Ball(query.depth) \subseteq Seen
        /\ \A n \in (Seen \ visited) \intersect Ball(query.depth) :
              \E x \in Entries(queue) : x.name = n /\ Exact(n, x.level)
        /\ \A n \in visited : \A e \in CallsLeft(n) : Followed(e, n)
    BY <1>1, <1>2 DEF CallsInTime, Walking, Front, head
  <2>2. head.name \in visited \/ head.level > query.depth
    BY <1>2 DEF Passed
  <2>3. Seen' = seen /\ seen \subseteq Seen
    BY <1>2, <1>3, <1>4 DEF Seen
  <2>4. ASSUME NEW n \in Seen \intersect Ball(query.depth), n \notin visited
        PROVE  \E x \in rest : x.name = n /\ Exact(n, x.level)
    <3>1. PICK x \in Entries(queue) : x.name = n /\ Exact(n, x.level)
      BY <2>1, <2>4
    <3>2. x.level <= query.depth
      BY <1>3, <1>4, <3>1, ExactIsFar
    <3>3. x # head
      BY <1>4, <2>2, <2>4, <3>1, <3>2
    <3> QED
      BY <1>3, <3>1, <3>3
  <2>5. Seen \intersect Ball(query.depth) \subseteq seen
    BY <2>4
  <2>6. \A n \in visited, e \in Called :
            e[1] = n /\ Fits(e[2]) /\ e[2] \in Ball(query.depth) => e[2] \in seen
    BY <2>1, <2>5 DEF CallsLeft, Followed
  <2>7. Start \in Ball(query.depth)
    BY <1>4, BallStart, BallGrows
  <2>8. Walking' => Ball(Front)' \intersect Ball(query.depth) \subseteq seen
    <3> SUFFICES ASSUME Tail(queue) # <<>>
                 PROVE  Ball(Front)' \intersect Ball(query.depth) \subseteq seen
      BY <1>2, <1>4 DEF Walking
    <3> DEFINE ahead == Head(Tail(queue))
    <3>1. Ball(Front)' = Ball(ahead.level)
      BY <1>2, <1>4, BallKept DEF Front
    <3>2. ahead.level = head.level \/ ahead.level = head.level + 1
      BY <1>3, <1>4, <1>5
    <3>3. CASE ahead.level = head.level
      BY <2>1, <2>5, <3>1, <3>3
    <3>4. CASE ahead.level = head.level + 1
      <4>1. CASE head.level > query.depth
        <5>1. Ball(query.depth) \subseteq Ball(head.level)
          BY <1>4, <4>1, BallGrows
        <5> QED
          BY <2>1, <2>5, <3>1, <5>1
      <4>2. CASE head.level <= query.depth
        <5>1. \A x \in rest : x.level \in Nat /\ head.level < x.level
          <6>1. InOrder(Tail(queue))
            BY <1>3
          <6>2. \A x \in rest : ahead.level <= x.level
            <7>1. Tail(queue) \in Seq(Queued) /\ ahead = Tail(queue)[1] /\ 1 \in 1..Len(Tail(queue))
              BY <1>3
            <7>2. \A i \in 1..Len(Tail(queue)) : 1 <= i
              OBVIOUS
            <7> QED
              BY <6>1, <7>1, <7>2 DEF InOrder, Entries, rest
          <6> QED
            BY <1>4, <3>4, <6>2
        <5>2. Ball(head.level) \intersect Ball(query.depth) \subseteq seen
          BY <2>1, <2>5
        <5>3. \A n \in (seen \ visited) \intersect Ball(query.depth) :
                  \E x \in rest : x.name = n /\ Exact(n, x.level)
          BY <2>3, <2>4
        <5> HIDE DEF seen, ahead
        <5>4. Ball(head.level + 1) \intersect Ball(query.depth) \subseteq seen
          BY <1>1, <1>4, <2>6, <4>2, <5>1, <5>2, <5>3, NextCalls
        <5> QED
          BY <3>1, <3>4, <5>4
      <4> QED
        BY <1>4, <4>1, <4>2
    <3> QED
      BY <3>2, <3>3, <3>4
  <2>9. ASSUME NEW n \in visited, NEW e \in CallsLeft(n)
        PROVE  Followed(e, n)'
    <3>1. Followed(e, n)
      BY <2>1, <2>9
    <3> HIDE DEF seen
    <3> QED
      BY <1>2, <2>3, <2>5, <3>1, BallKept DEF Followed
  <2>10. \A n : CallsLeft(n)' = CallsLeft(n)
    BY <1>2, BallKept DEF CallsLeft
  <2>11. \A n, k : Exact(n, k)' <=> Exact(n, k)
    BY <1>2, BallKept DEF Exact
  <2> HIDE DEF seen
  <2>12. \A n \in (seen \ visited) \intersect Ball(query.depth) :
                  \E x \in rest : x.name = n /\ Exact(n, x.level)
    BY <2>3, <2>4
  <2>13. Start \in seen
    BY <2>1, <2>5, <2>7
  <2> QED
    BY <1>2, <1>4, <2>1, <2>3, <2>8, <2>9, <2>10, <2>11, <2>12, <2>13, BallKept DEF CallsInTime
<1> QED
  BY <1>6, <1>7, <1>8, <1>9, <1>10, <1>11, <1>12 DEF WalkInv

\* A limit ends the walk.
LEMMA StopKeeps == WalkInv /\ StopFull => WalkInv'
<1> SUFFICES ASSUME WalkInv, StopFull
             PROVE  WalkInv'
  OBVIOUS
<1>1. /\ WalkTypes /\ InPlace /\ NothingElse /\ LimitsKept
  BY DEF WalkInv
<1>2. /\ UNCHANGED queryVars /\ query' = query /\ links' = links /\ defs' = defs
      /\ entry' = entry /\ todo' = todo /\ visited' = visited /\ nodes' = nodes
      /\ edges' = edges /\ reached' = reached /\ cut' = TRUE /\ answered' = answered
      /\ queue' = <<>> /\ queue # <<>> /\ ~ Looking /\ Marks
  BY DEF StopFull, queryVars, Looking, Full, Marks
<1>3. Entries(queue)' = {} /\ InOrder(queue)' /\ queue' \in Seq(Queued)
  BY <1>2 DEF Entries, InOrder
<1>4. WalkTypes'
  BY <1>1, <1>2, <1>3 DEF WalkTypes, Nowhere
<1>5. InPlace'
  BY <1>1, <1>2, <1>3 DEF InPlace, Looking, Walking
<1>6. NothingElse'
  BY <1>1, <1>2, BallKept DEF NothingElse
<1>7. LimitsKept'
  BY <1>1, <1>2, <1>3 DEF LimitsKept, Marks, IsWalk, InPlace, Looking
<1>8. MarkedInTime' /\ DepthReached' /\ CallsInTime'
  BY <1>2 DEF MarkedInTime, DepthReached, CallsInTime, Marks, IsWalk
<1> QED
  BY <1>4, <1>5, <1>6, <1>7, <1>8 DEF WalkInv

\* The head is looked at.
LEMMA LookKeeps == WalkInv /\ Look => WalkInv'
<1> SUFFICES ASSUME WalkInv, Look
             PROVE  WalkInv'
  OBVIOUS
<1> DEFINE head == Head(queue)
           rest == Entries(Tail(queue))
<1>1. /\ WalkTypes /\ InPlace /\ NothingElse /\ LimitsKept
      /\ MarkedInTime /\ DepthReached /\ CallsInTime
  BY DEF WalkInv
<1>2. /\ UNCHANGED queryVars /\ query' = query /\ links' = links /\ defs' = defs
      /\ entry' = head /\ todo' = LinksOf(head)
      /\ edges' = edges /\ reached' = reached /\ cut' = cut /\ answered' = answered
      /\ queue' = Tail(queue) /\ queue # <<>> /\ ~ Looking /\ ~ Passed(head) /\ ~ Full
  BY DEF Look, queryVars, Looking
<1>3. /\ Tail(queue) \in Seq(Queued) /\ head \in Queued /\ InOrder(Tail(queue))
      /\ Entries(queue) = {head} \union rest
      /\ \A x \in rest : head.level <= x.level /\ x.level <= head.level + 1
  BY <1>1, <1>2, DropHead DEF WalkTypes, InPlace
<1>4. /\ query.depth \in Nat \ {0} /\ head.level \in Nat /\ head.name \in Name
      /\ \A x \in rest : x \in Queued /\ x.level \in Nat /\ x.name \in Name
      /\ Entries(queue)' = rest
  BY <1>1, <1>2, <1>3, QueuedAre DEF WalkTypes, Entries
<1>5. head # Nowhere /\ Looking'
  BY <1>2, <1>4 DEF Nowhere, Looking
<1>6. CASE Marks
  <2>1. visited' = visited /\ nodes' = nodes /\ head.level < query.depth
    BY <1>2, <1>4, <1>6 DEF Look, Marks, Passed
  <2>2. LinksOf(head) \subseteq links
    BY <1>1, <1>3, LinkEnds
  <2> HIDE DEF head, rest
  <2>3. WalkTypes'
    BY <1>1, <1>2, <1>3, <2>1, <2>2 DEF WalkTypes
  <2>4. InPlace'
    BY <1>1, <1>2, <1>3, <1>4, <1>5, <2>1, BallKept DEF InPlace, Marks, IsWalk, Walking, Looking
  <2>5. NothingElse'
    BY <1>1, <1>2, <2>1, BallKept DEF NothingElse
  <2>6. LimitsKept'
    <3>1. IsWalk("explore") => Cardinality(nodes) < NodeLimit
      <4>1. IsFiniteSet(nodes) /\ ~ (Cardinality(nodes) >= NodeLimit)
        BY <1>1, <1>2, <1>6 DEF LimitsKept, Full, Marks
      <4> QED
        BY <4>1, FS_CardinalityType, WalkAssumption DEF WalkAssumption
    <3> QED
      BY <1>1, <1>2, <1>3, <1>4, <2>1, <3>1 DEF LimitsKept, Marks, IsWalk
  <2>7. MarkedInTime'
    <3> SUFFICES ASSUME ~ cut
                 PROVE  MarkedInTime'
      BY <1>2 DEF MarkedInTime
    <3>1. /\ Start \in nodes /\ nodes \subseteq visited
          /\ \A n \in visited : IsWalk("trace") \/ Fits(n) => n \in nodes
          /\ IsWalk("trace") => \A e \in edges : e[1] \in nodes /\ e[2] \in nodes
          /\ Ball(head.level) \subseteq nodes
          /\ \A x \in Entries(queue) : Exact(x.name, x.level) /\ x.name \in nodes
          /\ \A n \in nodes :
                \/ Walked(n) \/ n \notin Ball(query.depth - 1)
                \/ \E x \in Entries(queue) : x.name = n
      BY <1>1, <1>2, <1>6 DEF MarkedInTime, Walking, Front, head
    <3>2. \A n : Walked(n)' <=> Walked(n)
      BY <1>2, <2>1, BallKept DEF Walked, LinksFrom
    <3>3. \A n, k : Exact(n, k)' <=> Exact(n, k)
      BY <1>2, BallKept DEF Exact
    <3>4. Front' = head.level /\ LinksOf(entry)' = LinksOf(head)
      BY <1>2, <1>5, BallKept DEF Front
    <3>5. \A n \in nodes :
                \/ Walked(n) \/ n \notin Ball(query.depth - 1)
                \/ \E x \in rest : x.name = n
                \/ n = head.name
      BY <1>3, <3>1
    <3> QED
      BY <1>2, <1>3, <1>4, <1>5, <2>1, <3>1, <3>2, <3>3, <3>4, <3>5, BallKept
         DEF MarkedInTime, IsWalk
  <2>8. DepthReached'
    BY <1>1, <1>2, <1>3, <1>4, <2>1, BallKept DEF DepthReached, IsWalk
  <2>9. CallsInTime'
    BY <1>2, <1>6 DEF CallsInTime, Marks, IsWalk
  <2> QED
    BY <2>3, <2>4, <2>5, <2>6, <2>7, <2>8, <2>9 DEF WalkInv
<1>7. CASE ~ Marks
  <2>0. IsWalk("callgraph")
    BY <1>7 DEF Marks
  <2>1. /\ visited' = visited \union {head.name}
        /\ nodes' = nodes \union {n \in {head.name} : Known(n)}
        /\ head.name \notin visited /\ head.level <= query.depth
    BY <1>2, <1>4, <2>0 DEF Look, Passed
  <2>2. LinksOf(head) \subseteq links
    BY <1>1, <1>3, LinkEnds
  <2>3. head.name \in Ball(head.level) /\ head.name \in Ball(query.depth)
    <3>1. head.name \in Ball(head.level)
      BY <1>1, <1>3 DEF InPlace
    <3> QED
      BY <1>4, <2>1, <3>1, BallGrows
  <2> HIDE DEF head, rest
  <2>4. WalkTypes'
    BY <1>1, <1>2, <1>3, <1>4, <2>1, <2>2 DEF WalkTypes
  <2>5. InPlace'
    BY <1>1, <1>2, <1>3, <1>4, <1>5, <2>0, <2>1, BallKept
       DEF InPlace, Marks, IsWalk, Walking, Looking
  <2>6. NothingElse'
    <3>1. \A n \in {head.name} : Known(n) => n \in AllNodes
      BY <2>0, <2>3 DEF AllNodes
    <3> QED
      BY <1>1, <1>2, <2>1, <3>1, BallKept DEF NothingElse
  <2>7. LimitsKept' /\ MarkedInTime' /\ DepthReached'
    BY <1>2, <2>0 DEF LimitsKept, MarkedInTime, DepthReached, Marks, IsWalk
  <2>8. CallsInTime'
    <3>1. /\ ~ cut /\ Start \in Seen /\ visited \subseteq Ball(query.depth)
          /\ \A n \in visited : Known(n) => n \in nodes
          /\ Ball(head.level) \intersect Ball(query.depth) \subseteq Seen
          /\ \A n \in (Seen \ visited) \intersect Ball(query.depth) :
                \E x \in Entries(queue) : x.name = n /\ Exact(n, x.level)
          /\ \A n \in visited : \A e \in CallsLeft(n) : Followed(e, n)
      BY <1>1, <1>2, <2>0 DEF CallsInTime, Walking, Front, head
    <3>2. Seen' = Seen
      BY <1>2, <1>3, <1>4, <2>1 DEF Seen
    <3>3. head.name = Start <=> head.level = 0
      <4>1. head.level = 0 => head.name = Start
        BY <2>3, BallStart
      <4>2. ASSUME head.name = Start
            PROVE  head.level = 0
        <5>1. Start \in Ball(0) /\ Start \in Ball(query.depth) /\ Start \in Seen \ visited
          BY <1>4, <2>1, <2>3, <3>1, <4>2, BallStart
        <5>2. PICK x \in Entries(queue) : x.name = Start /\ Exact(Start, x.level)
          BY <3>1, <5>1
        <5>3. x.level \in Nat /\ head.level <= x.level
          BY <1>3, <1>4, <5>2
        <5>4. x.level <= 0
          BY <5>1, <5>2, <5>3, ExactIsFar
        <5> QED
          BY <1>4, <5>3, <5>4
      <4> QED
        BY <4>1, <4>2
    <3>4. \A n, k : Exact(n, k)' <=> Exact(n, k)
      BY <1>2, BallKept DEF Exact
    <3>5. \A n : CallsLeft(n)' = CallsLeft(n)
      BY <1>2, BallKept DEF CallsLeft
    <3>6. Front' = head.level /\ LinksOf(entry)' = LinksOf(head)
      BY <1>2, <1>5, BallKept DEF Front
    <3>7. ASSUME NEW n \in visited, NEW e \in CallsLeft(n)
          PROVE  Followed(e, n)'
      <4>1. Followed(e, n)
        BY <3>1, <3>7
      <4> QED
        BY <1>2, <2>1, <3>2, <4>1, BallKept DEF Followed
    <3>8. ASSUME NEW n \in (Seen \ visited') \intersect Ball(query.depth)
          PROVE  \E x \in rest : x.name = n /\ Exact(n, x.level)
      <4>1. n # head.name /\ n \in (Seen \ visited) \intersect Ball(query.depth)
        BY <2>1, <3>8
      <4> QED
        BY <1>3, <3>1, <4>1
    <3>9. Ball(Front)' = Ball(head.level) /\ Ball(query.depth)' = Ball(query.depth)
      BY <1>2, <3>6, BallKept
    <3>10. \A n \in visited' : Known(n)' => n \in nodes'
      BY <1>2, <2>1, <3>1, BallKept
    <3> QED
      BY <1>2, <1>4, <1>5, <2>1, <2>3, <3>1, <3>2, <3>3, <3>4, <3>5, <3>6, <3>7, <3>8, <3>9,
         <3>10 DEF CallsInTime
  <2> QED
    BY <2>4, <2>5, <2>6, <2>7, <2>8 DEF WalkInv
<1> QED
  BY <1>6, <1>7

\* The last link of an entry has been followed.
LEMMA LeaveEntryKeeps == WalkInv /\ Leave => WalkInv'
<1> SUFFICES ASSUME WalkInv, Leave
             PROVE  WalkInv'
  OBVIOUS
<1>1. /\ WalkTypes /\ InPlace /\ NothingElse /\ LimitsKept
      /\ MarkedInTime /\ DepthReached /\ CallsInTime
  BY DEF WalkInv
<1>2. /\ UNCHANGED queryVars /\ query' = query /\ links' = links /\ defs' = defs
      /\ entry' = Nowhere /\ todo' = {} /\ todo = {} /\ visited' = visited /\ nodes' = nodes
      /\ edges' = edges /\ reached' = reached /\ cut' = cut /\ answered' = answered
      /\ queue' = queue /\ Looking /\ ~ Looking'
  BY DEF Leave, queryVars, Looking
<1>3. /\ query.depth \in Nat \ {0} /\ entry.level \in Nat /\ entry.name \in Name
      /\ entry \in Queued
      /\ \A x \in Entries(queue) : /\ x \in Queued /\ x.level \in Nat /\ x.name \in Name
                                   /\ entry.level <= x.level /\ x.level <= entry.level + 1
      /\ Entries(queue)' = Entries(queue)
      /\ queue # <<>> => Head(queue) \in Entries(queue)
  BY <1>1, <1>2, QueuedAre DEF WalkTypes, Entries, InPlace
<1>4. WalkTypes'
  BY <1>1, <1>2 DEF WalkTypes, Nowhere
<1>5. InPlace'
  BY <1>1, <1>2, <1>3, BallKept DEF InPlace, Marks, IsWalk, Walking, InOrder
<1>6. NothingElse'
  BY <1>1, <1>2, BallKept DEF NothingElse
<1>7. LimitsKept'
  BY <1>1, <1>2 DEF LimitsKept, Marks, IsWalk
<1>8. DepthReached'
  BY <1>1, <1>2, <1>3, BallKept DEF DepthReached, IsWalk
<1>9. queue # <<>> =>
          /\ Front' = Head(queue).level
          /\ \A x \in Entries(queue) : Head(queue).level <= x.level
          /\ Head(queue).level = entry.level \/ Head(queue).level = entry.level + 1
  <2> SUFFICES ASSUME queue # <<>>
               PROVE  /\ Front' = Head(queue).level
                      /\ \A x \in Entries(queue) : Head(queue).level <= x.level
                      /\ Head(queue).level = entry.level \/ Head(queue).level = entry.level + 1
    OBVIOUS
  <2>1. Front' = Head(queue).level
    BY <1>2 DEF Front
  <2>2. Head(queue).level = entry.level \/ Head(queue).level = entry.level + 1
    BY <1>3
  <2>3. queue \in Seq(Queued) /\ InOrder(queue)
    BY <1>1 DEF WalkTypes, InPlace
  <2>4. Entries(queue) = {Head(queue)} \union Entries(Tail(queue))
        /\ \A x \in Entries(Tail(queue)) : Head(queue).level <= x.level
    BY <2>3, DropHead
  <2> QED
    BY <1>3, <2>1, <2>2, <2>4
<1>10. MarkedInTime'
  <2> SUFFICES ASSUME Marks, ~ cut
               PROVE  MarkedInTime'
    BY <1>2 DEF MarkedInTime, Marks, IsWalk
  <2>1. /\ Start \in nodes /\ nodes \subseteq visited
        /\ \A n \in visited : IsWalk("trace") \/ Fits(n) => n \in nodes
        /\ IsWalk("trace") => \A e \in edges : e[1] \in nodes /\ e[2] \in nodes
        /\ Ball(entry.level) \subseteq nodes
        /\ \A x \in Entries(queue) : Exact(x.name, x.level) /\ x.name \in nodes
        /\ \A n \in nodes :
              \/ Walked(n) \/ n \notin Ball(query.depth - 1)
              \/ \E x \in Entries(queue) : x.name = n
              \/ n = entry.name
        /\ \A e \in LinksOf(entry) :
              e \in edges /\ \A m \in {e[1], e[2]} : Reaches(entry.name, m) => m \in nodes
    BY <1>1, <1>2 DEF MarkedInTime, Walking, Front
  <2>2. Walked(entry.name)
    <3>1. LinksOf(entry) = LinksFrom(entry.name)
      BY LinksAnywhere
    <3>2. \A m \in Name : Reaches(entry.name, m) =>
              \E e \in LinksFrom(entry.name) : m \in {e[1], e[2]}
      BY <1>1, ReachesLink
    <3>3. \A m \in Name : Reaches(entry.name, m) => m \in nodes
      BY <2>1, <3>1, <3>2
    <3> QED
      BY <2>1, <3>1, <3>3 DEF Walked
  <2>3. \A n \in nodes :
              \/ Walked(n) \/ n \notin Ball(query.depth - 1)
              \/ \E x \in Entries(queue) : x.name = n
    BY <2>1, <2>2
  <2>4. queue # <<>> => Ball(Head(queue).level) \subseteq nodes
    <3> SUFFICES ASSUME queue # <<>>, Head(queue).level = entry.level + 1
                 PROVE  Ball(entry.level + 1) \subseteq nodes
      BY <1>9, <2>1
    <3>1. entry.level < query.depth
      BY <1>1, <1>2 DEF InPlace
    <3>2. \A x \in Entries(queue) : x.level \in Nat /\ Exact(x.name, x.level) /\ entry.level < x.level
      BY <1>3, <1>9, <2>1
    <3> QED
      BY <1>1, <1>3, <2>1, <2>3, <3>1, <3>2, NextLevel
  <2>5. \A n : Walked(n)' <=> Walked(n)
    BY <1>2, BallKept DEF Walked, LinksFrom
  <2>6. \A n, k : Exact(n, k)' <=> Exact(n, k)
    BY <1>2, BallKept DEF Exact
  <2>7. Walking' => Ball(Front)' \subseteq nodes
    <3>1. Walking' => queue # <<>>
      BY <1>2 DEF Walking
    <3>2. queue # <<>> => Ball(Front)' = Ball(Head(queue).level)
      BY <1>2, <1>9, BallKept
    <3> QED
      BY <2>4, <3>1, <3>2
  <2> QED
    BY <1>2, <1>3, <2>1, <2>3, <2>5, <2>6, <2>7, BallKept DEF MarkedInTime, IsWalk
<1>11. CallsInTime'
  <2> SUFFICES ASSUME IsWalk("callgraph")
               PROVE  CallsInTime'
    BY <1>2 DEF CallsInTime, IsWalk
  <2>1. /\ ~ cut /\ Start \in Seen /\ visited \subseteq Ball(query.depth)
        /\ \A n \in visited : Known(n) => n \in nodes
        /\ Ball(entry.level) \intersect Ball(query.depth) \subseteq Seen
        /\ \A n \in (Seen \ visited) \intersect Ball(query.depth) :
              \E x \in Entries(queue) : x.name = n /\ Exact(n, x.level)
        /\ \A n \in visited : n = entry.name \/ \A e \in CallsLeft(n) : Followed(e, n)
        /\ entry.name \in visited
        /\ entry.name = Start <=> entry.level = 0
        /\ \A e \in LinksOf(entry) : Followed(e, entry.name)
    BY <1>1, <1>2 DEF CallsInTime, Walking, Front
  <2>2. CallsLeft(entry.name) \subseteq LinksOf(entry)
    <3>1. LinksOf(entry) =
              {e \in Called : e[1] = entry.name \/ (entry.level = 0 /\ e[2] = entry.name)}
      <4>1. query.direction = "both"
        BY <1>1 DEF WalkTypes, IsWalk
      <4> QED
        BY <4>1 DEF LinksOf
    <3>2. entry.name = Start => entry.level = 0
      BY <2>1
    <3> QED
      BY <3>1, <3>2 DEF CallsLeft
  <2>3. \A n \in visited : \A e \in CallsLeft(n) : Followed(e, n)
    BY <2>1, <2>2
  <2>4. Seen' = Seen
    BY <1>2, <1>3 DEF Seen
  <2>5. queue # <<>> => Ball(Head(queue).level) \intersect Ball(query.depth) \subseteq Seen
    <3> SUFFICES ASSUME queue # <<>>, Head(queue).level = entry.level + 1
                 PROVE  Ball(entry.level + 1) \intersect Ball(query.depth) \subseteq Seen
      BY <1>9, <2>1
    <3>1. entry.level <= query.depth
      BY <1>1, <1>2 DEF InPlace
    <3>2. \A x \in Entries(queue) : x.level \in Nat /\ entry.level < x.level
      BY <1>3, <1>9
    <3>3. \A n \in visited, e \in Called :
              e[1] = n /\ Fits(e[2]) /\ e[2] \in Ball(query.depth) => e[2] \in Seen
      BY <2>3 DEF CallsLeft, Followed
    <3> QED
      BY <1>1, <1>3, <2>1, <3>1, <3>2, <3>3, NextCalls
  <2>6. Walking' => Ball(Front)' \intersect Ball(query.depth) \subseteq Seen
    <3>1. Walking' => queue # <<>>
      BY <1>2 DEF Walking
    <3>2. queue # <<>> => Ball(Front)' = Ball(Head(queue).level)
      BY <1>2, <1>9, BallKept
    <3> QED
      BY <2>5, <3>1, <3>2
  <2>7. \A n, k : Exact(n, k)' <=> Exact(n, k)
    BY <1>2, BallKept DEF Exact
  <2>8. \A n : CallsLeft(n)' = CallsLeft(n)
    BY <1>2, BallKept DEF CallsLeft
  <2>9. ASSUME NEW n \in visited, NEW e \in CallsLeft(n)
        PROVE  Followed(e, n)'
    <3>1. Followed(e, n)
      BY <2>3, <2>9
    <3> QED
      BY <1>2, <2>4, <3>1, BallKept DEF Followed
  <2> QED
    BY <1>2, <1>3, <2>1, <2>4, <2>6, <2>7, <2>8, <2>9, BallKept DEF CallsInTime
<1> QED
  BY <1>4, <1>5, <1>6, <1>7, <1>8, <1>10, <1>11 DEF WalkInv

\* The answer, or no step.
LEMMA AnswerKeeps ==
    ASSUME WalkInv, Answer \/ UNCHANGED walkVars
    PROVE  WalkInv'
<1>1. /\ WalkTypes /\ InPlace /\ NothingElse /\ LimitsKept
      /\ MarkedInTime /\ DepthReached /\ CallsInTime
  BY DEF WalkInv
<1>2. /\ UNCHANGED queryVars /\ query' = query /\ links' = links /\ defs' = defs
      /\ entry' = entry /\ todo' = todo /\ visited' = visited /\ nodes' = nodes
      /\ edges' = edges /\ reached' = reached /\ cut' = cut /\ queue' = queue
      /\ answered' \in BOOLEAN /\ (answered' => ~ Walking)
  <2>1. CASE Answer
    BY <2>1 DEF Answer, queryVars, Looking, Walking
  <2>2. CASE UNCHANGED walkVars
    BY <1>1, <2>2 DEF walkVars, queryVars, InPlace, WalkTypes
  <2> QED
    BY <2>1, <2>2
<1>3. Entries(queue)' = Entries(queue) /\ (Looking' <=> Looking) /\ (Walking' <=> Walking) /\ Front' = Front
  BY <1>2 DEF Entries, Looking, Walking, Front
<1>4. WalkTypes'
  BY <1>1, <1>2 DEF WalkTypes, Nowhere
<1>5. InPlace'
  BY <1>1, <1>2, <1>3, BallKept DEF InPlace, Marks, IsWalk, InOrder
<1>6. NothingElse' /\ LimitsKept' /\ DepthReached'
  BY <1>1, <1>2, <1>3, BallKept DEF NothingElse, LimitsKept, DepthReached, Marks, IsWalk
<1>7. \A n, k : Exact(n, k)' <=> Exact(n, k)
  BY <1>2, BallKept DEF Exact
<1>8. MarkedInTime'
  <2>1. \A n : Walked(n)' <=> Walked(n)
    BY <1>2, BallKept DEF Walked, LinksFrom
  <2>2. LinksOf(entry)' = LinksOf(entry) /\ Ball(Front)' = Ball(Front)
    BY <1>2, <1>3, BallKept
  <2> QED
    BY <1>1, <1>2, <1>3, <1>7, <2>1, <2>2, BallKept DEF MarkedInTime, Marks, IsWalk
<1>9. CallsInTime'
  <2>1. Seen' = Seen
    BY <1>2, <1>3 DEF Seen
  <2>2. \A e, n : Followed(e, n)' <=> Followed(e, n)
    BY <1>2, <2>1, BallKept DEF Followed
  <2>3. LinksOf(entry)' = LinksOf(entry) /\ Ball(Front)' = Ball(Front)
    BY <1>2, <1>3, BallKept
  <2>4. \A n : CallsLeft(n)' = CallsLeft(n)
    BY <1>2, BallKept DEF CallsLeft
  <2> QED
    BY <1>1, <1>2, <1>3, <1>7, <2>1, <2>2, <2>3, <2>4, BallKept DEF CallsInTime, IsWalk
<1> QED
  BY <1>4, <1>5, <1>6, <1>8, <1>9 DEF WalkInv
----------------------------------------------------------------------------
\* One link.  What it leads to is within reach.
Other(e) == IF e[2] = entry.name THEN e[1] ELSE e[2]

LEMMA LinkAllowed ==
    ASSUME WalkInv, NEW e \in todo
    PROVE  /\ Looking /\ entry \in Queued /\ entry.name \in Name /\ entry.level \in Nat
           /\ e \in LinksOf(entry) /\ e \in links /\ e = <<e[1], e[2]>>
           /\ {e[1], e[2]} = {entry.name, Other(e)} /\ Other(e) \in Name
           /\ e \in AllEdges
<1>1. WalkTypes /\ InPlace
  BY DEF WalkInv
<1>2. Looking /\ e \in LinksOf(entry)
  BY <1>1 DEF InPlace
<1>3. entry \in Queued /\ entry.name \in Name /\ entry.level \in Nat
  BY <1>1, <1>2, QueuedAre
<1>4. e \in links /\ e[1] \in Name /\ e[2] \in Name /\ e = <<e[1], e[2]>>
      /\ (e[1] = entry.name \/ e[2] = entry.name)
  BY <1>1, <1>2, <1>3, LinkEnds
<1>5. {e[1], e[2]} = {entry.name, Other(e)} /\ Other(e) \in Name
  BY <1>4 DEF Other
<1>6. query.depth \in Nat \ {0} /\ entry.name \in Ball(entry.level) /\ entry.level <= query.depth
  BY <1>1, <1>2 DEF WalkTypes, InPlace
<1>7. CASE Marks
  <2>1. LinksOf(entry) = LinksFrom(entry.name)
    BY <1>7, LinksAnywhere
  <2>2. entry.level <= query.depth - 1 /\ query.depth - 1 \in Nat
    BY <1>1, <1>2, <1>3, <1>6, <1>7 DEF InPlace
  <2>3. entry.name \in Ball(query.depth - 1)
    BY <1>3, <1>6, <2>2, BallGrows
  <2>4. e \in AllEdges
    BY <1>2, <1>7, <2>1, <2>3 DEF AllEdges, Marks, LinksFrom
  <2> QED
    BY <1>2, <1>3, <1>4, <1>5, <2>4
<1>8. CASE ~ Marks
  <2>1. entry.name \in Ball(query.depth)
    BY <1>3, <1>6, BallGrows
  <2>2. entry.level = 0 => entry.name = Start
    BY <1>6, BallStart
  <2>3. IsWalk("callgraph") /\ query.direction = "both"
    BY <1>1, <1>8 DEF Marks, WalkTypes, IsWalk
  <2>4. e \in Called /\ (e[1] = entry.name \/ (entry.level = 0 /\ e[2] = entry.name))
    BY <1>2, <2>3 DEF LinksOf
  <2>5. e \in AllEdges
    BY <2>1, <2>2, <2>3, <2>4 DEF AllEdges
  <2> QED
    BY <1>2, <1>3, <1>4, <1>5, <2>5
<1> QED
  BY <1>7, <1>8

\* A walk that marks goes one link farther.
LEMMA OtherAllowed ==
    ASSUME WalkInv, Marks, NEW e \in todo, IsWalk("trace") \/ Fits(Other(e))
    PROVE  /\ entry.level + 1 \in Nat /\ entry.level + 1 <= query.depth
           /\ Other(e) \in Ball(entry.level + 1) /\ Other(e) \in AllNodes
<1>1. WalkTypes /\ InPlace
  BY DEF WalkInv
<1>2. /\ Looking /\ entry \in Queued /\ entry.level \in Nat /\ e \in LinksOf(entry)
      /\ {e[1], e[2]} = {entry.name, Other(e)} /\ Other(e) \in Name
  BY LinkAllowed
<1>3. query.depth \in Nat /\ entry.level < query.depth /\ entry.name \in Ball(entry.level)
  BY <1>1, <1>2 DEF WalkTypes, InPlace
<1>4. entry.level + 1 \in Nat /\ entry.level + 1 <= query.depth
  BY <1>2, <1>3
<1>5. Other(e) \in Ball(entry.level + 1)
  <2>1. CASE Other(e) = entry.name
    <3>1. Ball(entry.level) \subseteq Ball(entry.level + 1)
      BY <1>2, <1>4, BallGrows
    <3> QED
      BY <1>3, <2>1, <3>1
  <2>2. CASE Other(e) # entry.name
    <3>1. Reaches(entry.name, Other(e))
      BY <1>1, <1>2, <2>2, LinkReaches
    <3> QED
      BY <1>2, <1>3, <3>1, BallReaches
  <2> QED
    BY <2>1, <2>2
<1>6. Other(e) \in Ball(query.depth)
  BY <1>3, <1>4, <1>5, BallGrows
<1> QED
  BY <1>4, <1>5, <1>6 DEF AllNodes, Marks

\* A link is followed and what it leads to, if it is new, is marked and queued.
MarkIt(e) ==
    /\ UNCHANGED <<queryVars, entry, answered, cut>>
    /\ todo' = todo \ {e} /\ edges' = edges \union {e} /\ reached' \in Nat
    /\ visited' \in {visited, visited \union {Other(e)}}
    /\ \/ /\ cut \/ Other(e) \in nodes \/ ~ (IsWalk("trace") \/ Fits(Other(e)))
          /\ nodes' = nodes /\ queue' = queue
       \/ /\ Other(e) \notin visited /\ (IsWalk("trace") \/ Fits(Other(e)))
          /\ nodes' = nodes \union {Other(e)} /\ visited' = visited \union {Other(e)}
          /\ queue' = Enqueue(queue, <<[name |-> Other(e), level |-> entry.level + 1]>>)

LEMMA MarkKeeps ==
    ASSUME WalkInv, Marks, NEW e \in todo, MarkIt(e)
    PROVE  WalkTypes' /\ InPlace' /\ NothingElse' /\ MarkedInTime'
<1> DEFINE n == Other(e)
           new == [name |-> n, level |-> entry.level + 1]
<1>1. /\ WalkTypes /\ InPlace /\ NothingElse /\ MarkedInTime
  BY DEF WalkInv
<1>2. /\ UNCHANGED queryVars /\ query' = query /\ links' = links /\ defs' = defs
      /\ entry' = entry /\ answered' = answered /\ cut' = cut
      /\ todo' = todo \ {e} /\ edges' = edges \union {e} /\ reached' \in Nat
      /\ visited' \in {visited, visited \union {n}}
  BY DEF MarkIt, queryVars
<1>3. /\ Looking /\ entry \in Queued /\ entry.name \in Name /\ entry.level \in Nat
      /\ e \in LinksOf(entry) /\ e \in links
      /\ {e[1], e[2]} = {entry.name, n} /\ n \in Name /\ e \in AllEdges
      /\ query.depth \in Nat \ {0} /\ entry.level < query.depth
  BY <1>1, LinkAllowed DEF WalkTypes, InPlace
<1>4. Looking' /\ Walking /\ Front = entry.level /\ Front' = entry.level /\ LinksOf(entry)' = LinksOf(entry)
  BY <1>2, <1>3, BallKept DEF Looking, Front, Walking
<1>5. /\ \A m : Walked(m) => Walked(m)'
  <2>1. nodes \subseteq nodes' /\ edges \subseteq edges'
    BY <1>2 DEF MarkIt
  <2> QED
    BY <1>2, <2>1, BallKept DEF Walked, LinksFrom
<1>6. \A m, k : Exact(m, k)' <=> Exact(m, k)
  BY <1>2, BallKept DEF Exact
<1>7. \A x \in Entries(queue) : entry.level <= x.level /\ x.level <= entry.level + 1
  BY <1>1, <1>3 DEF InPlace
<1> HIDE DEF n
<1>8. CASE \/ ~ (cut \/ n \in nodes \/ ~ (IsWalk("trace") \/ Fits(n)))
           \/ ~ (nodes' = nodes /\ queue' = queue)
  <2>1. /\ n \notin visited /\ (IsWalk("trace") \/ Fits(n))
        /\ nodes' = nodes \union {n} /\ visited' = visited \union {n}
        /\ queue' = Enqueue(queue, <<new>>)
    BY <1>8 DEF MarkIt, n
  <2>2. /\ entry.level + 1 \in Nat /\ entry.level + 1 <= query.depth
        /\ n \in Ball(entry.level + 1) /\ n \in AllNodes
    BY <2>1, OtherAllowed DEF n
  <2>3. /\ queue' \in Seq(Queued) /\ InOrder(queue') /\ queue' # <<>>
        /\ Entries(queue') = Entries(queue) \union {new}
    BY <1>1, <1>3, <1>7, <2>1, AddAtEnd DEF WalkTypes, InPlace
  <2>4. new.name = n /\ new.level = entry.level + 1
    OBVIOUS
  <2> HIDE DEF new
  <2>5. WalkTypes'
    BY <1>1, <1>2, <1>3, <2>1, <2>3 DEF WalkTypes, Nowhere
  <2>6. InOrder(queue)' /\ Entries(queue)' = Entries(queue) \union {new}
    BY <2>3 DEF InOrder, Entries
  <2>7. InPlace'
    <3>1. \A x \in Entries(queue) : x.name \in Ball(x.level) /\ x.level <= query.depth
      BY <1>1 DEF InPlace
    <3>2. \A x \in Entries(queue) \union {new} :
              /\ x.name \in Ball(x.level) /\ x.level <= query.depth
              /\ entry.level <= x.level /\ x.level <= entry.level + 1
      BY <1>3, <1>7, <2>2, <2>4, <3>1
    <3>3. entry.name \in Ball(entry.level) /\ todo' \subseteq LinksOf(entry) /\ ~ answered
      BY <1>1, <1>2, <1>3, <1>4 DEF InPlace
    <3> QED
      BY <1>2, <1>3, <1>4, <2>6, <3>2, <3>3, BallKept DEF InPlace, Marks, IsWalk
  <2>8. NothingElse'
    BY <1>1, <1>2, <1>3, <2>1, <2>2, BallKept DEF NothingElse
  <2>9. MarkedInTime'
    <3> SUFFICES ASSUME ~ cut
                 PROVE  MarkedInTime'
      BY <1>2 DEF MarkedInTime
    <3>1. /\ Start \in nodes /\ nodes \subseteq visited
          /\ \A m \in visited : IsWalk("trace") \/ Fits(m) => m \in nodes
          /\ IsWalk("trace") => \A c \in edges : c[1] \in nodes /\ c[2] \in nodes
          /\ Ball(entry.level) \subseteq nodes
          /\ \A x \in Entries(queue) : Exact(x.name, x.level) /\ x.name \in nodes
          /\ \A m \in nodes :
                \/ Walked(m) \/ m \notin Ball(query.depth - 1)
                \/ \E x \in Entries(queue) : x.name = m
                \/ m = entry.name
          /\ entry.name \in nodes
          /\ \A c \in LinksOf(entry) \ todo :
                c \in edges /\ \A m \in {c[1], c[2]} : Reaches(entry.name, m) => m \in nodes
      BY <1>1, <1>3, <1>4 DEF MarkedInTime
    <3>2. Exact(n, entry.level + 1)
      <4> DEFINE k == entry.level + 1
      <4>1. n \notin Ball(entry.level) /\ n \in Ball(k) /\ k - 1 = entry.level
        BY <1>3, <2>1, <2>2, <3>1
      <4> HIDE DEF k
      <4>2. Exact(n, k)
        BY <4>1 DEF Exact
      <4> QED
        BY <4>2 DEF k
    <3>3. \A m \in nodes' :
              \/ Walked(m)' \/ m \notin Ball(query.depth - 1)
              \/ \E x \in Entries(queue) \union {new} : x.name = m
              \/ m = entry.name
      BY <1>5, <2>1, <2>4, <3>1
    <3>4. \A c \in LinksOf(entry) \ todo' :
              c \in edges' /\ \A m \in {c[1], c[2]} : Reaches(entry.name, m) => m \in nodes'
      BY <1>2, <1>3, <2>1, <3>1
    <3>5. \A x \in Entries(queue) \union {new} : Exact(x.name, x.level) /\ x.name \in nodes'
      BY <2>1, <2>4, <3>1, <3>2
    <3>6. IsWalk("trace") => \A c \in edges' : c[1] \in nodes' /\ c[2] \in nodes'
      BY <1>2, <1>3, <2>1, <3>1
    <3>7. /\ Start \in nodes' /\ nodes' \subseteq visited'
          /\ \A m \in visited' : IsWalk("trace") \/ Fits(m) => m \in nodes'
          /\ Ball(entry.level) \subseteq nodes' /\ entry.name \in nodes'
      BY <2>1, <3>1
    <3> QED
      BY <1>2, <1>4, <1>6, <2>6, <3>3, <3>4, <3>5, <3>6, <3>7, BallKept
         DEF MarkedInTime, IsWalk
  <2> QED
    BY <2>5, <2>7, <2>8, <2>9
<1>9. CASE /\ cut \/ n \in nodes \/ ~ (IsWalk("trace") \/ Fits(n))
           /\ nodes' = nodes /\ queue' = queue
  <2>1. Entries(queue)' = Entries(queue)
    BY <1>9 DEF Entries
  <2>2. WalkTypes'
    BY <1>1, <1>2, <1>3, <1>9 DEF WalkTypes, Nowhere
  <2>3. InPlace'
    BY <1>1, <1>2, <1>3, <1>4, <1>9, <2>1, BallKept DEF InPlace, Marks, IsWalk, InOrder
  <2>4. NothingElse'
    BY <1>1, <1>2, <1>3, <1>9, BallKept DEF NothingElse
  <2>5. MarkedInTime'
    <3> SUFFICES ASSUME ~ cut
                 PROVE  MarkedInTime'
      BY <1>2 DEF MarkedInTime
    <3>1. /\ Start \in nodes /\ nodes \subseteq visited
          /\ \A m \in visited : IsWalk("trace") \/ Fits(m) => m \in nodes
          /\ IsWalk("trace") => \A c \in edges : c[1] \in nodes /\ c[2] \in nodes
          /\ Ball(entry.level) \subseteq nodes
          /\ \A x \in Entries(queue) : Exact(x.name, x.level) /\ x.name \in nodes
          /\ \A m \in nodes :
                \/ Walked(m) \/ m \notin Ball(query.depth - 1)
                \/ \E x \in Entries(queue) : x.name = m
                \/ m = entry.name
          /\ entry.name \in nodes
          /\ \A c \in LinksOf(entry) \ todo :
                c \in edges /\ \A m \in {c[1], c[2]} : Reaches(entry.name, m) => m \in nodes
      BY <1>1, <1>3, <1>4 DEF MarkedInTime
    <3>2. Reaches(entry.name, n) => n \in nodes
      BY <1>1, <1>9, ReachesLink
    <3>3. \A c \in LinksOf(entry) \ todo' :
              c \in edges' /\ \A m \in {c[1], c[2]} : Reaches(entry.name, m) => m \in nodes
      BY <1>2, <1>3, <3>1, <3>2
    <3>4. IsWalk("trace") => \A c \in edges' : c[1] \in nodes /\ c[2] \in nodes
      BY <1>2, <1>3, <1>9, <3>1
    <3>5. nodes \subseteq visited' /\ \A m \in visited' : IsWalk("trace") \/ Fits(m) => m \in nodes
      BY <1>2, <1>9, <3>1
    <3>6. \A m \in nodes : 
              \/ Walked(m)' \/ m \notin Ball(query.depth - 1)
              \/ \E x \in Entries(queue) : x.name = m
              \/ m = entry.name
      BY <1>5, <3>1
    <3> QED
      BY <1>2, <1>4, <1>6, <1>9, <2>1, <3>1, <3>3, <3>4, <3>5, <3>6, BallKept
         DEF MarkedInTime, IsWalk
  <2> QED
    BY <2>2, <2>3, <2>4, <2>5
<1> QED
  BY <1>8, <1>9

\* A limit stops the walk at a link.
CutAt(e) ==
    /\ UNCHANGED <<queryVars, entry, answered, reached>>
    /\ cut' = TRUE /\ todo' \subseteq todo /\ queue' \in {queue, <<>>}
    /\ edges' = edges \union {e} /\ visited' \subseteq Name
    /\ \/ nodes' = nodes
       \/ nodes' = nodes \union {Other(e)} /\ (IsWalk("trace") \/ Fits(Other(e)))

LEMMA CutKeeps ==
    ASSUME WalkInv, Marks, NEW e \in todo, CutAt(e)
    PROVE  /\ WalkTypes' /\ InPlace' /\ NothingElse'
           /\ MarkedInTime' /\ DepthReached' /\ CallsInTime'
<1>1. WalkTypes /\ InPlace /\ NothingElse
  BY DEF WalkInv
<1>2. /\ UNCHANGED queryVars /\ query' = query /\ links' = links /\ defs' = defs
      /\ entry' = entry /\ answered' = answered /\ reached' = reached
      /\ cut' = TRUE /\ todo' \subseteq todo /\ queue' \in {queue, <<>>}
      /\ edges' = edges \union {e} /\ visited' \subseteq Name
  BY DEF CutAt, queryVars
<1>3. /\ Looking /\ entry \in Queued /\ entry.level \in Nat /\ e \in links
      /\ Other(e) \in Name /\ e \in AllEdges
  BY LinkAllowed
<1>4. nodes' \subseteq nodes \union {Other(e)} /\ nodes' \subseteq AllNodes
  BY <1>1, OtherAllowed DEF CutAt, NothingElse
<1>5. queue' \in Seq(Queued)
  <2>1. queue \in Seq(Queued) /\ <<>> \in Seq(Queued)
    BY <1>1 DEF WalkTypes
  <2> QED
    BY <1>2, <2>1
<1>6. WalkTypes'
  BY <1>1, <1>2, <1>3, <1>4, <1>5 DEF WalkTypes, Nowhere
<1>7. InOrder(queue)' /\ Entries(queue)' \subseteq Entries(queue)
  BY <1>1, <1>2 DEF InPlace, InOrder, Entries
<1>8. Looking' /\ LinksOf(entry)' = LinksOf(entry)
  BY <1>2, <1>3, BallKept DEF Looking
<1>9. InPlace'
  <2>1. ~ answered
    BY <1>1, <1>3 DEF InPlace, Walking
  <2> QED
    BY <1>1, <1>2, <1>3, <1>7, <1>8, <2>1, BallKept DEF InPlace, Marks, IsWalk
<1>10. NothingElse'
  BY <1>1, <1>2, <1>3, <1>4, BallKept DEF NothingElse
<1>11. MarkedInTime' /\ DepthReached' /\ CallsInTime'
  BY <1>2 DEF MarkedInTime, DepthReached, CallsInTime, Marks, IsWalk
<1> QED
  BY <1>6, <1>9, <1>10, <1>11

LEMMA ExploreKeeps ==
    ASSUME WalkInv, NEW e \in todo, ExploreLink(e), UNCHANGED <<queryVars, entry, answered>>
    PROVE  WalkInv'
<1> DEFINE n == Other(e)
           added == nodes \union {n}
           new == [name |-> n, level |-> entry.level + 1]
<1>1. /\ WalkTypes /\ InPlace /\ LimitsKept /\ MarkedInTime /\ DepthReached
  BY DEF WalkInv
<1>2. /\ UNCHANGED queryVars /\ query' = query /\ links' = links /\ defs' = defs
      /\ entry' = entry /\ answered' = answered
      /\ IsWalk("explore") /\ Marks /\ ~ IsWalk("trace") /\ ~ IsWalk("callgraph")
      /\ edges' = edges \union {e} /\ visited' = visited \union {n}
  BY DEF ExploreLink, queryVars, Marks, IsWalk, Other
<1>3. /\ Looking /\ entry \in Queued /\ entry.level \in Nat /\ n \in Name
  BY LinkAllowed
<1>4. /\ IsFiniteSet(nodes) /\ Cardinality(nodes) < NodeLimit /\ NodeLimit \in Nat
      /\ Cardinality(nodes) \in Nat
  BY <1>1, <1>2, WalkAssumption, FS_CardinalityType DEF LimitsKept, WalkAssumption
<1>5. /\ IsFiniteSet(added) /\ Cardinality(added) <= Cardinality(nodes) + 1
      /\ Cardinality(added) \in Nat
  <2>1. /\ IsFiniteSet(added)
        /\ \/ Cardinality(added) = Cardinality(nodes)
           \/ Cardinality(added) = Cardinality(nodes) + 1
    BY <1>4, FS_AddElement
  <2> HIDE DEF added
  <2> QED
    BY <1>4, <2>1
<1>6. CASE n \in visited \/ ~ Fits(n)
  <2>1. todo' = todo \ {e} /\ queue' = queue /\ nodes' = nodes /\ reached' = reached /\ cut' = cut
    BY <1>6 DEF ExploreLink, Other
  <2>2. cut \/ n \in nodes \/ ~ (IsWalk("trace") \/ Fits(n))
    BY <1>1, <1>2, <1>6 DEF MarkedInTime
  <2>3. reached' \in Nat
    BY <1>1, <2>1 DEF WalkTypes
  <2>4. MarkIt(e)
    BY <1>2, <2>1, <2>2, <2>3 DEF MarkIt
  <2>5. WalkTypes' /\ InPlace' /\ NothingElse' /\ MarkedInTime'
    BY <1>2, <2>4, MarkKeeps
  <2>6. LimitsKept'
    BY <1>2, <1>4, <2>1 DEF LimitsKept, Marks, IsWalk
  <2>7. DepthReached'
    <3>1. Entries(queue)' = Entries(queue) /\ Looking'
      BY <1>2, <1>3, <2>1 DEF Entries, Looking
    <3> QED
      BY <1>1, <1>2, <1>3, <2>1, <3>1, BallKept DEF DepthReached, IsWalk
  <2>8. CallsInTime'
    BY <1>2 DEF CallsInTime, IsWalk
  <2> QED
    BY <2>5, <2>6, <2>7, <2>8 DEF WalkInv
<1>7. CASE n \notin visited /\ Fits(n) /\ Cardinality(added) >= NodeLimit
  <2>1. todo' = {} /\ queue' = queue /\ nodes' = added /\ reached' = reached /\ cut' = TRUE
    BY <1>7 DEF ExploreLink, Other
  <2>2. visited' \subseteq Name
    BY <1>1, <1>2, <1>3 DEF WalkTypes
  <2>3. CutAt(e)
    BY <1>2, <1>7, <2>1, <2>2 DEF CutAt
  <2>4. /\ WalkTypes' /\ InPlace' /\ NothingElse'
        /\ MarkedInTime' /\ DepthReached' /\ CallsInTime'
    BY <1>2, <2>3, CutKeeps
  <2>5. LimitsKept'
    BY <1>2, <1>4, <1>5, <2>1 DEF LimitsKept, Marks, IsWalk
  <2> QED
    BY <2>4, <2>5 DEF WalkInv
<1>8. CASE n \notin visited /\ Fits(n) /\ ~ (Cardinality(added) >= NodeLimit)
  <2>1. /\ todo' = todo \ {e} /\ queue' = Enqueue(queue, <<new>>) /\ nodes' = added
        /\ reached' = entry.level + 1 /\ cut' = cut
    BY <1>8 DEF ExploreLink, Other
  <2>2. MarkIt(e)
    BY <1>2, <1>3, <1>8, <2>1 DEF MarkIt
  <2>3. WalkTypes' /\ InPlace' /\ NothingElse' /\ MarkedInTime'
    BY <1>2, <2>2, MarkKeeps
  <2>4. LimitsKept'
    BY <1>2, <1>4, <1>5, <1>8, <2>1 DEF LimitsKept, Marks, IsWalk
  <2>5. DepthReached'
    <3> SUFFICES ASSUME ~ cut
                 PROVE  DepthReached'
      BY <2>1 DEF DepthReached
    <3> DEFINE k == entry.level + 1
    <3>1. k \in Nat /\ k <= query.depth /\ n \in Ball(k) /\ entry.level <= k /\ k > 0 /\ k - 1 = entry.level
      BY <1>2, <1>3, <1>8, OtherAllowed
    <3>2. reached \in Nat /\ reached <= k /\ nodes \subseteq Ball(reached)
      BY <1>1, <1>2, <1>3 DEF DepthReached, WalkTypes
    <3>3. n \notin Ball(entry.level)
      <4>1. Ball(entry.level) \subseteq nodes /\ nodes \subseteq visited
        BY <1>1, <1>2, <1>3 DEF MarkedInTime, Walking, Front
      <4> QED
        BY <1>8, <4>1
    <3>4. queue' \in Seq(Queued) /\ Entries(queue)' = Entries(queue) \union {new}
      <4>1. \A x \in Entries(queue) : entry.level <= x.level /\ x.level <= entry.level + 1
        BY <1>1, <1>3 DEF InPlace
      <4>2. /\ queue' \in Seq(Queued)
            /\ Entries(queue') = Entries(queue) \union {new}
        BY <1>1, <1>3, <2>1, <4>1, AddAtEnd DEF WalkTypes, InPlace
      <4> QED
        BY <4>2 DEF Entries
    <3>5. \A x \in Entries(queue) \union {new} : k <= x.level + 1
      <4>1. new.level = k
        OBVIOUS
      <4>2. \A x \in Entries(queue) : x.level \in Nat /\ entry.level <= x.level
        BY <1>1, <1>3, QueuedAre DEF InPlace
      <4> QED
        BY <1>3, <3>1, <4>1, <4>2
    <3>6. reached' = k
      BY <2>1
    <3> HIDE DEF k, n, new
    <3>7. nodes' \subseteq Ball(k)
      <4>1. nodes \subseteq Ball(k)
        BY <3>1, <3>2, BallGrows
      <4> QED
        BY <2>1, <3>1, <4>1
    <3>8. n \in nodes' /\ n \notin Ball(k - 1)
      BY <2>1, <3>1, <3>3
    <3>9. Looking' /\ k <= entry.level + 1
      BY <1>2, <1>3, <3>1 DEF Looking, k
    <3>10. (Ball(reached))' = Ball(k) /\ (Ball(reached - 1))' = Ball(k - 1)
      BY <1>2, <3>6, BallKept
    <3> QED
      BY <1>2, <3>1, <3>4, <3>5, <3>6, <3>7, <3>8, <3>9, <3>10 DEF DepthReached, IsWalk
  <2>6. CallsInTime'
    BY <1>2 DEF CallsInTime, IsWalk
  <2> QED
    BY <2>3, <2>4, <2>5, <2>6 DEF WalkInv
<1> QED
  BY <1>6, <1>7, <1>8

LEMMA CallKeeps ==
    ASSUME WalkInv, NEW e \in todo, CallLink(e), UNCHANGED <<queryVars, entry, answered>>
    PROVE  WalkInv'
<1> DEFINE found == [name |-> e[2], level |-> entry.level + 1]
           queues == e[1] = entry.name /\ e[2] \notin visited /\ Fits(e[2])
           shows == entry.level = 0 /\ e[2] = entry.name
<1>1. /\ WalkTypes /\ InPlace /\ NothingElse /\ CallsInTime
  BY DEF WalkInv
<1>2. /\ UNCHANGED queryVars /\ query' = query /\ links' = links /\ defs' = defs
      /\ entry' = entry /\ answered' = answered /\ reached' = reached /\ cut' = cut
      /\ visited' = visited /\ edges' = edges \union {e} /\ todo' = todo \ {e}
      /\ IsWalk("callgraph") /\ ~ Marks /\ ~ IsWalk("explore") /\ ~ IsWalk("trace")
  BY DEF CallLink, queryVars, Marks, IsWalk
<1>3. /\ queue' = IF queues THEN Enqueue(queue, <<found>>) ELSE queue
      /\ nodes' = IF shows THEN nodes \union {n \in {e[1]} : Known(n)} ELSE nodes
  BY DEF CallLink
<1>4. /\ Looking /\ entry \in Queued /\ entry.name \in Name /\ entry.level \in Nat
      /\ e \in LinksOf(entry) /\ e \in links /\ e = <<e[1], e[2]>> /\ e \in AllEdges
      /\ e[1] \in Name /\ e[2] \in Name /\ query.depth \in Nat \ {0}
  <2>1. /\ Looking /\ entry \in Queued /\ entry.name \in Name /\ entry.level \in Nat
        /\ e \in LinksOf(entry) /\ e \in links /\ e = <<e[1], e[2]>> /\ e \in AllEdges
    BY LinkAllowed
  <2> QED
    BY <1>1, <2>1 DEF WalkTypes
<1>5. e \in Called /\ (e[1] = entry.name \/ shows)
  <2>1. query.direction = "both"
    BY <1>1, <1>2 DEF WalkTypes, IsWalk
  <2> QED
    BY <1>2, <1>4, <2>1 DEF LinksOf
<1>6. Looking' /\ Walking /\ Front = entry.level /\ Front' = entry.level /\ LinksOf(entry)' = LinksOf(entry)
  BY <1>2, <1>4, BallKept DEF Looking, Front, Walking
<1>7. \A x \in Entries(queue) : entry.level <= x.level /\ x.level <= entry.level + 1
  BY <1>1, <1>4 DEF InPlace
<1>8. ~ queues => /\ queue' \in Seq(Queued) /\ InOrder(queue)'
                  /\ Entries(queue)' = Entries(queue)
  BY <1>1, <1>3 DEF WalkTypes, InPlace, InOrder, Entries
<1>9. queues => /\ queue' \in Seq(Queued) /\ InOrder(queue)'
                /\ Entries(queue)' = Entries(queue) \union {found}
                /\ e[2] \in Ball(entry.level + 1)
  <2> SUFFICES ASSUME queues
               PROVE  /\ queue' \in Seq(Queued) /\ InOrder(queue)'
                      /\ Entries(queue)' = Entries(queue) \union {found}
                      /\ e[2] \in Ball(entry.level + 1)
    OBVIOUS
  <2>1. /\ queue' \in Seq(Queued) /\ InOrder(queue')
        /\ Entries(queue') = Entries(queue) \union {found}
    BY <1>1, <1>3, <1>4, <1>7, AddAtEnd DEF WalkTypes, InPlace
  <2>2. Reaches(entry.name, e[2])
    BY <1>2, <1>4, <1>5 DEF Reaches
  <2>3. entry.name \in Ball(entry.level)
    BY <1>1, <1>4 DEF InPlace
  <2>4. e[2] \in Ball(entry.level + 1)
    BY <1>4, <2>2, <2>3, BallReaches
  <2> QED
    BY <2>1, <2>4 DEF InOrder, Entries
<1>10. found.name = e[2] /\ found.level = entry.level + 1
  OBVIOUS
<1>11. entry.level = 0 => entry.name = Start
  BY <1>1, <1>4, BallStart DEF InPlace
<1> HIDE DEF found, queues, shows
<1>12. nodes' \subseteq nodes \union {e[1]} /\ nodes \subseteq nodes' /\ nodes' \subseteq AllNodes
  <2>1. shows /\ Known(e[1]) => e[1] \in AllNodes
    BY <1>2, <1>5, <1>11 DEF AllNodes, shows
  <2> QED
    BY <1>1, <1>3, <2>1 DEF NothingElse
<1>13. WalkTypes'
  <2>1. queue' \in Seq(Queued)
    BY <1>8, <1>9
  <2> QED
    BY <1>1, <1>2, <1>4, <1>12, <2>1 DEF WalkTypes, Nowhere
<1>14. InPlace'
  <2>1. \A x \in Entries(queue)' : /\ x.name \in Ball(x.level)
                                   /\ entry.level <= x.level /\ x.level <= entry.level + 1
    BY <1>1, <1>4, <1>7, <1>8, <1>9, <1>10 DEF InPlace
  <2>2. ~ answered
    BY <1>1, <1>4 DEF InPlace, Walking
  <2> QED
    BY <1>1, <1>2, <1>4, <1>6, <1>8, <1>9, <2>1, <2>2, BallKept DEF InPlace, Marks, IsWalk
<1>15. NothingElse'
  BY <1>1, <1>2, <1>4, <1>12, BallKept DEF NothingElse
<1>16. LimitsKept' /\ MarkedInTime' /\ DepthReached'
  BY <1>2 DEF LimitsKept, MarkedInTime, DepthReached, Marks, IsWalk
<1>17. CallsInTime'
  <2>1. /\ ~ cut /\ Start \in Seen /\ visited \subseteq Ball(query.depth)
        /\ \A n \in visited : Known(n) => n \in nodes
        /\ Ball(entry.level) \intersect Ball(query.depth) \subseteq Seen
        /\ \A n \in (Seen \ visited) \intersect Ball(query.depth) :
              \E x \in Entries(queue) : x.name = n /\ Exact(n, x.level)
        /\ \A n \in visited : n = entry.name \/ \A c \in CallsLeft(n) : Followed(c, n)
        /\ entry.name \in visited
        /\ entry.name = Start <=> entry.level = 0
        /\ \A c \in LinksOf(entry) \ todo : Followed(c, entry.name)
    BY <1>1, <1>2, <1>4, <1>6 DEF CallsInTime
  <2>2. Seen \subseteq Seen' /\ Seen' \subseteq Seen \union {e[2]}
        /\ (queues => e[2] \in Seen') /\ (~ queues => Seen' = Seen)
    BY <1>2, <1>8, <1>9, <1>10 DEF Seen
  <2>3. \A c, n : Followed(c, n) => Followed(c, n)'
    BY <1>2, <1>12, <2>2, BallKept DEF Followed
  <2>4. Followed(e, entry.name)'
    <3>1. e[1] = entry.name /\ Fits(e[2]) /\ e[2] \in Ball(query.depth) => e[2] \in Seen'
      BY <2>2 DEF queues, Seen
    <3>2. entry.name = Start /\ e[2] = entry.name /\ Known(e[1]) => e[1] \in nodes'
      BY <1>3, <2>1 DEF shows
    <3> QED
      BY <1>2, <3>1, <3>2, BallKept DEF Followed
  <2>5. ASSUME NEW n \in (Seen' \ visited) \intersect Ball(query.depth)
        PROVE  \E x \in Entries(queue)' : x.name = n /\ Exact(n, x.level)
    <3>1. CASE n \in Seen
      BY <1>8, <1>9, <2>1, <2>5, <3>1
    <3>2. CASE n \notin Seen
      <4> DEFINE k == entry.level + 1
      <4>1. n = e[2] /\ queues /\ n \in Ball(k) /\ k - 1 = entry.level
        BY <1>4, <1>9, <2>2, <2>5, <3>2
      <4>2. n \notin Ball(entry.level)
        BY <2>1, <2>5, <3>2
      <4>3. found.level = k
        BY <1>10
      <4> HIDE DEF k
      <4>4. Exact(n, k)
        BY <4>1, <4>2 DEF Exact
      <4> QED
        BY <1>9, <1>10, <4>1, <4>3, <4>4
    <3> QED
      BY <3>1, <3>2
  <2>6. \A n, k : Exact(n, k)' <=> Exact(n, k)
    BY <1>2, BallKept DEF Exact
  <2>7. \A n : CallsLeft(n)' = CallsLeft(n)
    BY <1>2, BallKept DEF CallsLeft
  <2>8. \A c \in LinksOf(entry) \ todo' : Followed(c, entry.name)'
    BY <1>2, <2>1, <2>3, <2>4
  <2>9. Ball(Front)' = Ball(entry.level) /\ Ball(query.depth)' = Ball(query.depth)
    BY <1>2, <1>6, BallKept
  <2>10. \A n \in visited : n = entry.name \/ \A c \in CallsLeft(n) : Followed(c, n)'
    BY <2>1, <2>3
  <2>11. \A n \in visited : Known(n) => n \in nodes'
    BY <1>12, <2>1
  <2> QED
    BY <1>2, <1>6, <2>1, <2>2, <2>5, <2>6, <2>7, <2>8, <2>9, <2>10, <2>11, BallKept
       DEF CallsInTime
<1> QED
  BY <1>13, <1>14, <1>15, <1>16, <1>17 DEF WalkInv

\* What the caps leave of a link of traceGraph: its other end, if that is new and if
\* there is room.
LEMMA FreshIsOther ==
    ASSUME NEW e, entry.name \in visited, {e[1], e[2]} = {entry.name, Other(e)}
    PROVE  Fresh(e) = IF Other(e) \in visited THEN <<>> ELSE <<Other(e)>>
<1>1. CASE e[2] = entry.name
  <2>1. Other(e) = e[1] /\ e[2] \in visited
    BY <1>1 DEF Other
  <2>2. CASE e[1] \in visited
    <3>1. Fresh(e) = <<>> \o <<>>
      BY <2>1, <2>2 DEF Fresh
    <3> QED
      BY <2>1, <2>2, <3>1
  <2>3. CASE e[1] \notin visited
    <3>1. Fresh(e) = <<e[1]>> \o <<>>
      BY <2>1, <2>3 DEF Fresh
    <3>2. <<e[1]>> \o <<>> = <<e[1]>>
      OBVIOUS
    <3> QED
      BY <2>1, <2>3, <3>1, <3>2
  <2> QED
    BY <2>2, <2>3
<1>2. CASE e[2] # entry.name
  <2>1. Other(e) = e[2] /\ e[1] = entry.name /\ e[1] \in visited
    BY <1>2 DEF Other
  <2>2. CASE e[2] \in visited
    <3>1. Fresh(e) = <<>> \o <<>>
      BY <2>1, <2>2 DEF Fresh
    <3> QED
      BY <2>1, <2>2, <3>1
  <2>3. CASE e[2] \notin visited
    <3>1. Fresh(e) = <<>> \o <<e[2]>>
      BY <1>2, <2>1, <2>3 DEF Fresh
    <3>2. <<>> \o <<e[2]>> = <<e[2]>>
      OBVIOUS
    <3> QED
      BY <2>1, <2>3, <3>1, <3>2
  <2> QED
    BY <2>2, <2>3
<1> QED
  BY <1>1, <1>2

LEMMA TakeNone ==
    ASSUME NEW q \in Seq(Queued)
    PROVE  Enqueue(q, <<>>) = q
<1>1. q \o <<>> = q
  OBVIOUS
<1> QED
  BY <1>1 DEF Enqueue

LEMMA TakeOne ==
    ASSUME NEW n \in Name, NEW k
    PROVE  /\ SubSeq(<<n>>, 1, 1) = <<n>> /\ SubSeq(<<n>>, 1, 0) = <<>> /\ <<n>> # <<>>
           /\ \A taken : taken = <<n>> =>
                 /\ {taken[i] : i \in 1..Len(taken)} = {n}
                 /\ [i \in 1..Len(taken) |-> [name |-> taken[i], level |-> k]]
                       = <<[name |-> n, level |-> k]>>
<1>1. <<n>> \in Seq(Name) /\ Len(<<n>>) = 1 /\ <<n>>[1] = n
  OBVIOUS
<1>2. SubSeq(<<n>>, 1, Len(<<n>>)) = <<n>>
  BY <1>1, SubSeqFull
<1>3. SubSeq(<<n>>, 1, 0) = <<>> /\ <<n>> # <<>>
  OBVIOUS
<1>4. ASSUME NEW taken, taken = <<n>>
      PROVE  /\ {taken[i] : i \in 1..Len(taken)} = {n}
             /\ [i \in 1..Len(taken) |-> [name |-> taken[i], level |-> k]]
                   = <<[name |-> n, level |-> k]>>
  <2>1. Len(taken) = 1 /\ taken[1] = n
    BY <1>4
  <2>2. {taken[i] : i \in 1..Len(taken)} = {n}
    BY <2>1
  <2>3. [i \in 1..1 |-> [name |-> taken[i], level |-> k]] = <<[name |-> n, level |-> k]>>
    BY <1>4
  <2> QED
    BY <2>1, <2>2, <2>3
<1> QED
  BY <1>1, <1>2, <1>3, <1>4

LEMMA TraceTakes ==
    ASSUME WalkInv, NEW e \in todo, TraceLink(e),
           ~ (e \notin edges /\ Cardinality(edges) + 1 >= EdgeLimit)
    PROVE  /\ todo' = todo \ {e} /\ nodes' = visited'
           /\ \/ /\ e \in edges \/ Other(e) \in visited
                 /\ visited' = visited /\ queue' = queue /\ cut' = cut
              \/ /\ Other(e) \notin visited /\ Cardinality(visited) < NodeLimit
                 /\ visited' = visited \union {Other(e)} /\ cut' = cut
                 /\ queue' = Enqueue(queue, <<[name |-> Other(e), level |-> entry.level + 1]>>)
              \/ visited' = visited /\ queue' = queue /\ cut' = TRUE
<1> DEFINE n == Other(e)
           room == NodeLimit - Cardinality(visited)
           fresh == Fresh(e)
           taken == SubSeq(fresh, 1, IF Len(fresh) < room THEN Len(fresh) ELSE room)
           met == {taken[i] : i \in 1..Len(taken)}
           more == [i \in 1..Len(taken) |-> [name |-> taken[i], level |-> entry.level + 1]]
<1>1. /\ WalkTypes /\ LimitsKept
  BY DEF WalkInv
<1>2. /\ IsWalk("trace") /\ todo' = todo \ {e} /\ nodes' = visited'
      /\ visited' = IF e \in edges THEN visited ELSE visited \union met
      /\ queue' = IF e \in edges THEN queue ELSE Enqueue(queue, more)
      /\ cut' = (cut \/ (e \notin edges /\ taken # fresh))
  BY DEF TraceLink
<1>3. IsFiniteSet(visited) /\ Cardinality(visited) <= NodeLimit
      /\ Cardinality(visited) \in Nat /\ NodeLimit \in Nat /\ room \in Nat
  <2>1. IsFiniteSet(visited) /\ Cardinality(visited) <= NodeLimit /\ NodeLimit \in Nat
    BY <1>1, <1>2, WalkAssumption DEF LimitsKept, Marks, IsWalk, WalkAssumption
  <2>2. Cardinality(visited) \in Nat
    BY <2>1, FS_CardinalityType
  <2> QED
    BY <2>1, <2>2
<1>4. fresh = IF n \in visited THEN <<>> ELSE <<n>>
  <2>1. Looking /\ {e[1], e[2]} = {entry.name, n}
    BY LinkAllowed
  <2>2. entry.name \in visited
    BY <1>1, <1>2, <2>1 DEF LimitsKept
  <2> QED
    BY <2>1, <2>2, FreshIsOther
<1>5. queue \in Seq(Queued) /\ cut \in BOOLEAN
  BY <1>1 DEF WalkTypes
<1>6. CASE e \in edges
  <2>1. (cut \/ (e \notin edges /\ taken # fresh)) = cut
    BY <1>5, <1>6
  <2> QED
    BY <1>2, <1>6, <2>1
<1> HIDE DEF n
<1>7. CASE e \notin edges /\ n \in visited
  <2>1. fresh = <<>>
    BY <1>4, <1>7
  <2>2. taken = <<>> /\ Len(taken) = 0
    <3>1. Len(fresh) = 0
      BY <2>1
    <3> QED
      BY <1>3, <2>1, <3>1
  <2> HIDE DEF taken, fresh
  <2>0. Len(taken) = 0
    BY <2>2
  <2>3. met = {} /\ Enqueue(queue, more) = queue
    <3>1. met = {}
      BY <2>0
    <3>2. more = <<>>
      BY <2>0
    <3> HIDE DEF more
    <3> QED
      BY <1>5, <3>1, <3>2, TakeNone
  <2>4. visited' = visited
    BY <1>2, <1>7, <2>3
  <2>5. cut' = cut
    BY <1>2, <1>5, <2>1, <2>2
  <2>6. queue' = queue
    BY <1>2, <1>7, <2>3
  <2> QED
    BY <1>2, <1>7, <2>4, <2>5, <2>6 DEF n
<1>8. CASE e \notin edges /\ n \notin visited /\ room > 0
  <2>1. fresh = <<n>> /\ Len(fresh) = 1
    BY <1>4, <1>8
  <2>2. n \in Name
    BY LinkAllowed DEF n
  <2>3. taken = <<n>>
    <3>1. SubSeq(<<n>>, 1, 1) = <<n>>
      BY <2>2, TakeOne
    <3>2. (IF Len(fresh) < room THEN Len(fresh) ELSE room) = 1
      BY <1>3, <1>8, <2>1
    <3> QED
      BY <2>1, <3>1, <3>2
  <2> HIDE DEF taken, fresh, room
  <2>4. met = {n} /\ more = <<[name |-> n, level |-> entry.level + 1]>>
    BY <2>2, <2>3, TakeOne
  <2> HIDE DEF met, more
  <2>5. visited' = visited \union {n}
    BY <1>2, <1>8, <2>4
  <2>6. cut' = cut
    BY <1>2, <1>5, <2>1, <2>3
  <2>7. queue' = Enqueue(queue, <<[name |-> n, level |-> entry.level + 1]>>)
    BY <1>2, <1>8, <2>4
  <2>8. Cardinality(visited) < NodeLimit
    BY <1>3, <1>8 DEF room
  <2> QED
    BY <1>2, <1>8, <2>5, <2>6, <2>7, <2>8 DEF n
<1>9. CASE e \notin edges /\ n \notin visited /\ room = 0
  <2>1. fresh = <<n>> /\ Len(fresh) = 1
    BY <1>4, <1>9
  <2>2. n \in Name
    BY LinkAllowed DEF n
  <2>3. taken = <<>>
    <3>1. (IF Len(fresh) < room THEN Len(fresh) ELSE room) = 0
      BY <1>9, <2>1
    <3> QED
      BY <2>1, <2>2, <3>1, TakeOne
  <2> HIDE DEF taken, fresh, room
  <2>4. Len(taken) = 0 /\ taken # fresh
    BY <2>1, <2>2, <2>3, TakeOne
  <2>5. met = {} /\ Enqueue(queue, more) = queue
    <3>1. met = {}
      BY <2>4
    <3>2. more = <<>>
      BY <2>4
    <3> HIDE DEF more
    <3> QED
      BY <1>5, <3>1, <3>2, TakeNone
  <2> HIDE DEF met, more
  <2>6. visited' = visited
    BY <1>2, <1>9, <2>5
  <2>7. cut' = TRUE
    BY <1>2, <1>9, <2>4
  <2>8. queue' = queue
    BY <1>2, <1>9, <2>5
  <2> QED
    BY <1>2, <2>6, <2>7, <2>8
<1>10. room = 0 \/ room > 0
  BY <1>3
<1> HIDE DEF room, fresh, taken, met, more
<1> QED
  BY <1>6, <1>7, <1>8, <1>9, <1>10

LEMMA TraceKeeps ==
    ASSUME WalkInv, NEW e \in todo, TraceLink(e), UNCHANGED <<queryVars, entry, answered>>
    PROVE  WalkInv'
<1> DEFINE n == Other(e)
           new == [name |-> n, level |-> entry.level + 1]
<1>1. /\ WalkTypes /\ InPlace /\ LimitsKept /\ MarkedInTime
  BY DEF WalkInv
<1>2. /\ UNCHANGED queryVars /\ query' = query /\ links' = links /\ defs' = defs
      /\ entry' = entry /\ answered' = answered /\ reached' = reached
      /\ IsWalk("trace") /\ Marks /\ ~ IsWalk("explore") /\ ~ IsWalk("callgraph")
      /\ edges' = edges \union {e}
  BY DEF TraceLink, queryVars, Marks, IsWalk
<1>3. /\ Looking /\ entry \in Queued /\ entry.level \in Nat /\ n \in Name
      /\ {e[1], e[2]} = {entry.name, n}
  BY LinkAllowed
<1>4. /\ IsFiniteSet(nodes) /\ Cardinality(nodes) <= NodeLimit /\ NodeLimit \in Nat
      /\ Cardinality(nodes) \in Nat /\ visited = nodes
      /\ IsFiniteSet(edges) /\ Cardinality(edges) < EdgeLimit /\ EdgeLimit \in Nat
      /\ Cardinality(edges) \in Nat
      /\ entry.name \in visited /\ \A x \in Entries(queue) : x.name \in visited
  <2>1. /\ IsFiniteSet(nodes) /\ Cardinality(nodes) <= NodeLimit /\ visited = nodes
        /\ IsFiniteSet(edges) /\ Cardinality(edges) < EdgeLimit
        /\ entry.name \in visited /\ \A x \in Entries(queue) : x.name \in visited
    BY <1>1, <1>2, <1>3 DEF LimitsKept
  <2>2. NodeLimit \in Nat /\ EdgeLimit \in Nat
    BY WalkAssumption DEF WalkAssumption
  <2> QED
    BY <2>1, <2>2, FS_CardinalityType
<1>5. /\ IsFiniteSet(edges') /\ Cardinality(edges') <= Cardinality(edges) + 1
      /\ Cardinality(edges') \in Nat
  <2> DEFINE more == edges \union {e}
  <2>0. IsFiniteSet(edges) /\ Cardinality(edges) \in Nat
    BY <1>4
  <2>1. IsFiniteSet(more) /\ Cardinality(more) <= Cardinality(edges) + 1
    BY <2>0, FS_AddElement
  <2>2. Cardinality(more) \in Nat
    BY <2>1, FS_CardinalityType
  <2> HIDE DEF more
  <2>3. edges' = more
    BY <1>2 DEF more
  <2> QED
    BY <2>1, <2>2, <2>3
<1>6. DepthReached' /\ CallsInTime'
  BY <1>2 DEF DepthReached, CallsInTime, IsWalk
<1>7. Looking' /\ visited \subseteq Name
  BY <1>1, <1>2, <1>3 DEF Looking, WalkTypes
<1>8. CASE e \notin edges /\ Cardinality(edges) + 1 >= EdgeLimit
  <2>1. todo' = {} /\ queue' = <<>> /\ cut' = TRUE /\ visited' = visited /\ nodes' = nodes
    BY <1>8 DEF TraceLink
  <2>2. CutAt(e)
    BY <1>2, <1>7, <2>1 DEF CutAt
  <2>3. /\ WalkTypes' /\ InPlace' /\ NothingElse'
        /\ MarkedInTime' /\ DepthReached' /\ CallsInTime'
    BY <1>2, <2>2, CutKeeps
  <2>4. Entries(queue)' = {}
    BY <2>1 DEF Entries
  <2>5. LimitsKept'
    BY <1>2, <1>4, <1>5, <2>1, <2>4 DEF LimitsKept, Marks, IsWalk
  <2> QED
    BY <2>3, <2>5 DEF WalkInv
<1>9. CASE ~ (e \notin edges /\ Cardinality(edges) + 1 >= EdgeLimit)
  <2>1. todo' = todo \ {e} /\ nodes' = visited'
    BY <1>9, TraceTakes
  <2>2. Cardinality(edges') < EdgeLimit
    <3>1. CASE e \in edges
      <4>1. edges' = edges
        BY <1>2, <3>1
      <4> QED
        BY <1>4, <4>1
    <3>2. CASE e \notin edges
      BY <1>4, <1>5, <1>9, <3>2
    <3> QED
      BY <3>1, <3>2
  <2>3. CASE /\ e \in edges \/ n \in visited
             /\ visited' = visited /\ queue' = queue /\ cut' = cut
    <3>1. cut \/ n \in nodes
      BY <1>1, <1>2, <1>3, <1>4, <2>3 DEF MarkedInTime
    <3>2. reached' \in Nat
      BY <1>1, <1>2 DEF WalkTypes
    <3>3. MarkIt(e)
      BY <1>2, <1>4, <2>1, <2>3, <3>1, <3>2 DEF MarkIt
    <3>4. WalkTypes' /\ InPlace' /\ NothingElse' /\ MarkedInTime'
      BY <1>2, <3>3, MarkKeeps
    <3>5. Entries(queue)' = Entries(queue)
      BY <2>3 DEF Entries
    <3>6. LimitsKept'
      BY <1>2, <1>4, <1>5, <2>1, <2>2, <2>3, <3>5 DEF LimitsKept, Marks, IsWalk
    <3> QED
      BY <1>6, <3>4, <3>6 DEF WalkInv
  <2>4. CASE /\ n \notin visited /\ Cardinality(visited) < NodeLimit
             /\ visited' = visited \union {n} /\ cut' = cut
             /\ queue' = Enqueue(queue, <<new>>)
    <3>1. reached' \in Nat
      BY <1>1, <1>2 DEF WalkTypes
    <3>2. MarkIt(e)
      BY <1>2, <1>4, <2>1, <2>4, <3>1 DEF MarkIt
    <3>3. WalkTypes' /\ InPlace' /\ NothingElse' /\ MarkedInTime'
      BY <1>2, <3>2, MarkKeeps
    <3>4. Entries(queue)' = Entries(queue) \union {new}
      <4>1. \A x \in Entries(queue) : entry.level <= x.level /\ x.level <= entry.level + 1
        BY <1>1, <1>3 DEF InPlace
      <4>2. Entries(queue') = Entries(queue) \union {new}
        BY <1>1, <1>3, <2>4, <4>1, AddAtEnd DEF WalkTypes, InPlace
      <4> QED
        BY <4>2 DEF Entries
    <3>5. new.name = n
      OBVIOUS
    <3> HIDE DEF new, n
    <3>6. \A x \in Entries(queue)' : x.name \in visited'
      BY <1>4, <2>4, <3>4, <3>5
    <3>7. IsFiniteSet(nodes') /\ Cardinality(nodes') <= NodeLimit
      <4> DEFINE more == nodes \union {n}
      <4>1. IsFiniteSet(more) /\ Cardinality(more) <= Cardinality(nodes) + 1
        BY <1>4, FS_AddElement
      <4>2. Cardinality(more) \in Nat
        BY <4>1, FS_CardinalityType
      <4> HIDE DEF more
      <4>3. nodes' = more
        BY <1>4, <2>1, <2>4 DEF more
      <4> QED
        BY <1>4, <2>4, <4>1, <4>2, <4>3
    <3>8. LimitsKept'
      BY <1>2, <1>4, <1>5, <2>1, <2>2, <2>4, <3>6, <3>7 DEF LimitsKept, Marks, IsWalk
    <3> QED
      BY <1>6, <3>3, <3>8 DEF WalkInv
  <2>5. CASE visited' = visited /\ queue' = queue /\ cut' = TRUE
    <3>1. CutAt(e)
      BY <1>2, <1>4, <1>7, <2>1, <2>5 DEF CutAt
    <3>2. /\ WalkTypes' /\ InPlace' /\ NothingElse'
          /\ MarkedInTime' /\ DepthReached' /\ CallsInTime'
      BY <1>2, <3>1, CutKeeps
    <3>3. Entries(queue)' = Entries(queue)
      BY <2>5 DEF Entries
    <3>4. LimitsKept'
      BY <1>2, <1>4, <1>5, <2>1, <2>2, <2>5, <3>3 DEF LimitsKept, Marks, IsWalk
    <3> QED
      BY <3>2, <3>4 DEF WalkInv
  <2> QED
    BY <1>9, <2>3, <2>4, <2>5, TraceTakes
<1> QED
  BY <1>8, <1>9

LEMMA WalkStep == WalkInv /\ [WalkNext]_walkVars => WalkInv'
<1> SUFFICES ASSUME WalkInv, [WalkNext]_walkVars
             PROVE  WalkInv'
  OBVIOUS
<1>1. CASE SkipEntry
  BY <1>1, SkipEntryKeeps
<1>2. CASE StopFull
  BY <1>2, StopKeeps
<1>3. CASE Look
  BY <1>3, LookKeeps
<1>4. CASE Follow
  <2>1. PICK e \in todo : ExploreLink(e) \/ CallLink(e) \/ TraceLink(e)
    BY <1>4 DEF Follow
  <2>2. UNCHANGED <<queryVars, entry, answered>>
    BY <1>4 DEF Follow
  <2>3. CASE ExploreLink(e)
    BY <2>2, <2>3, ExploreKeeps
  <2>4. CASE CallLink(e)
    BY <2>2, <2>4, CallKeeps
  <2>5. CASE TraceLink(e)
    BY <2>2, <2>5, TraceKeeps
  <2> QED
    BY <2>1, <2>3, <2>4, <2>5
<1>5. CASE Leave
  BY <1>5, LeaveEntryKeeps
<1>6. CASE Answer \/ UNCHANGED walkVars
  BY <1>6, AnswerKeeps
<1> QED
  BY <1>1, <1>2, <1>3, <1>4, <1>5, <1>6 DEF WalkNext

----------------------------------------------------------------------------
\* The end of a walk: level after level, all there is within its depth is found.
LEMMA AllMarked ==
    ASSUME WalkInv, Marks, ~ cut, answered
    PROVE  Ball(query.depth) \subseteq nodes /\ \A n \in Ball(query.depth - 1) : Walked(n)
<1>1. WalkTypes /\ InPlace /\ MarkedInTime
  BY DEF WalkInv
<1>2. query.depth \in Nat /\ query.depth - 1 \in Nat
  BY <1>1 DEF WalkTypes
<1>3. Entries(queue) = {} /\ ~ Looking
  BY <1>1, QueuedAre DEF InPlace, Walking
<1>4. /\ Start \in nodes
      /\ \A n \in nodes : Walked(n) \/ n \notin Ball(query.depth - 1)
  BY <1>1, <1>3 DEF MarkedInTime
<1> DEFINE Missed == {k \in 0..query.depth : ~ (Ball(k) \subseteq nodes)}
<1>5. Missed = {}
  <2> SUFFICES ASSUME Missed # {}
               PROVE  FALSE
    OBVIOUS
  <2>1. Missed \in SUBSET Nat
    OBVIOUS
  <2>2. PICK k \in Missed : \A j \in Missed : k <= j
    BY <2>1, Smallest
  <2>3. k # 0
    BY <1>4, <2>2, BallStart
  <2>4. k - 1 \in Nat /\ k - 1 < query.depth /\ k - 1 + 1 = k /\ k - 1 \in 0..query.depth
    BY <1>2, <2>2, <2>3
  <2>5. k - 1 \notin Missed
    BY <2>2, <2>4
  <2>6. Ball(k - 1) \subseteq nodes
    BY <2>4, <2>5
  <2> HIDE DEF Missed
  <2>7. Ball(k - 1 + 1) \subseteq nodes
    BY <1>1, <1>3, <1>4, <2>4, <2>6, NextLevel
  <2> QED
    BY <2>2, <2>4, <2>7 DEF Missed
<1>6. Ball(query.depth) \subseteq nodes
  BY <1>2, <1>5
<1>7. Ball(query.depth - 1) \subseteq Ball(query.depth)
  BY <1>2, BallGrows
<1> QED
  BY <1>4, <1>6, <1>7

LEMMA AllCalled ==
    ASSUME WalkInv, IsWalk("callgraph"), answered
    PROVE  /\ Ball(query.depth) \subseteq visited /\ Start \in visited
           /\ \A n \in visited : Known(n) => n \in nodes
           /\ \A n \in visited : \A e \in CallsLeft(n) : Followed(e, n)
<1>1. WalkTypes /\ InPlace /\ CallsInTime
  BY DEF WalkInv
<1>2. query.depth \in Nat
  BY <1>1 DEF WalkTypes
<1>3. Entries(queue) = {} /\ ~ Looking
  BY <1>1, QueuedAre DEF InPlace, Walking
<1>4. Seen = visited
  BY <1>3 DEF Seen
<1>5. /\ Start \in visited
      /\ \A n \in visited : Known(n) => n \in nodes
      /\ \A n \in visited : \A e \in CallsLeft(n) : Followed(e, n)
  BY <1>1, <1>3, <1>4 DEF CallsInTime
<1>6. \A n \in visited, e \in Called :
          e[1] = n /\ Fits(e[2]) /\ e[2] \in Ball(query.depth) => e[2] \in visited
  BY <1>4, <1>5 DEF CallsLeft, Followed
<1> DEFINE Missed == {k \in 0..query.depth : ~ (Ball(k) \intersect Ball(query.depth) \subseteq visited)}
<1>7. Missed = {}
  <2> SUFFICES ASSUME Missed # {}
               PROVE  FALSE
    OBVIOUS
  <2>1. Missed \in SUBSET Nat
    OBVIOUS
  <2>2. PICK k \in Missed : \A j \in Missed : k <= j
    BY <2>1, Smallest
  <2>3. k # 0
    BY <1>5, <2>2, BallStart
  <2>4. k - 1 \in Nat /\ k - 1 <= query.depth /\ k - 1 + 1 = k /\ k - 1 \in 0..query.depth
    BY <1>2, <2>2, <2>3
  <2>5. k - 1 \notin Missed
    BY <2>2, <2>4
  <2>6. Ball(k - 1) \intersect Ball(query.depth) \subseteq visited
    BY <2>4, <2>5
  <2> HIDE DEF Missed
  <2>7. /\ \A n \in (visited \ visited) \intersect Ball(query.depth) :
               \E x \in {} : x.name = n /\ Exact(n, x.level)
        /\ \A x \in {} : x.level \in Nat /\ k - 1 < x.level
    OBVIOUS
  <2>8. Ball(k - 1 + 1) \intersect Ball(query.depth) \subseteq visited
    BY <1>1, <1>6, <2>4, <2>6, <2>7, NextCalls
  <2> QED
    BY <2>2, <2>4, <2>8 DEF Missed
<1>8. Ball(query.depth) \subseteq visited
  BY <1>2, <1>7
<1> QED
  BY <1>5, <1>8

LEMMA WalkInvExact == WalkInv => WalkIsExact
<1> SUFFICES ASSUME WalkInv, answered
             PROVE  /\ nodes \subseteq AllNodes
                    /\ edges \subseteq AllEdges
                    /\ ~ IsWalk("callgraph") => Cardinality(nodes) <= NodeLimit
                    /\ IsWalk("trace") => Cardinality(edges) <= EdgeLimit
                    /\ ~ cut => /\ nodes = AllNodes
                                /\ edges = AllEdges
                                /\ IsWalk("explore") => reached = Farthest
  BY DEF WalkIsExact
<1>1. /\ WalkTypes /\ InPlace /\ NothingElse /\ LimitsKept
      /\ MarkedInTime /\ DepthReached /\ CallsInTime
  BY DEF WalkInv
<1>2. query.depth \in Nat
  BY <1>1 DEF WalkTypes
<1>3. nodes \subseteq AllNodes /\ edges \subseteq AllEdges
  BY <1>1 DEF NothingElse
<1>4. /\ ~ IsWalk("callgraph") => Cardinality(nodes) <= NodeLimit
      /\ IsWalk("trace") => Cardinality(edges) <= EdgeLimit
  BY <1>1 DEF LimitsKept, Marks
<1>5. ASSUME ~ cut, Marks
      PROVE  nodes = AllNodes /\ edges = AllEdges
  <2>1. Ball(query.depth) \subseteq nodes /\ \A n \in Ball(query.depth - 1) : Walked(n)
    BY <1>5, AllMarked
  <2>2. AllNodes \subseteq nodes
    BY <1>5, <2>1 DEF AllNodes, Marks
  <2>3. AllEdges = UNION {LinksFrom(n) : n \in Ball(query.depth - 1)}
    BY <1>5 DEF AllEdges, LinksFrom, Marks
  <2>4. \A n \in Ball(query.depth - 1) : LinksFrom(n) \subseteq edges
    BY <2>1 DEF Walked
  <2>5. AllEdges \subseteq edges
    BY <2>3, <2>4
  <2> QED
    BY <1>3, <2>2, <2>5
<1>6. ASSUME IsWalk("callgraph")
      PROVE  nodes = AllNodes /\ edges = AllEdges
  <2>1. /\ Ball(query.depth) \subseteq visited /\ Start \in visited
        /\ \A n \in visited : Known(n) => n \in nodes
        /\ \A n \in visited : \A e \in CallsLeft(n) : Followed(e, n)
    BY <1>6, AllCalled
  <2>2. \A e \in Called : e[2] = Start => e \in edges /\ (Known(e[1]) => e[1] \in nodes)
    BY <2>1 DEF CallsLeft, Followed
  <2>3. \A e \in Called : e[1] \in Ball(query.depth) => e \in edges
    BY <2>1 DEF CallsLeft, Followed
  <2>4. AllNodes \subseteq nodes
    BY <1>6, <2>1, <2>2 DEF AllNodes
  <2>5. AllEdges \subseteq edges
    BY <1>6, <2>2, <2>3 DEF AllEdges
  <2> QED
    BY <1>3, <2>4, <2>5
<1>7. ASSUME ~ cut, IsWalk("explore")
      PROVE  reached = Farthest
  <2>1. Marks
    BY <1>7 DEF Marks, IsWalk
  <2>2. nodes = Ball(query.depth)
    BY <1>5, <1>7, <2>1 DEF AllNodes, Marks
  <2>3. /\ reached \in 0..query.depth /\ nodes \subseteq Ball(reached)
        /\ reached > 0 => \E n \in nodes : n \notin Ball(reached - 1)
    BY <1>1, <1>2, <1>7 DEF DepthReached, WalkTypes
  <2>4. Ball(reached) = Ball(query.depth)
    <3>1. Ball(reached) \subseteq Ball(query.depth)
      BY <1>2, <2>3, BallGrows
    <3> QED
      BY <2>2, <2>3, <3>1
  <2>5. ASSUME NEW j \in 0..query.depth, Ball(j) = Ball(query.depth), j < reached
        PROVE  FALSE
    <3>1. reached > 0 /\ reached - 1 \in Nat /\ j <= reached - 1 /\ j \in Nat
      BY <1>2, <2>3, <2>5
    <3>2. Ball(j) \subseteq Ball(reached - 1)
      BY <3>1, BallGrows
    <3> QED
      BY <2>2, <2>3, <2>5, <3>1, <3>2
  <2> DEFINE Far(k) == /\ Ball(k) = Ball(query.depth)
                       /\ \A j \in 0..query.depth : Ball(j) = Ball(query.depth) => k <= j
  <2>6. Far(reached)
    BY <1>2, <2>3, <2>4, <2>5
  <2>7. \A k \in 0..query.depth : Far(k) => k = reached
    BY <1>2, <2>3, <2>6
  <2>8. Farthest = CHOOSE k \in 0..query.depth : Far(k)
    BY DEF Farthest
  <2> HIDE DEF Far
  <2> QED
    BY <2>3, <2>6, <2>7, <2>8
<1>8. Marks \/ IsWalk("callgraph")
  BY DEF Marks
<1> QED
  BY <1>3, <1>4, <1>5, <1>6, <1>7, <1>8

\* A walk that no limit stopped answers all there is within its depth and nothing else,
\* and one that a limit stopped some of it and no more than the limit, for graphs of any
\* size, any depth and any limits.
THEOREM WalkAlwaysExact == WalkSpec => []WalkIsExact
<1>1. WalkInit => WalkInv
  BY WalkInvInit
<1>2. WalkInv /\ [WalkNext]_walkVars => WalkInv'
  BY WalkStep
<1>3. WalkInv => WalkIsExact
  BY WalkInvExact
<1> QED
  BY <1>1, <1>2, <1>3, PTL DEF WalkSpec
================================================================================
