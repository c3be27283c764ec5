------------------------------ MODULE SymbolBackfill ------------------------------
(***************************************************************************)
(* Symbols of the artifacts a worktree shows: written by the worker with   *)
(* its commit, or afterwards by the runner that backfills what an older    *)
(* binary, or a failed extraction, left without (cmd/grepaid/daemon.go).   *)
(* One worktree per repository.                                            *)
(***************************************************************************)
EXTENDS Integers, FiniteSets

CONSTANTS
    Worktree, Path, Content,
    None,                  \* no file, no row, nothing
    MaxEdits, MaxRestarts  \* bounds of the model

VARIABLES
    files,      \* what each file holds
    shown,      \* worktree_files: the content whose artifact is shown
    symbols,    \* rows of current symbols: of which artifact, from which bytes
    attempted,  \* backfillRunner.attempted
    runner,     \* the backfill of each worktree: [at, missing, bytes]
    rewrites, restarts

symbolVars == <<files, shown, symbols, attempted, runner, rewrites, restarts>>
symbolBounds == <<rewrites, restarts>>

NoRunner == [at |-> "none", missing |-> {}, bytes |-> None]
Row(w, p, c, bytes) == [wt |-> w, path |-> p, of |-> c, from |-> bytes]

\* ArtifactSymbolsCurrent, ArtifactsMissingSymbols
Current(w, p, c) == \E s \in symbols : s.wt = w /\ s.path = p /\ s.of = c
Missing(w) == {p \in Path : shown[w][p] # None /\ ~ Current(w, p, shown[w][p])}

SymbolInit ==
    /\ files = [w \in Worktree |-> [p \in Path |-> CHOOSE c \in Content : TRUE]]
    /\ shown = files
    /\ symbols = {}
    /\ attempted = {}
    /\ runner = [w \in Worktree |-> NoRunner]
    /\ rewrites = 0
    /\ restarts = 0

ChangeFile(w, p, c) ==
    /\ rewrites < MaxEdits
    /\ c # files[w][p]
    /\ files' = [files EXCEPT ![w][p] = c]
    /\ rewrites' = rewrites + 1
    /\ UNCHANGED <<shown, symbols, attempted, runner, restarts>>

\* The worker commits the bytes it loaded; symbols that are not current are
\* extracted from them, and an extraction that fails leaves the artifact without.
Show(w, p) ==
    /\ files[w][p] # shown[w][p]
    /\ shown' = [shown EXCEPT ![w][p] = files[w][p]]
    /\ symbols' \in {symbols, symbols \union
            (IF files[w][p] = None \/ Current(w, p, files[w][p])
             THEN {} ELSE {Row(w, p, files[w][p], files[w][p])})}
    /\ UNCHANGED <<files, attempted, runner, symbolBounds>>

\* The same binary again, or one with a newer extractor.
RestartDaemon ==
    /\ restarts < MaxRestarts
    /\ restarts' = restarts + 1
    /\ symbols' \in {symbols, {}}
    /\ attempted' = {}
    /\ runner' = [w \in Worktree |-> NoRunner]
    /\ UNCHANGED <<files, shown, rewrites>>

----------------------------------------------------------------------------
\* Every registration attempts it, once per worktree and daemon; nothing
\* missing, or a listing that fails, ends the attempt.
Attempt(w) ==
    /\ w \notin attempted
    /\ attempted' = attempted \union {w}
    /\ \/ /\ Missing(w) # {}
          /\ runner' = [runner EXCEPT ![w] = [at |-> "waits",
                 missing |-> {<<p, shown[w][p]>> : p \in Missing(w)}, bytes |-> None]]
       \/ UNCHANGED runner
    /\ UNCHANGED <<files, shown, symbols, symbolBounds>>

Busy == {w \in Worktree : runner[w].at \in {"next", "loaded"}}

Acquire(w) ==
    /\ runner[w].at = "waits"
    /\ Busy = {}
    /\ runner' = [runner EXCEPT ![w].at = "next"]
    /\ UNCHANGED <<files, shown, symbols, attempted, symbolBounds>>

\* The loader refuses bytes that do not hash to the artifact's source.
AnyBytes(w, m) == files[w][m[1]] # None     \* a mutant: whatever is there
Verified(w, m) == files[w][m[1]] = m[2]

Load(w, m) ==
    /\ runner[w].at = "next"
    /\ m \in runner[w].missing
    /\ IF Verified(w, m)
       THEN runner' = [runner EXCEPT ![w] = [at |-> "loaded", missing |-> @.missing \ {m},
                                             bytes |-> <<m[1], m[2], files[w][m[1]]>>]]
       ELSE runner' = [runner EXCEPT ![w].missing = @ \ {m}]
    /\ UNCHANGED <<files, shown, symbols, attempted, symbolBounds>>

\* The rows of an artifact are replaced as a whole, or the write fails.
Replaced(w, b) ==
    {s \in symbols : ~ (s.wt = w /\ s.path = b[1] /\ s.of = b[2])} \union {Row(w, b[1], b[2], b[3])}

Store(w) ==
    /\ runner[w].at = "loaded"
    /\ symbols' \in {symbols, Replaced(w, runner[w].bytes)}
    /\ runner' = [runner EXCEPT ![w].at = "next", ![w].bytes = None]
    /\ UNCHANGED <<files, shown, attempted, symbolBounds>>

Finished(w) ==
    /\ runner[w].at = "next"
    /\ runner[w].missing = {}
    /\ runner' = [runner EXCEPT ![w] = NoRunner]
    /\ UNCHANGED <<files, shown, symbols, attempted, symbolBounds>>

SymbolNext ==
    \/ \E w \in Worktree, p \in Path, c \in Content \union {None} : ChangeFile(w, p, c)
    \/ \E w \in Worktree, p \in Path : Show(w, p)
    \/ RestartDaemon
    \/ \E w \in Worktree : Attempt(w)
    \/ \E w \in Worktree : Acquire(w)
    \/ \E w \in Worktree : \E m \in runner[w].missing : Load(w, m)
    \/ \E w \in Worktree : Store(w)
    \/ \E w \in Worktree : Finished(w)

SymbolSpec == SymbolInit /\ [][SymbolNext]_symbolVars

----------------------------------------------------------------------------
\* The symbols of an artifact are those of its own content, and it has them
\* once, although files change between the listing, the load and the write;
\* and one worktree at a time is backfilled.
\* (cmd/grepaid/daemon.go:502-556, runtime/runtime.go:71-85)
SymbolsAreTheArtifacts ==
    /\ \A s \in symbols : s.from = s.of
    /\ \A s, t \in symbols : s.wt = t.wt /\ s.path = t.path /\ s.of = t.of => s = t
    /\ Cardinality(Busy) <= 1
=============================================================================
