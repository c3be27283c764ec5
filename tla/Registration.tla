----------------------------- MODULE Registration -----------------------------
(***************************************************************************)
(* How repositories enter a daemon: the start that rehydrates the registry *)
(* file, Register calls of clients, the set of open catalogs with its      *)
(* routes, the cursor that every reconcile stamps in the registry, and a   *)
(* shutdown that closes the set under calls that still run                 *)
(* (cmd/grepaid/daemon.go, enginev2/catalogset, enginev2/registry).        *)
(***************************************************************************)
EXTENDS Integers, FiniteSets

CONSTANTS
    Repo,
    Caller,      \* goroutines that register: connections of clients
    Startup,     \* the one that rehydrates
    Nobody,
    MaxStarts    \* bound of the model

ASSUME RegistrationAssumption == Nobody \notin Caller \cup {Startup}

VARIABLES
    daemon,      \* "down", "starts", "serves", "drained" or "closed"
    toStart,     \* entries the start has still to rehydrate
    call,        \* what each caller is at: [at, repo, reconciled]
    mutex,       \* registeringService.mu
    cats,        \* Set.cats
    bound,       \* Set.wtToR
    built,       \* BuilderRouter
    handles,     \* open handles of each repository's catalog
    memory,      \* registryManager.reg: [listed, cursor]
    registry,    \* registry.json
    watched,     \* loops of the watch manager
    indexed,     \* repositories whose view is not empty
    starts

regVars == <<daemon, toStart, call, mutex, cats, bound, built, handles, memory,
             registry, watched, indexed, starts>>
setVars == <<cats, bound, built, handles>>
listVars == <<memory, registry>>
hostVars == <<daemon, toStart, starts>>

NoCall == [at |-> "none", repo |-> Nobody, reconciled |-> FALSE]
Everybody == Caller \union {Startup}
Unlisted == [listed |-> FALSE, cursor |-> FALSE]
At(c, at) == call[c].at = at
Of(c) == call[c].repo
Goes(c, at) == call' = [call EXCEPT ![c].at = at]
Returns(c) == call' = [call EXCEPT ![c] = NoCall] /\ mutex' = Nobody

RegInit ==
    /\ daemon = "down"
    /\ toStart = {}
    /\ call = [c \in Everybody |-> NoCall]
    /\ mutex = Nobody
    /\ cats = {} /\ bound = {} /\ built = {}
    /\ handles = [r \in Repo |-> 0]
    /\ memory = [r \in Repo |-> Unlisted]
    /\ registry = memory
    /\ watched = {}
    /\ indexed = {}
    /\ starts = 0

----------------------------------------------------------------------------
(* The registry: a cursor and a list, saved whole by rename or not at all. *)

Saved(entries) ==
    /\ memory' = entries
    /\ registry' \in {registry, entries}

\* registryManager.upsert keeps what the entry had; a mutant blanks it.
UpsertBlank(r) == Saved([memory EXCEPT ![r] = [listed |-> TRUE, cursor |-> FALSE]])
Upsert(r) == Saved([memory EXCEPT ![r].listed = TRUE])

\* touchReconcile finds no entry before the first registration is through.
Touch(r) ==
    IF memory[r].listed THEN Saved([memory EXCEPT ![r].cursor = TRUE]) ELSE UNCHANGED listVars

----------------------------------------------------------------------------
(* Register, serialized by its mutex.                                      *)

\* The start registers one entry after the other, or skips it (its root is
\* gone); clients come once the daemon serves.
Rehydrate ==
    /\ daemon = "starts"
    /\ At(Startup, "none")
    /\ \E r \in toStart :
          /\ toStart' = toStart \ {r}
          /\ \/ call' = [call EXCEPT ![Startup] = [at |-> "lock", repo |-> r, reconciled |-> FALSE]]
             \/ UNCHANGED call
    /\ UNCHANGED <<daemon, starts, mutex, setVars, listVars, watched, indexed>>

Serve ==
    /\ daemon = "starts"
    /\ toStart = {}
    /\ At(Startup, "none")
    /\ daemon' = "serves"
    /\ UNCHANGED <<toStart, starts, call, mutex, setVars, listVars, watched, indexed>>

Ask(c, r) ==
    /\ daemon = "serves"
    /\ c \in Caller
    /\ At(c, "none")
    /\ call' = [call EXCEPT ![c] = [at |-> "lock", repo |-> r, reconciled |-> FALSE]]
    /\ UNCHANGED <<hostVars, mutex, setVars, listVars, watched, indexed>>

Lock(c) ==
    /\ At(c, "lock")
    /\ mutex = Nobody
    /\ mutex' = c
    /\ Goes(c, "check")
    /\ UNCHANGED <<hostVars, setVars, listVars, watched, indexed>>

IsClosed == daemon = "closed"

\* Set.Add: a closed set, or a catalog that does not open, ends the call.
OpenCatalog(c) ==
    /\ At(c, "check")
    /\ \/ /\ ~ IsClosed
          /\ handles' = [handles EXCEPT ![Of(c)] = @ + 1]
          /\ Goes(c, "opened")
          /\ UNCHANGED mutex
       \/ /\ Returns(c)
          /\ UNCHANGED handles
    /\ UNCHANGED <<hostVars, cats, bound, built, listVars, watched, indexed>>

\* Under the set's lock: closed meanwhile, registered already, or the first.
\* A schema this binary does not know is refused before.
Dropped(r) == handles' = [handles EXCEPT ![r] = @ - 1]

Add(c) ==
    /\ At(c, "opened")
    /\ \/ /\ Dropped(Of(c))
          /\ Returns(c)
          /\ UNCHANGED cats
       \/ /\ ~ IsClosed
          /\ Of(c) \in cats
          /\ Dropped(Of(c))
          /\ Goes(c, "added")
          /\ UNCHANGED <<cats, mutex>>
       \/ /\ ~ IsClosed
          /\ Of(c) \notin cats
          /\ cats' = cats \union {Of(c)}
          /\ Goes(c, "added")
          /\ UNCHANGED <<handles, mutex>>
    /\ UNCHANGED <<hostVars, bound, built, listVars, watched, indexed>>

\* The builder needs the catalog's chunk cache.
Build(c) ==
    /\ At(c, "added")
    /\ IF Of(c) \in cats
       THEN /\ built' = built \union {Of(c)}
            /\ Goes(c, "built")
            /\ UNCHANGED mutex
       ELSE /\ Returns(c)
            /\ UNCHANGED built
    /\ UNCHANGED <<hostVars, cats, bound, handles, listVars, watched, indexed>>

\* Repository, generation and worktree rows, then the route of the worktree;
\* any of them fails on a closed catalog.
Bind(c) ==
    /\ At(c, "built")
    /\ \/ /\ Of(c) \in cats
          /\ bound' = bound \union {Of(c)}
          /\ Goes(c, "bound")
          /\ UNCHANGED mutex
       \/ /\ Returns(c)
          /\ UNCHANGED bound
    /\ UNCHANGED <<hostVars, cats, built, handles, listVars, watched, indexed>>

\* The roll and, if the view is empty, the initial reconcile.
FirstPass(c) ==
    /\ At(c, "bound")
    /\ \/ /\ Of(c) \in cats
          /\ Of(c) \notin indexed
          /\ call' = [call EXCEPT ![c].at = "planned", ![c].reconciled = TRUE]
          /\ Touch(Of(c))
          /\ UNCHANGED mutex
       \/ /\ Of(c) \in cats
          /\ Of(c) \in indexed
          /\ Goes(c, "planned")
          /\ UNCHANGED <<listVars, mutex>>
       \/ /\ Returns(c)
          /\ UNCHANGED listVars
    /\ UNCHANGED <<hostVars, setVars, watched, indexed>>

List(c) ==
    /\ At(c, "planned")
    /\ Upsert(Of(c))
    /\ Goes(c, "listed")
    /\ UNCHANGED <<hostVars, mutex, setVars, watched, indexed>>

StampReconcile(c) ==
    /\ At(c, "listed")
    /\ Goes(c, "stamped")
    /\ IF call[c].reconciled THEN Touch(Of(c)) ELSE UNCHANGED listVars
    /\ UNCHANGED <<hostVars, mutex, setVars, watched, indexed>>

\* The watcher's manager refuses once it is closed.
Hook(c) ==
    /\ At(c, "stamped")
    /\ Returns(c)
    /\ watched' = IF daemon \in {"starts", "serves"} THEN watched \union {Of(c)} ELSE watched
    /\ UNCHANGED <<hostVars, setVars, listVars, indexed>>

----------------------------------------------------------------------------
(* The rest of the daemon.                                                 *)

\* A watch loop, or a client's Reconcile.
Reconciled(r) ==
    /\ r \in bound \intersect cats
    /\ Touch(r)
    /\ UNCHANGED <<hostVars, call, mutex, setVars, watched, indexed>>

\* The worker finds catalog, root and builder of a job by the routes.
Commits(r) ==
    /\ r \in bound \intersect cats \intersect built
    /\ indexed' \in {indexed \union {r}, indexed \ {r}}
    /\ indexed' # indexed
    /\ UNCHANGED <<hostVars, call, mutex, setVars, listVars, watched>>

Begin ==
    /\ daemon = "down"
    /\ starts < MaxStarts
    /\ starts' = starts + 1
    /\ daemon' = "starts"
    /\ memory' = registry
    /\ toStart' = {r \in Repo : registry[r].listed}
    /\ UNCHANGED <<call, mutex, setVars, registry, watched, indexed>>

\* After the drain, or its 30 s, the watchers end, then the set is closed.
Drain ==
    /\ daemon = "serves"
    /\ daemon' = "drained"
    /\ watched' = {}
    /\ UNCHANGED <<toStart, starts, call, mutex, setVars, listVars, indexed>>

CloseSet ==
    /\ daemon = "drained"
    /\ daemon' = "closed"
    /\ handles' = [r \in Repo |-> IF r \in cats THEN handles[r] - 1 ELSE handles[r]]
    /\ cats' = {}
    /\ UNCHANGED <<toStart, starts, call, mutex, bound, built, listVars, watched, indexed>>

\* The process ends, whatever it was at.
End ==
    /\ daemon # "down"
    /\ daemon' = "down"
    /\ toStart' = {}
    /\ call' = [c \in Everybody |-> NoCall]
    /\ mutex' = Nobody
    /\ cats' = {} /\ bound' = {} /\ built' = {}
    /\ handles' = [r \in Repo |-> 0]
    /\ watched' = {}
    /\ UNCHANGED <<starts, listVars, indexed>>

Registers(c) ==
    \/ Lock(c)
    \/ OpenCatalog(c)
    \/ Add(c)
    \/ Build(c)
    \/ Bind(c)
    \/ FirstPass(c)
    \/ List(c)
    \/ StampReconcile(c)
    \/ Hook(c)

RegNext ==
    \/ Rehydrate \/ Serve
    \/ \E c \in Caller, r \in Repo : Ask(c, r)
    \/ \E c \in Everybody : Registers(c)
    \/ \E r \in Repo : Reconciled(r)
    \/ \E r \in Repo : Commits(r)
    \/ Begin \/ Drain \/ CloseSet \/ End

RegSpec == RegInit /\ [][RegNext]_regVars

----------------------------------------------------------------------------
\* Nobody leaks a handle: the set holds one for each repository in it, a call
\* between Open and Add one more, and a closed set none, even when a call was
\* still running as it closed.  (catalogset/catalogset.go:67-117)
HandlesAreOwned ==
    /\ \A r \in Repo : handles[r] = Cardinality({c \in Everybody : At(c, "opened") /\ Of(c) = r})
                                    + Cardinality({r} \intersect cats)
    /\ IsClosed => cats = {}

\* A worktree the daemon can be asked about, or whose jobs it claims, has a
\* catalog and a builder, and one that is watched is known to the next start.
\* (cmd/grepaid/daemon.go:292-377)
RoutesAreComplete ==
    /\ bound \subseteq built
    /\ daemon \in {"starts", "serves", "drained"} => built \subseteq cats
    /\ \A r \in watched : memory[r].listed /\ r \in bound

\* The registry never forgets a repository, nor that it was reconciled,
\* whatever saves fail and wherever the daemon ends.
\* (cmd/grepaid/daemon.go:239-267, registry/registry.go:60-96)
KeepsListed ==
    \A r \in Repo : /\ registry[r].listed => registry'[r].listed
                   /\ registry[r].cursor => registry'[r].cursor

\* A registered repository has all it needs to be served, no handle leaks, and the
\* registry forgets nothing (cmd/grepaid/daemon.go, catalogset, registry).
RegistrationHolds ==
    /\ [](HandlesAreOwned /\ RoutesAreComplete)
    /\ [][KeepsListed]_regVars
=============================================================================
