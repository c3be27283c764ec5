------------------------------ MODULE ServiceReads ------------------------------
(***************************************************************************)
(* What clients of the daemon read while it works: `grepai watch` waiting  *)
(* for a fresh index (cli/daemongate.go), SearchAll and WaitFresh of the   *)
(* service (enginev2/service/server.go).  A read is a few statements; the  *)
(* daemon goes on between them.  One worktree per repository, and one      *)
(* client at a time.                                                       *)
(***************************************************************************)
EXTENDS Integers, FiniteSets

CONSTANTS
    ServedTree, ServedPath, ServedContent,   \* worktrees, their paths, contents of a file
    Gone,          \* no file, no row, nothing
    NoJob,
    Rank(_, _),   \* how a content of a worktree ranks for the query
    ResultLimit,   \* SearchRequest.Limit
    MaxTreeEdits, MaxDeadLetters   \* bounds of the model

ASSUME ReadAssumption ==
    /\ IsFiniteSet(ServedTree) /\ IsFiniteSet(ServedPath) /\ ServedContent # {}
    /\ \A w \in ServedTree, c \in ServedContent : Rank(w, c) \in Int
    /\ ResultLimit \in Nat \ {0} /\ MaxDeadLetters \in Nat
    /\ NoJob \notin ServedContent \cup {Gone}

VARIABLES
    tree,       \* the files
    view,       \* worktree_files: the content whose artifact is shown
    desired,    \* index_jobs: the content a queued job desires, Gone for a delete
    failed,     \* how many dead_letter_jobs each catalog has; a path may be there twice
    lastFailed, \* the paths whose last intent was dead-lettered
    ask,        \* the client's call
    treeEdits

readVars == <<tree, view, desired, failed, lastFailed, ask, treeEdits>>
queueVars == <<view, desired, failed, lastFailed>>

Idle == [op |-> "none"]
Pending(w) == {p \in ServedPath : desired[w][p] # NoJob}

ReadInit ==
    /\ tree = [w \in ServedTree |-> [p \in ServedPath |-> CHOOSE c \in ServedContent : TRUE]]
    /\ view \in {tree, [w \in ServedTree |-> [p \in ServedPath |-> Gone]]}
    /\ desired = [w \in ServedTree |-> [p \in ServedPath |-> NoJob]]
    /\ failed = [w \in ServedTree |-> 0]
    /\ lastFailed = [w \in ServedTree |-> {}]
    /\ ask = Idle
    /\ treeEdits = 0

----------------------------------------------------------------------------
(* The daemon and the tree, as IndexEngine has them in full.               *)

Edit(w, p, c) ==
    /\ treeEdits < MaxTreeEdits
    /\ c # tree[w][p]
    /\ tree' = [tree EXCEPT ![w][p] = c]
    /\ treeEdits' = treeEdits + 1
    /\ UNCHANGED <<queueVars, ask>>

Planned(w) == [p \in ServedPath |-> IF tree[w][p] # view[w][p] THEN tree[w][p] ELSE desired[w][p]]

PlanAll(w) ==
    /\ desired' = [desired EXCEPT ![w] = Planned(w)]
    /\ UNCHANGED <<view, failed, lastFailed>>

WatchLoop(w) == PlanAll(w) /\ UNCHANGED <<tree, ask, treeEdits>>

Commit(w, p) ==
    /\ desired[w][p] \in ServedContent
    /\ tree[w][p] = desired[w][p]
    /\ view' = [view EXCEPT ![w][p] = desired[w][p]]
    /\ desired' = [desired EXCEPT ![w][p] = NoJob]
    /\ lastFailed' = [lastFailed EXCEPT ![w] = @ \ {p}]
    /\ UNCHANGED <<tree, failed, ask, treeEdits>>

CommitGone(w, p) ==
    /\ desired[w][p] = Gone
    /\ view' = [view EXCEPT ![w][p] = Gone]
    /\ desired' = [desired EXCEPT ![w][p] = NoJob]
    /\ lastFailed' = [lastFailed EXCEPT ![w] = @ \ {p}]
    /\ UNCHANGED <<tree, failed, ask, treeEdits>>

\* The client that waits remembers which of its paths failed (a history).
Noticed(w, p) ==
    IF ask.op = "watch" /\ ask.at # "done" /\ ask.wt = w /\ p \in ask.queued
    THEN [ask EXCEPT !.lost = @ \union {p}] ELSE ask

DeadLetter(w, p) ==
    /\ desired[w][p] # NoJob
    /\ failed[w] < MaxDeadLetters
    /\ failed' = [failed EXCEPT ![w] = @ + 1]
    /\ lastFailed' = [lastFailed EXCEPT ![w] = @ \union {p}]
    /\ desired' = [desired EXCEPT ![w][p] = NoJob]
    /\ ask' = Noticed(w, p)
    /\ UNCHANGED <<tree, view, treeEdits>>

----------------------------------------------------------------------------
(* `grepai watch`: register, remember the host's dead letters, reconcile,  *)
(* ask for the status until nothing is pending.                            *)

\* Registering reconciles a worktree whose view is empty.
RegisterCall(w) ==
    IF \A p \in ServedPath : view[w][p] = Gone THEN PlanAll(w) ELSE UNCHANGED queueVars

Letters(readable) == UNION {{w} \X (1..failed[w]) : w \in readable}
Total(readable) == Cardinality(Letters(readable))

BeginWatch(w) ==
    /\ ask = Idle
    /\ RegisterCall(w)
    /\ ask' = [op |-> "watch", wt |-> w, at |-> "registered", baseline |-> 0,
               queued |-> {}, lost |-> {}, skipped |-> FALSE, warned |-> FALSE]
    /\ UNCHANGED <<tree, treeEdits>>

Watching(at) == ask.op = "watch" /\ ask.at = at

\* DeadLetterCount leaves out the catalogs it cannot read.
Baseline ==
    /\ Watching("registered")
    /\ \E readable \in SUBSET ServedTree :
           ask' = [ask EXCEPT !.at = "counted", !.baseline = Total(readable),
                              !.skipped = readable # ServedTree]
    /\ UNCHANGED <<tree, queueVars, treeEdits>>

Explicit ==
    /\ Watching("counted")
    /\ PlanAll(ask.wt)
    /\ ask' = [ask EXCEPT !.at = "waits", !.queued = {p \in ServedPath : desired'[ask.wt][p] # NoJob}]
    /\ UNCHANGED <<tree, treeEdits>>

\* One Status call: the pending jobs first, the dead letters after.
SeesFresh ==
    /\ Watching("waits")
    /\ Pending(ask.wt) = {}
    /\ ask' = [ask EXCEPT !.at = "fresh"]
    /\ UNCHANGED <<tree, queueVars, treeEdits>>

OfThisTree(readable) == failed[ask.wt] - ask.baseline   \* a mutant: less than was counted before
SinceBaseline(readable) == Total(readable) - ask.baseline

CountsFailed ==
    /\ Watching("fresh")
    /\ \E readable \in SUBSET ServedTree :
           ask' = [ask EXCEPT !.at = "done", !.warned = SinceBaseline(readable) > 0,
                              !.skipped = @ \/ readable # ServedTree]
    /\ UNCHANGED <<tree, queueVars, treeEdits>>

----------------------------------------------------------------------------
(* SearchAll: the worktrees one after the other, each against its own view *)
(* at that moment; a failing one is skipped and named.                     *)

\* The sort's order and a limit: who ties is settled by path and by worktree,
\* here either way.
Best(n, hits) ==
    {top \in SUBSET hits :
        /\ Cardinality(top) = IF Cardinality(hits) < n THEN Cardinality(hits) ELSE n
        /\ \A h \in top, g \in hits \ top : Rank(g[1], g[3]) <= Rank(h[1], h[3])}

Hits(w) == {<<w, p, view[w][p]>> : p \in {q \in ServedPath : view[w][q] # Gone}}

BeginAll ==
    /\ ask = Idle
    /\ ask' = [op |-> "all", at |-> "reads", left |-> ServedTree, hits |-> {}, skipped |-> {},
               stale |-> {}, read |-> {}]
    /\ UNCHANGED <<tree, queueVars, treeEdits>>

AskingAll(at) == ask.op = "all" /\ ask.at = at

ReadOne(w) ==
    /\ AskingAll("reads")
    /\ w \in ask.left
    /\ \/ ask' = [ask EXCEPT !.left = @ \ {w}, !.skipped = @ \union {w}]
       \/ \E top \in Best(ResultLimit, Hits(w)) :
              ask' = [ask EXCEPT !.left = @ \ {w}, !.hits = @ \union top,
                                 !.read = @ \union Hits(w),
                                 !.stale = @ \union {v \in {w} : Pending(v) # {}}]
    /\ UNCHANGED <<tree, queueVars, treeEdits>>

Merge ==
    /\ AskingAll("reads")
    /\ ask.left = {}
    /\ \E top \in Best(ResultLimit, ask.hits) :
           ask' = [ask EXCEPT !.at = "done", !.hits = top]
    /\ UNCHANGED <<tree, queueVars, treeEdits>>

(* WaitFresh on every path of a worktree, and Search's freshness: one      *)
(* statement over the queue.                                               *)
WaitFresh(w) ==
    /\ ask = Idle
    /\ Pending(w) = {}
    /\ ask' = [op |-> "wait", wt |-> w, at |-> "done", current |->
                  {p \in ServedPath : ~ (p \in lastFailed[w] /\ view[w][p] # tree[w][p])}]
    /\ UNCHANGED <<tree, queueVars, treeEdits>>

Hear ==
    /\ ask # Idle
    /\ ask.at = "done"
    /\ ask' = Idle
    /\ UNCHANGED <<tree, queueVars, treeEdits>>

DaemonMoves ==
    \/ \E w \in ServedTree, p \in ServedPath, c \in ServedContent \union {Gone} : Edit(w, p, c)
    \/ \E w \in ServedTree : WatchLoop(w)
    \/ \E w \in ServedTree, p \in ServedPath : Commit(w, p)
    \/ \E w \in ServedTree, p \in ServedPath : CommitGone(w, p)
    \/ \E w \in ServedTree, p \in ServedPath : DeadLetter(w, p)
Asks ==
    \/ \E w \in ServedTree : BeginWatch(w)
    \/ Baseline \/ Explicit \/ SeesFresh \/ CountsFailed
    \/ BeginAll \/ (\E w \in ServedTree : ReadOne(w)) \/ Merge
    \/ (\E w \in ServedTree : WaitFresh(w))
    \/ Hear

ReadNext == DaemonMoves \/ Asks

ReadSpec == ReadInit /\ [][ReadNext]_readVars

----------------------------------------------------------------------------
\* `grepai watch` that ends with a fresh index has warned if a path it queued
\* was dead-lettered, unless a catalog of the host could not be counted.
\* (cli/daemongate.go:186-217)
FailuresAreReported ==
    Watching("done") /\ ask.lost # {} => ask.warned \/ ask.skipped

\* SearchAll answers the best of everything it read, up to the limit, nothing
\* of a worktree it could not read, and names those.
\* (service/server.go:192-254)
AnswersAreBest ==
    AskingAll("done") =>
        /\ ask.hits \subseteq ask.read
        /\ \A h \in ask.hits, g \in ask.read \ ask.hits :
               Rank(g[1], g[3]) <= Rank(h[1], h[3])
        /\ Cardinality(ask.hits) =
               IF Cardinality(ask.read) < ResultLimit THEN Cardinality(ask.read) ELSE ResultLimit
        /\ \A w \in ServedTree : w \in ask.skipped => \A h \in ask.hits : h[1] # w

\* A host-wide search and a one-shot watch say what failed, and the search answers
\* the best of the rest (service/server.go, cli/daemongate.go).
ReadsAreHonest == FailuresAreReported /\ AnswersAreBest
================================================================================
