------------------------------ MODULE GraphQueries ------------------------------
(***************************************************************************)
(* The three breadth-first walks that answer graph queries: Explore over   *)
(* the RPG graph (rpg/query.go), GetCallGraph over the symbols of the      *)
(* first engine (trace/store.go) and traceGraph over the symbols of a      *)
(* worktree's view (enginev2/service/server.go).  The links to follow come *)
(* in any order; edges are kept as a set.                                  *)
(***************************************************************************)
EXTENDS Integers, Sequences, FiniteSets

CONSTANTS
    Name,        \* names of symbols, or node IDs
    Start,        \* where a walk starts
    LinkSets,    \* the graphs looked at: sets of pairs of names
    Definitions, \* how many definitions each name has, and so which nodes fit
    Declared,    \* names whose reference to themselves is their declaration
    MaxDepth,
    NodeLimit,   \* ExploreRequest.Limit, maxGraphSymbols
    EdgeLimit    \* maxGraphEdges

ASSUME WalkAssumption ==
    /\ Start \in Name
    /\ LinkSets \subseteq SUBSET (Name \X Name)
    /\ Definitions \subseteq [Name -> Nat]
    /\ MaxDepth \in Nat \ {0} /\ NodeLimit \in Nat \ {0} /\ EdgeLimit \in Nat \ {0}

VARIABLES
    query,    \* [walk, direction, depth]
    links,    \* the graph
    defs,     \* the definitions of each name
    queue,    \* entries [name, level] still to be looked at
    entry,    \* the entry looked at, level -1 if none
    todo,     \* its links still to be followed
    visited,
    nodes,
    edges,
    reached,  \* ExploreResult.Depth
    cut,      \* a limit stopped the walk
    answered

queryVars == <<query, links, defs>>
walkVars == <<query, links, defs, queue, entry, todo, visited, nodes, edges, reached, cut, answered>>

Nowhere == [name |-> Start, level |-> -1]
IsWalk(walk) == query.walk = walk

\* An RPG node exists and is of the kind asked for; a symbol is not ambiguous.
Fits(n) == defs[n] = 1
Known(n) == defs[n] > 0

\* isDeclarationSelfEdge
Called == {e \in links : ~ (e[1] = e[2] /\ e[1] \in Declared)}

Outgoing(n) == {e \in links : e[1] = n}
Incoming(n) == {e \in links : e[2] = n}

LinksOf(from) ==
    CASE IsWalk("callgraph") ->
            {e \in Called : e[1] = from.name \/ (from.level = 0 /\ e[2] = from.name)}
      [] query.direction = "forward" -> Outgoing(from.name)
      [] query.direction = "reverse" -> Incoming(from.name)
      [] OTHER -> Outgoing(from.name) \union Incoming(from.name)

WalkInit ==
    /\ query \in [walk : {"explore"}, direction : {"forward", "reverse", "both"}, depth : 1..MaxDepth]
                 \union [walk : {"callgraph", "trace"}, direction : {"both"}, depth : 1..MaxDepth]
    /\ links \in LinkSets
    /\ defs \in Definitions
    /\ IsWalk("explore") => Known(Start)
    /\ queue = <<[name |-> Start, level |-> 0]>>
    /\ entry = Nowhere
    /\ todo = {}
    /\ visited = IF IsWalk("callgraph") THEN {} ELSE {Start}
    /\ nodes = IF IsWalk("callgraph") THEN {} ELSE {Start}
    /\ edges = {}
    /\ reached = 0
    /\ cut = FALSE
    /\ answered = FALSE

----------------------------------------------------------------------------
EnqueueFirst(q, more) == more \o q     \* a mutant: depth first
Enqueue(q, more) == q \o more

\* The names of one link that a v2 walk has not met yet, caller first.
Fresh(e) ==
    (IF e[1] \in visited THEN <<>> ELSE <<e[1]>>)
        \o (IF e[2] \in visited \union {e[1]} THEN <<>> ELSE <<e[2]>>)

\* The entry at the head is dropped without looking at its links.
Passed(from) ==
    \/ IsWalk("callgraph") /\ (from.name \in visited \/ from.level > query.depth)
    \/ ~ IsWalk("callgraph") /\ from.level >= query.depth

Full == ~ IsWalk("callgraph") /\ Cardinality(nodes) >= NodeLimit

SkipEntry ==
    /\ entry = Nowhere
    /\ queue # <<>>
    /\ Passed(Head(queue))
    /\ queue' = Tail(queue)
    /\ UNCHANGED <<queryVars, entry, todo, visited, nodes, edges, reached, cut, answered>>

\* The limit is met before the entry is looked at.
StopFull ==
    /\ entry = Nowhere
    /\ queue # <<>>
    /\ ~ Passed(Head(queue))
    /\ Full
    /\ queue' = <<>>
    /\ cut' = TRUE
    /\ UNCHANGED <<queryVars, entry, todo, visited, nodes, edges, reached, answered>>

Look ==
    /\ entry = Nowhere
    /\ queue # <<>>
    /\ ~ Passed(Head(queue))
    /\ ~ Full
    /\ entry' = Head(queue)
    /\ queue' = Tail(queue)
    /\ todo' = LinksOf(Head(queue))
    /\ IF IsWalk("callgraph")
       THEN /\ visited' = visited \union {Head(queue).name}
            /\ nodes' = nodes \union {n \in {Head(queue).name} : Known(n)}
       ELSE UNCHANGED <<visited, nodes>>
    /\ UNCHANGED <<queryVars, edges, reached, cut, answered>>

\* Explore: a neighbour is marked whether it fits or not; the one that fills the
\* limit is added, but neither counts for the depth nor is walked from.
ExploreLink(e) ==
    LET n == IF e[2] = entry.name THEN e[1] ELSE e[2]
        added == nodes \union {n}
    IN  /\ IsWalk("explore")
        /\ edges' = edges \union {e}
        /\ visited' = visited \union {n}
        /\ IF n \in visited \/ ~ Fits(n)
           THEN /\ todo' = todo \ {e}
                /\ UNCHANGED <<queue, nodes, reached, cut>>
           ELSE /\ nodes' = added
                /\ IF Cardinality(added) >= NodeLimit
                   THEN /\ todo' = {}
                        /\ cut' = TRUE
                        /\ UNCHANGED <<queue, reached>>
                   ELSE /\ todo' = todo \ {e}
                        /\ reached' = entry.level + 1
                        /\ queue' = Enqueue(queue, <<[name |-> n, level |-> entry.level + 1]>>)
                        /\ UNCHANGED cut

\* GetCallGraph: callees that are not ambiguous are walked from; callers are
\* shown for the root only.
CallLink(e) ==
    /\ IsWalk("callgraph")
    /\ edges' = edges \union {e}
    /\ todo' = todo \ {e}
    /\ queue' = IF e[1] = entry.name /\ e[2] \notin visited /\ Fits(e[2])
                THEN Enqueue(queue, <<[name |-> e[2], level |-> entry.level + 1]>>) ELSE queue
    /\ nodes' = IF entry.level = 0 /\ e[2] = entry.name
                THEN nodes \union {n \in {e[1]} : Known(n)} ELSE nodes
    /\ UNCHANGED <<visited, reached, cut>>

\* traceGraph: both ends of a new edge are walked from at the next level, while
\* the caps allow; the edge that fills the cap ends the walk.
TraceLink(e) ==
    LET room == NodeLimit - Cardinality(visited)
        fresh == Fresh(e)
        taken == SubSeq(fresh, 1, IF Len(fresh) < room THEN Len(fresh) ELSE room)
        met == {taken[i] : i \in 1..Len(taken)}
    IN  /\ IsWalk("trace")
        /\ edges' = edges \union {e}
        /\ IF e \notin edges /\ Cardinality(edges) + 1 >= EdgeLimit
           THEN /\ todo' = {}
                /\ queue' = <<>>
                /\ cut' = TRUE
                /\ UNCHANGED <<visited, nodes>>
           ELSE /\ todo' = todo \ {e}
                /\ visited' = IF e \in edges THEN visited ELSE visited \union met
                /\ nodes' = visited'
                /\ queue' = IF e \in edges THEN queue
                            ELSE Enqueue(queue, [i \in 1..Len(taken) |->
                                     [name |-> taken[i], level |-> entry.level + 1]])
                /\ cut' = (cut \/ (e \notin edges /\ taken # fresh))
        /\ UNCHANGED reached

Follow ==
    /\ \E e \in todo : ExploreLink(e) \/ CallLink(e) \/ TraceLink(e)
    /\ UNCHANGED <<queryVars, entry, answered>>

Leave ==
    /\ entry # Nowhere
    /\ todo = {}
    /\ entry' = Nowhere
    /\ UNCHANGED <<queryVars, queue, todo, visited, nodes, edges, reached, cut, answered>>

Answer ==
    /\ entry = Nowhere
    /\ queue = <<>>
    /\ ~ answered
    /\ answered' = TRUE
    /\ UNCHANGED <<queryVars, queue, entry, todo, visited, nodes, edges, reached, cut>>

WalkNext == SkipEntry \/ StopFull \/ Look \/ Follow \/ Leave \/ Answer

WalkSpec == WalkInit /\ [][WalkNext]_walkVars

----------------------------------------------------------------------------
\* What the walks promise, defined without a queue: the names at most k links
\* away over names that may be walked from.
Reaches(m, n) ==
    CASE IsWalk("callgraph") -> <<m, n>> \in Called /\ Fits(n)
      [] IsWalk("trace") -> <<m, n>> \in links \/ <<n, m>> \in links
      [] OTHER -> /\ Fits(n)
                  /\ \/ query.direction # "reverse" /\ <<m, n>> \in links
                     \/ query.direction # "forward" /\ <<n, m>> \in links

Paths(k) == {path \in [0..k -> Name] :
    /\ path[0] = Start
    /\ \A i \in 1..k : path[i] = path[i - 1] \/ Reaches(path[i - 1], path[i])}
Ball(k) == {path[k] : path \in Paths(k)}

AllEdges ==
    IF IsWalk("callgraph")
    THEN {e \in Called : e[1] \in Ball(query.depth) \/ e[2] = Start}
    ELSE UNION {LinksOf([name |-> n, level |-> 0]) : n \in Ball(query.depth - 1)}

AllNodes ==
    IF IsWalk("callgraph")
    THEN {n \in Ball(query.depth) \union {e[1] : e \in {c \in Called : c[2] = Start}} : Known(n)}
    ELSE Ball(query.depth)

Farthest == CHOOSE k \in 0..query.depth :
    /\ Ball(k) = Ball(query.depth)
    /\ \A j \in 0..query.depth : Ball(j) = Ball(query.depth) => k <= j

\* A walk that no limit stopped answers exactly the nodes and edges within its
\* depth, whatever the order of the links and whichever path meets a node
\* first; one that a limit stopped answers some of them and at most the limit.
\* (rpg/query.go:275-392, trace/store.go:387-481, service/server.go:341-383)
WalkIsExact ==
    answered =>
        /\ nodes \subseteq AllNodes
        /\ edges \subseteq AllEdges
        /\ ~ IsWalk("callgraph") => Cardinality(nodes) <= NodeLimit
        /\ IsWalk("trace") => Cardinality(edges) <= EdgeLimit
        /\ ~ cut => /\ nodes = AllNodes
                    /\ edges = AllEdges
                    /\ IsWalk("explore") => reached = Farthest
=============================================================================
