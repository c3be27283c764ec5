-------------------------------- MODULE RpgGraph --------------------------------
(***************************************************************************)
(* The RPG graph and the steps that keep it up to date: what the encoder   *)
(* does to nodes and edges for a file event, for a file's chunks, for an   *)
(* incremental and a full refresh of the derived edges, and for a rebuild. *)
(*                                                                         *)
(* A node is <<kind, ...>>: <<"file", f>>, <<"symbol", f, n>>,             *)
(* <<"chunk", f, line>>, <<"area", a>>, <<"category", a, c>> or            *)
(* <<"subcategory", a, c, key>>.  An edge is <<from, type, to>>, but for   *)
(* semantic_sim, which is looked up both ways and kept as a pair.          *)
(***************************************************************************)
EXTENDS Integers, FiniteSets

CONSTANTS
    SourceFile,      \* the files that there may be
    Absent,          \* the content of a file that is not there
    Directory,       \* a file's directory
    ClassOf,         \* a file's <<area, category>>, which its path decides
    Stem,            \* the words of a file's name
    Words, Verb,     \* the feature words of a symbol's name, and the first of them
    Key,             \* the cluster key of a symbol's name, a number for its order
    Script,          \* per file: its possible contents
    DriftThreshold,  \* in thousandths
    MaxGraphChanges, \* bound on the changes of files
    EndLines         \* whether the extractor tells where a symbol ends

General == 0         \* the subcategory of files without symbols

\* A content: symbols [name, first, last], calls [from, to, line], chunks <<first, last>>.
ASSUME GraphAssumption ==
    /\ DriftThreshold \in 0..1000 /\ MaxGraphChanges \in Nat /\ EndLines \in BOOLEAN
    /\ \A f \in SourceFile : ClassOf[f] = <<ClassOf[f][1], ClassOf[f][2]>>
    /\ \A f \in SourceFile : Absent \notin Script[f]

VARIABLES
    contents,        \* the symbol and vector stores' view of a file
    graph,           \* nodes, spans of the symbol nodes, edges, similar pairs
    due,             \* the file event under way
    stale,           \* files to refresh the derived edges of
    hollow,          \* history: subcategories a rebuild made for no file
    ghosts,          \* history: files created again over one that had more symbols
    graphChanges,    \* what has happened, for the bound
    moved            \* history: names that have gained or lost a node since the
                     \* derived edges were last wired in full

graphVars == <<contents, graph, due, stale, hollow, ghosts, moved, graphChanges>>

NoEvent == [file |-> "none", type |-> "none", step |-> "none"]

(***************************************************************************)
(* Graph                                                                   *)
(***************************************************************************)

EmptyGraph == [nodes |-> {}, span |-> <<>>, edges |-> {}, similar |-> {}]

KindOf(node) == node[1]
FileKinds == {"file", "symbol", "chunk"}
FileNode(f) == <<"file", f>>
NodesOf(g, f) == {n \in g.nodes : KindOf(n) \in FileKinds /\ n[2] = f}
SymbolsOf(g, f) == {n \in NodesOf(g, f) : KindOf(n) = "symbol"}
AllSymbols(g) == {n \in g.nodes : KindOf(n) = "symbol"}

Edge(g, from, type, to) == <<from, type, to>> \in g.edges
AddEdges(g, es) == [g EXCEPT !.edges = @ \union es]
Children(g, n, type) == {m \in g.nodes : Edge(g, n, type, m)}
Parents(g, n) == {m \in g.nodes : Edge(g, m, "feature_parent", n)}

RemoveNodes(g, ns) ==
    [nodes |-> g.nodes \ ns,
     span |-> [n \in DOMAIN g.span \ ns |-> g.span[n]],
     edges |-> {e \in g.edges : e[1] \notin ns /\ e[3] \notin ns},
     similar |-> {pair \in g.similar : pair \intersect ns = {}}]

(***************************************************************************)
(* Hierarchy                                                               *)
(***************************************************************************)

Category(f) == <<"category", ClassOf[f][1], ClassOf[f][2]>>
Subcategory(f, key) == <<"subcategory", ClassOf[f][1], ClassOf[f][2], key>>

\* Where a category or a subcategory hangs.
HangsFrom(n) == IF KindOf(n) = "category" THEN <<"area", n[2]>> ELSE <<"category", n[2], n[3]>>

\* Nodes that are new, each with the edge from its parent; those that exist as they are.
EnsureChildren(g, ns) ==
    [g EXCEPT !.nodes = @ \union ns,
              !.edges = @ \union {<<HangsFrom(n), "feature_parent", n>> : n \in ns \ g.nodes}]

EnsureCategories(g, files) ==
    EnsureChildren([g EXCEPT !.nodes = @ \union {<<"area", ClassOf[f][1]>> : f \in files}],
                   {Category(f) : f \in files})

\* The most frequent key of the file's symbols, the first one of a tie.
SubcategoryByFrequency(g, f) ==
    LET count(k) == Cardinality({s \in SymbolsOf(g, f) : Key[s[3]] = k})
        keys == {Key[s[3]] : s \in SymbolsOf(g, f)}
    IN IF keys = {} THEN General
       ELSE CHOOSE k \in keys : \A other \in keys :
                \/ count(k) > count(other)
                \/ count(k) = count(other) /\ k <= other

Childless(g, ns) == {n \in ns \intersect g.nodes : Children(g, n, "feature_parent") = {}}
AboveAll(g, ns) == UNION {Parents(g, n) : n \in ns}

\* Of the given subcategories those without a child go, then what that leaves
\* childless above them, and above that: the hierarchy has three levels.
PruneOrphans(g, subcategories) ==
    LET subs  == Childless(g, subcategories)
        one   == RemoveNodes(g, subs)
        cats  == Childless(one, AboveAll(g, subs))
        two   == RemoveNodes(one, cats)
        areas == Childless(two, AboveAll(one, cats))
    IN RemoveNodes(two, areas)

\* A file's features are those of its symbols, or its name's.
FileWords(g, f) ==
    IF SymbolsOf(g, f) = {} THEN Stem[f] ELSE UNION {Words[s[3]] : s \in SymbolsOf(g, f)}

\* 1 - Jaccard, in thousandths and rounded.
Drift(old, new) ==
    LET all == Cardinality(old \union new)
        common == Cardinality(old \intersect new)
    IN CASE old = {} /\ new = {} -> 0
         [] old = {} \/ new = {} -> 1000
         [] OTHER -> (2000 * (all - common) + all) \div (2 * all)

PlaceFile(g, f, oldWords) ==
    LET parents == Parents(g, FileNode(f))
        classed == EnsureCategories(g, {f})
        sub == Subcategory(f, SubcategoryByFrequency(g, f))
        placed == EnsureChildren(classed, {sub})
        rerouted == [placed EXCEPT !.edges =
            {e \in @ : ~(e[2] = "feature_parent" /\ e[3] = FileNode(f))}
               \union {<<sub, "feature_parent", FileNode(f)>>}]
    IN IF parents # {} /\ Drift(oldWords, FileWords(g, f)) < DriftThreshold THEN classed
       ELSE PruneOrphans(rerouted, parents)

(***************************************************************************)
(* Evolver                                                                 *)
(***************************************************************************)

\* normalizeEndLine
LastLine(s) == IF EndLines /\ s.last >= s.first THEN s.last ELSE s.first

SymbolNode(f, s) == <<"symbol", f, s.name>>

Present(store) == {f \in SourceFile : store[f] # Absent}
SymbolsIn(store, f) == IF store[f] = Absent THEN {} ELSE store[f].symbols

\* The file nodes and their symbols; one symbol of each name.
AddSymbols(g, store, files) ==
    LET symbols(n) == {s \in SymbolsIn(store, n[2]) : s.name = n[3]}
        new == UNION {{SymbolNode(f, s) : s \in SymbolsIn(store, f)} : f \in files}
        spanOf(n) == LET s == CHOOSE s \in symbols(n) : TRUE IN <<s.first, LastLine(s)>>
    IN [nodes |-> g.nodes \union new \union {FileNode(f) : f \in files},
        span |-> [n \in DOMAIN g.span \union new |-> IF n \in new THEN spanOf(n) ELSE g.span[n]],
        edges |-> g.edges \union {<<FileNode(n[2]), "contains", n>> : n \in new},
        similar |-> g.similar]

Vanished(g, store, f) ==
    SymbolsOf(g, f) \ {SymbolNode(f, s) : s \in SymbolsIn(store, f)}

HandleAdd(g, store, f) == PlaceFile(AddSymbols(g, store, {f}), f, {})

ModifyKeepsVanished(g, store, f) ==                                    \* mutant
    PlaceFile(AddSymbols(g, store, {f}), f, FileWords(g, f))

HandleModify(g, store, f) ==
    PlaceFile(RemoveNodes(AddSymbols(g, store, {f}), Vanished(g, store, f)), f,
              FileWords(g, f))

HandleDelete(g, f) ==
    PruneOrphans(RemoveNodes(g, NodesOf(g, f)), Parents(g, FileNode(f)))

Overlaps(r1, r2) == r1[1] <= r2[2] /\ r2[1] <= r1[2]

LinkChunks(g, store, files) ==
    LET chunk(f, c) == <<"chunk", f, c[1]>>
        bare == RemoveNodes(g, {n \in g.nodes : KindOf(n) = "chunk" /\ n[2] \in files})
        over(s, f) == {c \in store[f].chunks : Overlaps(g.span[s], c)}
    IN [bare EXCEPT
          !.nodes = @ \union UNION {{chunk(f, c) : c \in store[f].chunks} : f \in files},
          !.edges = @ \union UNION {UNION {{<<s, "maps_to_chunk", chunk(f, c)>> : c \in over(s, f)}
                                              : s \in SymbolsOf(g, f)} : f \in files}]

(***************************************************************************)
(* Derived edges                                                           *)
(***************************************************************************)

DerivedTypes == {"invokes", "imports"}

\* findBestCalleeNode: a node in the caller's file, else in its directory, else any.
Candidates(g, f, name) ==
    LET named == {s \in AllSymbols(g) : s[3] = name}
        here == {s \in named : s[2] = f}
        near == {s \in named : Directory[s[2]] = Directory[f]}
    IN IF here # {} THEN here ELSE IF near # {} THEN near ELSE named

\* Of equally good nodes the one that comes first in the list of symbols, which
\* stands in map order after each RebuildIndexes: that of the file `first`.
BestCallee(g, f, name, first) ==
    LET good == Candidates(g, f, name)
    IN IF \E s \in good : s[2] = first THEN {s \in good : s[2] = first}
       ELSE IF good = {} THEN {} ELSE {CHOOSE s \in good : TRUE}

\* findSymbolNodeID: the call's line lies within the caller's node.
CallerNode(g, f, call) ==
    {s \in SymbolsOf(g, f) : s[3] = call.from
                             /\ g.span[s][1] <= call.line /\ call.line <= g.span[s][2]}

WireInvocations(g, store, changed, first) ==
    LET wired(f, call) == {p \in CallerNode(g, f, call) \X BestCallee(g, f, call.to, first) :
                              f \in changed \/ p[2][2] \in changed}
    IN AddEdges(g, UNION {UNION {{<<p[1], "invokes", p[2]>> : p \in wired(f, call)}
                                    : call \in store[f].calls} : f \in Present(store)})

WireImports(g, changed) ==
    AddEdges(g, {<<FileNode(e[1][2]), "imports", FileNode(e[3][2])>> :
        e \in {e \in g.edges : /\ e[2] = "invokes" /\ e[1][2] # e[3][2]
                               /\ {e[1][2], e[3][2]} \intersect changed # {}
                               /\ {FileNode(e[1][2]), FileNode(e[3][2])} \subseteq g.nodes}})

\* minFeatureSimilarity: Jaccard of at least one half.
Alike(s, t) ==
    /\ s[2] # t[2] /\ Verb[s[3]] = Verb[t[3]]
    /\ 2 * Cardinality(Words[s[3]] \intersect Words[t[3]])
         >= Cardinality(Words[s[3]] \union Words[t[3]])

WireFeatureSimilarity(g, changed) ==
    [g EXCEPT !.similar = @ \union {{p[1], p[2]} :
        p \in {p \in {s \in AllSymbols(g) : s[2] \in changed} \X AllSymbols(g) :
                  Alike(p[1], p[2])}}]

Callees(g, s) == Children(g, s, "invokes")

\* minCoCallerCoOccurrence: two callers in common, of which the incremental
\* refresh asks that one be affected by the changed files.
WireCoCallers(g, changed) ==
    LET callees == [s \in AllSymbols(g) |-> Callees(g, s)]
        coCalled(s, t) == {caller \in DOMAIN callees : {s, t} \subseteq callees[caller]}
        impacted(caller) ==
            caller[2] \in changed \/ \E s \in callees[caller] : s[2] \in changed
    IN [g EXCEPT !.similar = @ \union {{p[1], p[2]} :
           p \in {p \in AllSymbols(g) \X AllSymbols(g) :
                     /\ p[1][2] # p[2][2]
                     /\ LET callers == coCalled(p[1], p[2])
                        IN Cardinality(callers) >= 2 /\ \E c \in callers : impacted(c)}}]

\* What goes: the derived edges that touch a changed file.
WithoutDerived(g, changed) ==
    [g EXCEPT !.edges = {e \in @ : e[2] \notin DerivedTypes
                                   \/ (e[1][2] \notin changed /\ e[3][2] \notin changed)},
              !.similar = {pair \in @ : \A s \in pair : s[2] \notin changed}]

\* The order of the code: invocations, imports, features, co-callers.
RefreshDerivedEdges(g, store, changed, first) ==
    WireCoCallers(WireFeatureSimilarity(WireImports(
        WireInvocations(WithoutDerived(g, changed), store, changed, first),
        changed), changed), changed)

(***************************************************************************)
(* BuildFull                                                               *)
(***************************************************************************)

\* BuildHierarchy: subcategories for every cluster of a category, then the files.
ClusterKeys(g, f) ==
    LET fellows == {h \in SourceFile : FileNode(h) \in g.nodes /\ ClassOf[h] = ClassOf[f]}
        keys == UNION {{Key[s[3]] : s \in SymbolsOf(g, h)} : h \in fellows}
    IN IF keys = {} THEN {General} ELSE keys

BuildHierarchy(g) ==
    LET files == {f \in SourceFile : FileNode(f) \in g.nodes}
        home(f) == Subcategory(f, SubcategoryByFrequency(g, f))
        subs == {home(f) : f \in files}
                  \union UNION {{Subcategory(f, k) : k \in ClusterKeys(g, f)} : f \in files}
    IN AddEdges(EnsureChildren(EnsureCategories(g, files), subs),
                {<<home(f), "feature_parent", FileNode(f)>> : f \in files})

BuildFull(store, first) ==
    LET nodes == AddSymbols(EmptyGraph, store, Present(store))
        wired == RefreshDerivedEdges(nodes, store, SourceFile, first)
    IN BuildHierarchy(LinkChunks(wired, store, Present(store)))

\* What a session's start builds of each state of the stores.
AnyContent == (UNION {Script[f] : f \in SourceFile}) \union {Absent}
StoreStates == {c \in [SourceFile -> AnyContent] :
                  \A f \in SourceFile : c[f] \in Script[f] \union {Absent}}
Built == [c \in StoreStates |-> [first \in SourceFile |-> BuildFull(c, first)]]

Hollow(g) == {n \in g.nodes : KindOf(n) = "subcategory" /\ Children(g, n, "feature_parent") = {}}

(***************************************************************************)
(* Steps                                                                   *)
(***************************************************************************)

GraphInit ==
    /\ contents \in StoreStates /\ \E first \in SourceFile : graph = Built[contents][first]
    /\ due = NoEvent /\ stale = {}
    /\ hollow = Hollow(graph) /\ ghosts = {} /\ moved = {} /\ graphChanges = 0

\* The stores change first; a file that has not changed is skipped.
StoreFile(f, c, type) ==
    /\ due = NoEvent /\ c # contents[f]
    /\ graphChanges < MaxGraphChanges /\ graphChanges' = graphChanges + 1
    /\ contents' = [contents EXCEPT ![f] = c]
    /\ due' = [file |-> f, type |-> type, step |-> "apply"]
    /\ UNCHANGED <<graph, stale, hollow, ghosts, moved>>

\* HandleFileEvent, under the encoder's lock.
ApplyEvent ==
    /\ due.step = "apply"
    /\ LET f == due.file
       IN /\ graph' = CASE due.type = "create" -> HandleAdd(graph, contents, f)
                        [] due.type = "modify" -> HandleModify(graph, contents, f)
                        [] due.type = "delete" -> HandleDelete(graph, f)
          /\ ghosts' = IF due.type = "create"
                       THEN IF Vanished(graph, contents, f) = {} THEN ghosts ELSE ghosts \union {f}
                       ELSE ghosts \ {f}
          /\ due' = [due EXCEPT !.step = IF due.type = "delete" THEN "mark" ELSE "link"]
    /\ hollow' = hollow \intersect graph'.nodes
    /\ moved' = moved \union {s[3] : s \in (AllSymbols(graph) \ AllSymbols(graph'))
                                         \union (AllSymbols(graph') \ AllSymbols(graph))}
    /\ UNCHANGED <<contents, stale, graphChanges>>

LinkFile ==
    /\ due.step = "link"
    /\ graph' = LinkChunks(graph, contents, {due.file})
    /\ due' = [due EXCEPT !.step = "mark"]
    /\ UNCHANGED <<contents, stale, hollow, ghosts, moved, graphChanges>>

MarkStale ==
    /\ due.step = "mark"
    /\ stale' = stale \union {due.file} /\ due' = NoEvent
    /\ UNCHANGED <<contents, graph, hollow, ghosts, moved, graphChanges>>

\* The refresh loop's batch; it may come between two steps of an event.
RefreshIncremental(first) ==
    /\ stale # {} /\ stale' = {}
    /\ graph' = RefreshDerivedEdges(graph, contents, stale, first)
    /\ UNCHANGED <<contents, due, hollow, ghosts, moved, graphChanges>>

RefreshFull(first) ==
    /\ graph' = RefreshDerivedEdges(graph, contents, SourceFile, first)
    /\ stale' = {} /\ moved' = {}
    /\ UNCHANGED <<contents, due, hollow, ghosts, graphChanges>>

\* A session's start.
Rebuild(first) ==
    /\ due = NoEvent
    /\ graph' = Built[contents][first]
    /\ stale' = {} /\ hollow' = Hollow(graph') /\ ghosts' = {} /\ moved' = {}
    /\ UNCHANGED <<contents, due, graphChanges>>

GraphNext ==
    \/ \E f \in SourceFile :
          \/ \E c \in Script[f], type \in {"create", "modify"} : StoreFile(f, c, type)
          \/ StoreFile(f, Absent, "delete")
    \/ ApplyEvent \/ LinkFile \/ MarkStale
    \/ \E first \in SourceFile : RefreshIncremental(first) \/ RefreshFull(first) \/ Rebuild(first)

GraphSpec == GraphInit /\ [][GraphNext]_graphVars

(***************************************************************************)
(* Properties                                                              *)
(***************************************************************************)

\* Nothing dangles; every file hangs from one subcategory of the category its
\* path names, under that category's area; a hierarchy node without a child is
\* one a rebuild left, so pruning has taken the others, all the way up.
HierarchyWellFormed ==
    /\ \A e \in graph.edges : e[1] \in graph.nodes /\ e[3] \in graph.nodes
    /\ UNION graph.similar \subseteq graph.nodes
    /\ \A f \in SourceFile : FileNode(f) \in graph.nodes =>
          \E sub \in graph.nodes :
             /\ Parents(graph, FileNode(f)) = {sub}
             /\ KindOf(sub) = "subcategory" /\ <<sub[2], sub[3]>> = ClassOf[f]
             /\ Parents(graph, sub) = {<<"category", sub[2], sub[3]>>}
             /\ Parents(graph, <<"category", sub[2], sub[3]>>) = {<<"area", sub[2]>>}
    /\ \A n \in graph.nodes :
          KindOf(n) \in {"area", "category", "subcategory"} /\ Children(graph, n, "feature_parent") = {}
             => n \in hollow

Quiet == due = NoEvent /\ stale = {}

\* Once the events and the refresh are through, the graph's symbols, with their
\* lines, and chunks are those of the stores: every event took what vanished.
\* (A create over a file that was there keeps its old symbols.)
NodesMirrorStores ==
    Quiet => \A f \in SourceFile \ ghosts :
        IF contents[f] = Absent THEN NodesOf(graph, f) = {}
        ELSE /\ SymbolsOf(graph, f) = {SymbolNode(f, s) : s \in contents[f].symbols}
             /\ \A s \in contents[f].symbols : \E t \in contents[f].symbols :
                   /\ t.name = s.name
                   /\ graph.span[SymbolNode(f, s)] = <<t.first, LastLine(t)>>
             /\ {n[3] : n \in {n \in NodesOf(graph, f) : KindOf(n) = "chunk"}}
                   = {c[1] : c \in contents[f].chunks}

\* And its derived edges are those of the current calls and names, although the
\* refresh looks at the changed files only: an invokes edge stands for a call,
\* a call between symbols that are in the graph has its edge, files import each
\* other exactly along the calls, and symbols with like features are linked.
\* (A name that has gained or lost a node waits for the full refresh, and one
\* with two nodes to choose from may lose its edge to the order of the list.)
EdgesMirrorCalls ==
    Quiet =>
        /\ \A e \in graph.edges : e[2] = "invokes" =>
              \E call \in contents[e[1][2]].calls : call.from = e[1][3] /\ call.to = e[3][3]
        /\ \A f \in Present(contents) : \A call \in contents[f].calls :
              \A callee \in AllSymbols(graph), caller \in CallerNode(graph, f, call) :
                 call.to \notin moved /\ Candidates(graph, f, call.to) = {callee}
                    => Edge(graph, caller, "invokes", callee)
        /\ \A f, h \in SourceFile : f # h =>
              (Edge(graph, FileNode(f), "imports", FileNode(h))
                 <=> \E s \in SymbolsOf(graph, f) : Callees(graph, s) \intersect SymbolsOf(graph, h) # {})
        /\ \A s, t \in AllSymbols(graph) : Alike(s, t) => {s, t} \in graph.similar

\* The graph is that of the stores once events and refresh are through, in whatever
\* order the events came and however often it was refreshed in between (evolver.go,
\* indexer.go), and its hierarchy is sound at every moment.
GraphMirrorsStores == HierarchyWellFormed /\ NodesMirrorStores /\ EdgesMirrorCalls
================================================================================
