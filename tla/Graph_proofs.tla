------------------------------ MODULE Graph_proofs ------------------------------
(***************************************************************************)
(* Proofs about the RPG graph: for any files, contents, names, classes and *)
(* thresholds, and for events, refreshes and rebuilds in any order, the    *)
(* hierarchy is sound at every moment, and nodes and derived edges are     *)
(* those of the stores whenever nothing is under way.                      *)
(***************************************************************************)
EXTENDS RpgGraph, TLAPS

(***************************************************************************)
(* The graph                                                               *)
(***************************************************************************)

\* The kinds of the hierarchy, above the files.
Layers == {"area", "category", "subcategory"}

\* A node is the tuple of its kind.
WellNode(n) ==
    /\ KindOf(n) \in FileKinds \union Layers
    /\ KindOf(n) \in {"file", "area"} => n = <<KindOf(n), n[2]>>
    /\ KindOf(n) \in {"symbol", "chunk", "category"} => n = <<KindOf(n), n[2], n[3]>>
    /\ KindOf(n) = "subcategory" => n = <<KindOf(n), n[2], n[3], n[4]>>
    /\ KindOf(n) \in FileKinds => n[2] \in SourceFile

\* What the hierarchy may hang from what.
MayHang(m, n) ==
    \/ KindOf(n) \in {"category", "subcategory"} /\ m = HangsFrom(n)
    \/ KindOf(n) = "file" /\ KindOf(m) = "subcategory" /\ <<m[2], m[3]>> = ClassOf[n[2]]

\* An edge leads between the kinds of its type.
WellEdge(e) ==
    /\ e = <<e[1], e[2], e[3]>>
    /\ e[2] = "feature_parent" => MayHang(e[1], e[3])
    /\ e[2] # "feature_parent" => KindOf(e[1]) \in FileKinds /\ KindOf(e[3]) \in FileKinds
    /\ e[2] = "invokes" => KindOf(e[1]) = "symbol" /\ KindOf(e[3]) = "symbol"
    /\ e[2] = "imports" => KindOf(e[1]) = "file" /\ KindOf(e[3]) = "file"

\* Nothing dangles, a symbol has a span and a file, and what is below an area hangs
\* from what it belongs to.
Shape(g) ==
    /\ g = [nodes |-> g.nodes, span |-> g.span, edges |-> g.edges, similar |-> g.similar]
    /\ \A n \in g.nodes : WellNode(n)
    /\ \A e \in g.edges : WellEdge(e) /\ e[1] \in g.nodes /\ e[3] \in g.nodes
    /\ \A pair \in g.similar : \E s, t \in AllSymbols(g) : pair = {s, t}
    /\ \A n \in AllSymbols(g) : n \in DOMAIN g.span /\ FileNode(n[2]) \in g.nodes
    /\ \A n \in g.nodes : KindOf(n) \in {"category", "subcategory"} =>
          Edge(g, HangsFrom(n), "feature_parent", n)

\* A file has one home in the hierarchy, and a childless layer node is to be spared.
Housed(g, f) == \E sub \in g.nodes : Parents(g, FileNode(f)) = {sub}
Housing(g, files) == \A f \in files : FileNode(f) \in g.nodes => Housed(g, f)
Kept(g, spare) ==
    \A n \in g.nodes : KindOf(n) \in Layers /\ Children(g, n, "feature_parent") = {} => n \in spare

\* The derived edges are those of the stores, but for the files in `pending`, whose
\* stores have changed since they were wired.
EdgesAreDerived(g, store, pending, names) ==
    /\ \A e \in g.edges : e[2] = "invokes" /\ e[1][2] \notin pending =>
          /\ store[e[1][2]] # Absent
          /\ \E call \in store[e[1][2]].calls : call.from = e[1][3] /\ call.to = e[3][3]
    /\ \A f \in Present(store) \ pending : \A call \in store[f].calls :
          \A callee \in AllSymbols(g), caller \in CallerNode(g, f, call) :
             call.to \notin names /\ Candidates(g, f, call.to) = {callee}
                => Edge(g, caller, "invokes", callee)
    /\ \A f, h \in SourceFile \ pending : f # h =>
          (Edge(g, FileNode(f), "imports", FileNode(h))
             <=> \E s \in SymbolsOf(g, f) : Callees(g, s) \intersect SymbolsOf(g, h) # {})
    /\ \A s, t \in AllSymbols(g) :
          s[2] \notin pending /\ t[2] \notin pending /\ Alike(s, t) => {s, t} \in g.similar

\* The nodes of a file, and their lines, are those of the store.
SymbolsMatch(g, store, f) ==
    /\ SymbolsOf(g, f) = {SymbolNode(f, s) : s \in SymbolsIn(store, f)}
    /\ \A s \in SymbolsIn(store, f) : \E t \in SymbolsIn(store, f) :
          t.name = s.name /\ g.span[SymbolNode(f, s)] = <<t.first, LastLine(t)>>

ChunksMatch(g, store, f) ==
    {n[3] : n \in {n \in NodesOf(g, f) : KindOf(n) = "chunk"}}
        = IF store[f] = Absent THEN {} ELSE {c[1] : c \in store[f].chunks}

AbsentMeansNone(g, store, f) == store[f] = Absent => NodesOf(g, f) = {}

(***************************************************************************)
(* The invariant                                                           *)
(***************************************************************************)

\* The file of the event under way, and what the event may be.
Due == {f \in SourceFile : due # NoEvent /\ due.file = f}

DueOK ==
    \/ due = NoEvent
    \/ /\ due \in [file : SourceFile, type : {"create", "modify", "delete"},
                   step : {"apply", "link", "mark"}]
       /\ due.type = "delete" <=> contents[due.file] = Absent
       /\ due.step = "link" => due.type # "delete"

\* How far the event under way has brought the nodes of its file.
NodesFollow ==
    \A f \in SourceFile \ ghosts :
        /\ f \in Due => (due.step # "apply" => SymbolsMatch(graph, contents, f))
        /\ f \notin Due \/ due.step = "mark" =>
              /\ SymbolsMatch(graph, contents, f) /\ ChunksMatch(graph, contents, f)
              /\ AbsentMeansNone(graph, contents, f)

\* What every step keeps.
GraphInv ==
    /\ contents \in StoreStates /\ stale \subseteq SourceFile /\ DueOK
    /\ Shape(graph) /\ Housing(graph, SourceFile) /\ Kept(graph, hollow)
    /\ EdgesAreDerived(graph, contents, stale \union Due, moved)
    /\ NodesFollow

(***************************************************************************)
(* Nodes                                                                   *)
(***************************************************************************)

\* What a node's tuple says of its kind and its file.
LEMMA NodeNames ==
    /\ \A f : KindOf(FileNode(f)) = "file" /\ FileNode(f)[2] = f
    /\ \A f, s : KindOf(SymbolNode(f, s)) = "symbol" /\ SymbolNode(f, s)[2] = f
                 /\ SymbolNode(f, s)[3] = s.name
    /\ \A n : WellNode(n) /\ KindOf(n) = "file" => n = FileNode(n[2])
  BY DEF KindOf, FileNode, SymbolNode, WellNode

\* A node of each kind, from its parts.
LEMMA WellNames ==
    /\ \A f \in SourceFile : WellNode(FileNode(f))
    /\ \A f \in SourceFile : \A s : WellNode(SymbolNode(f, s))
    /\ \A f \in SourceFile : \A l : WellNode(<<"chunk", f, l>>)
    /\ \A f : WellNode(Category(f)) /\ KindOf(Category(f)) = "category"
    /\ \A f, k : WellNode(Subcategory(f, k)) /\ KindOf(Subcategory(f, k)) = "subcategory"
    /\ \A a : WellNode(<<"area", a>>) /\ KindOf(<<"area", a>>) = "area"
    /\ \A f : HangsFrom(Category(f)) = <<"area", ClassOf[f][1]>>
    /\ \A f, k : HangsFrom(Subcategory(f, k)) = Category(f)
  BY DEF KindOf, FileNode, SymbolNode, WellNode, FileKinds, Layers, Category, Subcategory, HangsFrom

\* What a category and a subcategory hang from.
LEMMA HangsFromLayer ==
    \A n : WellNode(n) =>
        /\ KindOf(n) = "category" => KindOf(HangsFrom(n)) = "area"
        /\ KindOf(n) = "subcategory" => KindOf(HangsFrom(n)) = "category"
  BY DEF KindOf, HangsFrom, WellNode

\* What is left when nodes go.
LEMMA Removed ==
    ASSUME NEW g, NEW R
    PROVE  /\ RemoveNodes(g, R).nodes = g.nodes \ R
           /\ DOMAIN RemoveNodes(g, R).span = DOMAIN g.span \ R
           /\ \A n \in DOMAIN g.span \ R : RemoveNodes(g, R).span[n] = g.span[n]
           /\ \A e : e \in RemoveNodes(g, R).edges <=> e \in g.edges /\ e[1] \notin R /\ e[3] \notin R
           /\ \A pair : pair \in RemoveNodes(g, R).similar
                          <=> pair \in g.similar /\ pair \intersect R = {}
  BY DEF RemoveNodes

\* Taking nodes away twice is taking all of them away.
LEMMA RemovedTwice ==
    ASSUME NEW g, NEW Q, NEW R
    PROVE  RemoveNodes(RemoveNodes(g, Q), R) = RemoveNodes(g, Q \union R)
  <1> DEFINE a == RemoveNodes(g, Q)
             b == RemoveNodes(a, R)
             c == RemoveNodes(g, Q \union R)
  <1>1. b.nodes = c.nodes
    BY DEF RemoveNodes
  <1>2. b.span = c.span
    <2>1. a.span = [n \in DOMAIN g.span \ Q |-> g.span[n]]
      BY DEF RemoveNodes
    <2>2. b.span = [n \in DOMAIN a.span \ R |-> a.span[n]]
      BY DEF RemoveNodes
    <2>3. c.span = [n \in DOMAIN g.span \ (Q \union R) |-> g.span[n]]
      BY DEF RemoveNodes
    <2>4. DOMAIN a.span \ R = DOMAIN g.span \ (Q \union R)
      BY <2>1
    <2> HIDE DEF a, b, c
    <2>5. \A n \in DOMAIN c.span : n \in DOMAIN a.span /\ a.span[n] = g.span[n]
      BY <2>1, <2>3
    <2>6. b.span = [n \in DOMAIN c.span |-> a.span[n]]
      BY <2>2, <2>3, <2>4
    <2> QED
      BY <2>3, <2>5, <2>6
  <1>3. b.edges = c.edges
    BY DEF RemoveNodes
  <1>4. b.similar = c.similar
    <2>1. \A pair : pair \in b.similar <=> pair \in c.similar
      BY Removed
    <2>2. b.similar = {pair \in a.similar : pair \intersect R = {}}
      BY DEF RemoveNodes
    <2>3. c.similar = {pair \in g.similar : pair \intersect (Q \union R) = {}}
      BY DEF RemoveNodes
    <2> QED
      BY <2>1, <2>2, <2>3
  <1>5. /\ b = [nodes |-> b.nodes, span |-> b.span, edges |-> b.edges, similar |-> b.similar]
        /\ c = [nodes |-> c.nodes, span |-> c.span, edges |-> c.edges, similar |-> c.similar]
    BY DEF RemoveNodes
  <1> HIDE DEF a, b, c
  <1>6. b = c
    BY <1>1, <1>2, <1>3, <1>4, <1>5
  <1> QED
    BY <1>6 DEF a, b, c

\* Taking nodes away keeps the graph in shape, if a layer's node goes with what is
\* below it and a file's node with its symbols.
LEMMA RemoveKeepsShape ==
    ASSUME NEW g, Shape(g), NEW R,
           \A n \in R : KindOf(n) \in Layers => Children(g, n, "feature_parent") \subseteq R,
           \A n \in R : KindOf(n) = "file" => SymbolsOf(g, n[2]) \subseteq R
    PROVE  Shape(RemoveNodes(g, R))
  <1> DEFINE r == RemoveNodes(g, R)
  <1>1. r = [nodes |-> r.nodes, span |-> r.span, edges |-> r.edges, similar |-> r.similar]
    BY DEF RemoveNodes
  <1>2. /\ r.nodes = g.nodes \ R /\ DOMAIN r.span = DOMAIN g.span \ R
        /\ \A e : e \in r.edges <=> e \in g.edges /\ e[1] \notin R /\ e[3] \notin R
        /\ \A pair : pair \in r.similar <=> pair \in g.similar /\ pair \intersect R = {}
    BY Removed
  <1> HIDE DEF r
  <1>3. \A n \in r.nodes : WellNode(n)
    BY <1>2 DEF Shape
  <1>4. \A e \in r.edges : WellEdge(e) /\ e[1] \in r.nodes /\ e[3] \in r.nodes
    BY <1>2 DEF Shape
  <1>5. AllSymbols(r) = AllSymbols(g) \ R
    BY <1>2 DEF AllSymbols
  <1>6. \A pair \in r.similar : \E s, t \in AllSymbols(r) : pair = {s, t}
    <2> TAKE pair \in r.similar
    <2>1. PICK s \in AllSymbols(g), t \in AllSymbols(g) : pair = {s, t}
      BY <1>2 DEF Shape
    <2> QED
      BY <1>2, <1>5, <2>1
  <1>7. \A n \in AllSymbols(r) : n \in DOMAIN r.span /\ FileNode(n[2]) \in r.nodes
    <2> TAKE n \in AllSymbols(r)
    <2>1. n \in AllSymbols(g) /\ n \notin R /\ n \in DOMAIN g.span /\ FileNode(n[2]) \in g.nodes
      BY <1>5 DEF Shape
    <2>2. n \in SymbolsOf(g, n[2])
      BY <2>1 DEF AllSymbols, SymbolsOf, NodesOf, FileKinds
    <2>3. FileNode(n[2]) \notin R
      BY <2>1, <2>2, NodeNames
    <2> QED
      BY <1>2, <2>1, <2>3
  <1>8. ASSUME NEW n \in r.nodes, KindOf(n) \in {"category", "subcategory"}
        PROVE  Edge(r, HangsFrom(n), "feature_parent", n)
    <2>1. n \in g.nodes /\ n \notin R /\ Edge(g, HangsFrom(n), "feature_parent", n) /\ WellNode(n)
      BY <1>2, <1>8 DEF Shape
    <2>2. HangsFrom(n) \notin R
      <3>1. n \in Children(g, HangsFrom(n), "feature_parent")
        BY <2>1 DEF Children
      <3>2. KindOf(HangsFrom(n)) \in Layers
        BY <1>8, <2>1, HangsFromLayer DEF Layers
      <3> QED
        BY <2>1, <3>1, <3>2
    <2> QED
      BY <1>2, <2>1, <2>2 DEF Edge
  <1> QED
    BY <1>1, <1>3, <1>4, <1>6, <1>7, <1>8 DEF Shape, r

(***************************************************************************)
(* The hierarchy                                                           *)
(***************************************************************************)

\* What hangs from what tells the kinds of both.
LEMMA ChildKinds ==
    ASSUME NEW g, Shape(g), NEW n, NEW m \in Children(g, n, "feature_parent")
    PROVE  /\ m \in g.nodes /\ n \in g.nodes /\ MayHang(n, m) /\ n \in Parents(g, m)
           /\ KindOf(n) = "area" => KindOf(m) = "category"
           /\ KindOf(n) = "category" => KindOf(m) = "subcategory"
           /\ KindOf(n) = "subcategory" => KindOf(m) = "file"
           /\ KindOf(m) = "category" => KindOf(n) = "area"
           /\ KindOf(m) = "subcategory" => KindOf(n) = "category"
           /\ KindOf(m) \in Layers => n = HangsFrom(m)
           /\ KindOf(n) \in Layers
           /\ KindOf(m) \in {"category", "subcategory", "file"}
  <1>1. m \in g.nodes /\ <<n, "feature_parent", m>> \in g.edges
    BY DEF Children, Edge
  <1>2. MayHang(n, m) /\ n \in g.nodes
    BY <1>1 DEF Shape, WellEdge
  <1>3. n \in Parents(g, m)
    BY <1>1, <1>2 DEF Parents, Edge
  <1>4. WellNode(m)
    BY <1>1 DEF Shape
  <1> QED
    BY <1>1, <1>2, <1>3, <1>4, HangsFromLayer DEF MayHang, Layers

\* A child that is left is one of those that there were.
LEMMA ChildrenLeft ==
    ASSUME NEW g, NEW R, NEW n, n \notin R
    PROVE  Children(RemoveNodes(g, R), n, "feature_parent") = Children(g, n, "feature_parent") \ R
  BY Removed DEF Children, Edge

\* And so is a parent.
LEMMA ParentsLeft ==
    ASSUME NEW g, NEW R, NEW n, n \notin R
    PROVE  Parents(RemoveNodes(g, R), n) = Parents(g, n) \ R
  BY Removed DEF Parents, Edge

\* Pruning takes nodes of layers with all that is below them, and leaves no layer's
\* node without a child but those that are to be spared.
LEMMA PruneIs ==
    ASSUME NEW g, Shape(g), NEW S, NEW spare, Kept(g, spare \union S),
           \A n \in S : KindOf(n) = "subcategory"
    PROVE  \E R \in SUBSET g.nodes :
              /\ PruneOrphans(g, S) = RemoveNodes(g, R)
              /\ \A n \in R : KindOf(n) \in Layers /\ Children(g, n, "feature_parent") \subseteq R
              /\ Kept(PruneOrphans(g, S), spare)
  <1> DEFINE C(n) == Children(g, n, "feature_parent")
             subs == Childless(g, S)
             one == RemoveNodes(g, subs)
             cats == Childless(one, AboveAll(g, subs))
             two == RemoveNodes(one, cats)
             areas == Childless(two, AboveAll(one, cats))
             R == (subs \union cats) \union areas
             r == PruneOrphans(g, S)
  <1>1. \A n \in subs : n \in g.nodes /\ n \in S /\ KindOf(n) = "subcategory" /\ C(n) = {}
    BY DEF Childless
  <1>2. one.nodes = g.nodes \ subs /\ two.nodes = one.nodes \ cats
    BY Removed
  <1>3. \A n \in cats : /\ n \in g.nodes /\ n \notin subs /\ KindOf(n) = "category"
                        /\ C(n) \subseteq subs
    <2> TAKE n \in cats
    <2>1. n \in one.nodes /\ n \in AboveAll(g, subs) /\ Children(one, n, "feature_parent") = {}
      BY DEF Childless
    <2>2. PICK m \in subs : n \in Parents(g, m)
      BY <2>1 DEF AboveAll
    <2>3. m \in C(n)
      BY <1>1, <2>2 DEF Parents, Children
    <2>4. KindOf(n) = "category"
      BY <1>1, <2>3, ChildKinds
    <2>5. n \in g.nodes /\ n \notin subs
      BY <1>2, <2>1
    <2>6. C(n) \ subs = {}
      BY <2>1, <2>5, ChildrenLeft
    <2> QED
      BY <2>4, <2>5, <2>6
  <1>4. two = RemoveNodes(g, subs \union cats)
    BY RemovedTwice
  <1>5. \A n \in areas : /\ n \in g.nodes /\ n \notin subs \union cats /\ KindOf(n) = "area"
                         /\ C(n) \subseteq subs \union cats
    <2> TAKE n \in areas
    <2>1. n \in two.nodes /\ n \in AboveAll(one, cats) /\ Children(two, n, "feature_parent") = {}
      BY DEF Childless
    <2>2. PICK m \in cats : n \in Parents(one, m)
      BY <2>1 DEF AboveAll
    <2>3. n \in Parents(g, m)
      BY <1>3, <2>2, ParentsLeft
    <2>4. m \in C(n)
      BY <1>3, <2>3 DEF Parents, Children
    <2>5. KindOf(n) = "area"
      BY <1>3, <2>4, ChildKinds
    <2>6. n \in g.nodes /\ n \notin subs \union cats
      BY <1>2, <2>1
    <2>7. C(n) \ (subs \union cats) = {}
      BY <1>4, <2>1, <2>6, ChildrenLeft
    <2> QED
      BY <2>5, <2>6, <2>7
  <1>6. r = RemoveNodes(two, areas)
    BY DEF PruneOrphans
  <1>7. r = RemoveNodes(g, R)
    BY <1>4, <1>6, RemovedTwice
  <1>8. \A n \in R : KindOf(n) \in Layers /\ C(n) \subseteq R
    <2> HIDE DEF subs, cats, areas, C
    <2> QED
      BY <1>1, <1>3, <1>5 DEF Layers
  <1>9. ASSUME NEW n \in r.nodes, KindOf(n) \in Layers, Children(r, n, "feature_parent") = {}
        PROVE  n \in spare
    <2>1. n \in g.nodes /\ n \notin R
      BY <1>7, <1>9, Removed
    <2>2. C(n) \subseteq R
      BY <1>7, <1>9, <2>1, ChildrenLeft
    <2>3. CASE C(n) = {}
      <3>1. n \in spare \union S
        BY <1>9, <2>1, <2>3 DEF Kept
      <3>2. n \notin S
        BY <2>1, <2>3 DEF Childless
      <3> QED
        BY <3>1, <3>2
    <2>4. CASE C(n) # {}
      <3>1. PICK m \in C(n) : m \in R
        BY <2>2, <2>4
      <3>2. n \in Parents(g, m) /\ KindOf(m) \in {"category", "subcategory", "file"}
        BY <3>1, ChildKinds
      <3>3. m \in subs \/ m \in cats
        BY <1>5, <3>1, <3>2
      <3>4. CASE m \in subs
        <4>1. KindOf(n) = "category"
          BY <1>1, <3>1, <3>4, ChildKinds
        <4>2. \A k \in C(n) : KindOf(k) = "subcategory"
          BY <4>1, ChildKinds
        <4>3. C(n) \subseteq subs
          <5> HIDE DEF subs, cats, areas, C
          <5> QED
            BY <1>1, <1>3, <1>5, <2>2, <4>2
        <4>4. n \in AboveAll(g, subs)
          BY <3>2, <3>4 DEF AboveAll
        <4>5. n \notin subs
          BY <2>1
        <4>6. Children(one, n, "feature_parent") = {}
          BY <4>3, <4>5, ChildrenLeft
        <4>7. n \in cats
          BY <1>2, <2>1, <4>4, <4>5, <4>6 DEF Childless
        <4> QED
          BY <2>1, <4>7
      <3>5. CASE m \in cats
        <4>1. KindOf(n) = "area"
          BY <1>3, <3>1, <3>5, ChildKinds
        <4>2. \A k \in C(n) : KindOf(k) = "category"
          BY <4>1, ChildKinds
        <4>3. C(n) \subseteq subs \union cats
          <5> HIDE DEF subs, cats, areas, C
          <5> QED
            BY <1>1, <1>3, <1>5, <2>2, <4>2
        <4>4. n \notin subs /\ n \notin subs \union cats
          BY <2>1
        <4>5. n \in Parents(one, m)
          BY <1>3, <3>2, <3>5, <4>4, ParentsLeft
        <4>6. n \in AboveAll(one, cats)
          BY <3>5, <4>5 DEF AboveAll
        <4>7. Children(two, n, "feature_parent") = {}
          BY <1>4, <4>3, <4>4, ChildrenLeft
        <4>8. n \in areas
          BY <1>2, <2>1, <4>4, <4>6, <4>7 DEF Childless
        <4> QED
          BY <2>1, <4>8
      <3> QED
        BY <3>3, <3>4, <3>5
    <2> QED
      BY <2>3, <2>4
  <1>10. R \in SUBSET g.nodes
    <2> HIDE DEF subs, cats, areas, C
    <2> QED
      BY <1>1, <1>3, <1>5
  <1>11. Kept(r, spare)
    BY <1>9 DEF Kept
  <1> QED
    BY <1>7, <1>8, <1>10, <1>11

\* What the hierarchy's operations leave alone: the nodes of files, and all edges
\* but the hierarchy's.
SameFiles(g, r) ==
    /\ \A n : KindOf(n) \in FileKinds => (n \in g.nodes <=> n \in r.nodes)
    /\ \A n \in AllSymbols(g) : r.span[n] = g.span[n]
    /\ \A e : e[2] # "feature_parent" => (e \in g.edges <=> e \in r.edges)
    /\ r.similar = g.similar

SameParents(g, r) == \A n : KindOf(n) = "file" => Parents(r, n) = Parents(g, n)

\* One step that keeps files and what they derive, and another.
LEMMA SameFilesTwice ==
    ASSUME NEW g, NEW h, NEW r, SameFiles(g, h), SameFiles(h, r)
    PROVE  SameFiles(g, r)
  <1>1. AllSymbols(g) = AllSymbols(h)
    BY DEF SameFiles, AllSymbols, FileKinds
  <1>2. \A n : KindOf(n) \in FileKinds => (n \in g.nodes <=> n \in r.nodes)
    BY DEF SameFiles
  <1>3. \A n \in AllSymbols(g) : r.span[n] = g.span[n]
    BY <1>1 DEF SameFiles
  <1>4. \A e : e[2] # "feature_parent" => (e \in g.edges <=> e \in r.edges)
    BY DEF SameFiles
  <1>5. r.similar = g.similar
    BY DEF SameFiles
  <1> QED
    BY <1>2, <1>3, <1>4, <1>5 DEF SameFiles

\* Pruning keeps the files.
LEMMA PruneKeepsFiles ==
    ASSUME NEW g, Shape(g), NEW R,
           \A n \in R : KindOf(n) \in Layers /\ Children(g, n, "feature_parent") \subseteq R
    PROVE  LET r == RemoveNodes(g, R) IN Shape(r) /\ SameFiles(g, r) /\ SameParents(g, r)
  <1> DEFINE r == RemoveNodes(g, R)
  <1>1. Shape(r)
    BY RemoveKeepsShape DEF Layers
  <1>2. \A n : KindOf(n) \in FileKinds => n \notin R
    BY DEF Layers, FileKinds
  <1>3. /\ r.nodes = g.nodes \ R /\ DOMAIN r.span = DOMAIN g.span \ R
        /\ \A n \in DOMAIN g.span \ R : r.span[n] = g.span[n]
        /\ \A e : e \in r.edges <=> e \in g.edges /\ e[1] \notin R /\ e[3] \notin R
        /\ \A pair : pair \in r.similar <=> pair \in g.similar /\ pair \intersect R = {}
    BY Removed
  <1>4. r.similar = {pair \in g.similar : pair \intersect R = {}}
    BY DEF RemoveNodes
  <1> HIDE DEF r
  <1>5. r.similar = g.similar
    <2>1. ASSUME NEW pair \in g.similar
          PROVE  pair \intersect R = {}
      <3>1. PICK s \in AllSymbols(g), t \in AllSymbols(g) : pair = {s, t}
        BY <2>1 DEF Shape
      <3>2. s \notin R /\ t \notin R
        BY <1>2 DEF AllSymbols, FileKinds
      <3> QED
        BY <3>1, <3>2
    <2> QED
      BY <1>4, <2>1
  <1>6. \A e : e[2] # "feature_parent" => (e \in g.edges <=> e \in r.edges)
    BY <1>2, <1>3 DEF Shape, WellEdge
  <1>7. \A n \in AllSymbols(g) : r.span[n] = g.span[n]
    BY <1>2, <1>3 DEF Shape, AllSymbols, FileKinds
  <1>8. SameFiles(g, r)
    BY <1>2, <1>3, <1>5, <1>6, <1>7 DEF SameFiles
  <1>9. ASSUME NEW n, KindOf(n) = "file"
        PROVE  Parents(r, n) = Parents(g, n)
    <2>1. n \notin R
      BY <1>2, <1>9 DEF FileKinds
    <2>2. Parents(r, n) = Parents(g, n) \ R
      BY <2>1, ParentsLeft DEF r
    <2>3. ASSUME NEW m \in Parents(g, n)
          PROVE  m \notin R
      <3>1. Edge(g, m, "feature_parent", n)
        BY <2>3 DEF Parents
      <3>2. n \in Children(g, m, "feature_parent")
        BY <3>1 DEF Children, Edge, Shape
      <3> QED
        BY <2>1, <3>2
    <2> QED
      BY <2>2, <2>3
  <1> QED
    BY <1>1, <1>8, <1>9 DEF r, SameParents

\* Nodes of a layer that are new hang from those above them; what was there stays.
LEMMA EnsureIs ==
    ASSUME NEW g, Shape(g), NEW ns,
           \A n \in ns : /\ WellNode(n) /\ KindOf(n) \in {"category", "subcategory"}
                         /\ HangsFrom(n) \in g.nodes
    PROVE  LET r == EnsureChildren(g, ns)
           IN /\ Shape(r) /\ SameFiles(g, r) /\ SameParents(g, r)
              /\ r.nodes = g.nodes \union ns
              /\ \A n : Children(g, n, "feature_parent") \subseteq Children(r, n, "feature_parent")
  <1> DEFINE r == EnsureChildren(g, ns)
             added == {<<HangsFrom(n), "feature_parent", n>> : n \in ns \ g.nodes}
  <1>0. g = [nodes |-> g.nodes, span |-> g.span, edges |-> g.edges, similar |-> g.similar]
    BY DEF Shape
  <1>1. /\ r.nodes = g.nodes \union ns /\ r.span = g.span
        /\ r.edges = g.edges \union added /\ r.similar = g.similar
        /\ r = [nodes |-> r.nodes, span |-> r.span, edges |-> r.edges, similar |-> r.similar]
    <2>1. r = [g EXCEPT !.nodes = @ \union ns, !.edges = @ \union added]
      BY DEF EnsureChildren
    <2> HIDE DEF r, added
    <2> QED
      BY <1>0, <2>1
  <1> HIDE DEF r
  <1>2. \A e \in added : /\ e = <<e[1], e[2], e[3]>> /\ e[2] = "feature_parent"
                         /\ e[3] \in ns /\ e[1] = HangsFrom(e[3])
    OBVIOUS
  <1>3. \A e \in added : WellEdge(e) /\ e[1] \in r.nodes /\ e[3] \in r.nodes
    <2> HIDE DEF added
    <2> QED
      BY <1>1, <1>2 DEF WellEdge, MayHang
  <1>4. \A n \in r.nodes : WellNode(n)
    BY <1>1 DEF Shape
  <1>5. \A e \in r.edges : WellEdge(e) /\ e[1] \in r.nodes /\ e[3] \in r.nodes
    <2> HIDE DEF added
    <2> QED
      BY <1>1, <1>3 DEF Shape
  <1>6. AllSymbols(r) = AllSymbols(g)
    BY <1>1 DEF AllSymbols
  <1>7. \A n \in r.nodes : KindOf(n) \in {"category", "subcategory"} =>
            Edge(r, HangsFrom(n), "feature_parent", n)
    <2> TAKE n \in r.nodes
    <2>1. CASE n \in g.nodes
      BY <1>1, <2>1 DEF Shape, Edge
    <2>2. CASE n \notin g.nodes
      BY <1>1, <2>2 DEF Edge
    <2> QED
      BY <2>1, <2>2
  <1>8. Shape(r)
    BY <1>1, <1>4, <1>5, <1>6, <1>7 DEF Shape
  <1>9. \A n : KindOf(n) \in FileKinds => n \notin ns
    BY DEF FileKinds
  <1>10. SameFiles(g, r)
    <2> HIDE DEF added
    <2> QED
      BY <1>1, <1>2, <1>9 DEF SameFiles
  <1>11. SameParents(g, r)
    <2> SUFFICES ASSUME NEW n, KindOf(n) = "file"
                 PROVE  Parents(r, n) = Parents(g, n)
      BY DEF SameParents
    <2>1. \A m : Edge(r, m, "feature_parent", n) <=> Edge(g, m, "feature_parent", n)
      <3>1. n \notin ns
        BY <1>9 DEF FileKinds
      <3> QED
        BY <1>1, <1>2, <3>1 DEF Edge
    <2>2. \A m : Edge(g, m, "feature_parent", n) => m \in g.nodes
      BY DEF Edge, Shape
    <2> QED
      BY <1>1, <2>1, <2>2 DEF Parents
  <1>12. \A n : Children(g, n, "feature_parent") \subseteq Children(r, n, "feature_parent")
    BY <1>1 DEF Children, Edge
  <1> QED
    BY <1>1, <1>8, <1>10, <1>11, <1>12 DEF r

\* The categories of some files, and subcategories of them.
LEMMA EnsureAllIs ==
    ASSUME NEW g, Shape(g), NEW files \in SUBSET SourceFile, NEW subs, NEW spare, Kept(g, spare),
           \A n \in subs : \E f \in files : \E k : n = Subcategory(f, k),
           \A f \in files : \E k : Subcategory(f, k) \in subs
    PROVE  LET r == EnsureChildren(EnsureCategories(g, files), subs)
           IN /\ Shape(r) /\ SameFiles(g, r) /\ SameParents(g, r)
              /\ subs \subseteq r.nodes
              /\ Kept(r, spare \union subs)
  <1> DEFINE tops == {<<"area", ClassOf[f][1]>> : f \in files}
             cats == {Category(f) : f \in files}
             a == [g EXCEPT !.nodes = @ \union tops]
             b == EnsureChildren(a, cats)
             r == EnsureChildren(b, subs)
  <1>0. g = [nodes |-> g.nodes, span |-> g.span, edges |-> g.edges, similar |-> g.similar]
    BY DEF Shape
  <1>1. /\ a.nodes = g.nodes \union tops /\ a.span = g.span
        /\ a.edges = g.edges /\ a.similar = g.similar
        /\ a = [nodes |-> a.nodes, span |-> a.span, edges |-> a.edges, similar |-> a.similar]
    BY <1>0
  <1>2. \A n \in tops : WellNode(n) /\ KindOf(n) = "area"
    BY WellNames
  <1> HIDE DEF a, tops
  <1>3. AllSymbols(a) = AllSymbols(g)
    BY <1>1, <1>2 DEF AllSymbols
  <1>4. Shape(a)
    <2>1. \A n \in a.nodes : WellNode(n)
      BY <1>1, <1>2 DEF Shape
    <2>2. \A e \in a.edges : WellEdge(e) /\ e[1] \in a.nodes /\ e[3] \in a.nodes
      BY <1>1 DEF Shape
    <2>3. \A n \in a.nodes : KindOf(n) \in {"category", "subcategory"} =>
              Edge(a, HangsFrom(n), "feature_parent", n)
      BY <1>1, <1>2 DEF Shape, Edge
    <2> QED
      BY <1>1, <1>3, <2>1, <2>2, <2>3 DEF Shape
  <1>5. SameFiles(g, a)
    BY <1>1, <1>2 DEF SameFiles, FileKinds
  <1>6. SameParents(g, a)
    <2>1. \A m, n : Edge(g, m, "feature_parent", n) => m \in g.nodes
      BY DEF Edge, Shape
    <2> QED
      BY <1>1, <2>1 DEF SameParents, Parents, Edge
  <1>7. \A n \in cats : /\ WellNode(n) /\ KindOf(n) \in {"category", "subcategory"}
                        /\ HangsFrom(n) \in a.nodes
    BY <1>1, WellNames DEF tops
  <1>8. /\ Shape(b) /\ SameFiles(a, b) /\ SameParents(a, b) /\ b.nodes = a.nodes \union cats
        /\ \A n : Children(a, n, "feature_parent") \subseteq Children(b, n, "feature_parent")
    <2> HIDE DEF cats
    <2> QED
      BY <1>4, <1>7, EnsureIs
  <1>9. \A n \in subs : /\ WellNode(n) /\ KindOf(n) \in {"category", "subcategory"}
                        /\ HangsFrom(n) \in b.nodes
    <2> TAKE n \in subs
    <2>1. PICK f \in files : \E k : n = Subcategory(f, k)
      OBVIOUS
    <2>2. Category(f) \in b.nodes
      BY <1>8
    <2> QED
      BY <2>1, <2>2, WellNames
  <1> HIDE DEF b
  <1>10. /\ Shape(r) /\ SameFiles(b, r) /\ SameParents(b, r) /\ r.nodes = b.nodes \union subs
         /\ \A n : Children(b, n, "feature_parent") \subseteq Children(r, n, "feature_parent")
    BY <1>8, <1>9, EnsureIs
  <1> HIDE DEF r
  <1>11. SameFiles(g, r)
    BY <1>5, <1>8, <1>10, SameFilesTwice
  <1>12. SameParents(g, r)
    BY <1>6, <1>8, <1>10 DEF SameParents
  <1>13. \A n \in r.nodes : KindOf(n) \in {"category", "subcategory"} =>
             n \in Children(r, HangsFrom(n), "feature_parent")
    BY <1>10 DEF Shape, Children
  <1>14. ASSUME NEW n \in r.nodes, KindOf(n) \in Layers, Children(r, n, "feature_parent") = {}
         PROVE  n \in spare \union subs
    <2>1. Children(a, n, "feature_parent") = {}
      BY <1>8, <1>10, <1>14
    <2>2. CASE n \in g.nodes
      <3>1. Children(g, n, "feature_parent") = {}
        BY <1>1, <2>1 DEF Children, Edge
      <3> QED
        BY <1>14, <2>2, <3>1 DEF Kept
    <2>3. CASE n \in tops
      <3>1. PICK f \in files : n = <<"area", ClassOf[f][1]>>
        BY <2>3 DEF tops
      <3>2. Category(f) \in r.nodes /\ HangsFrom(Category(f)) = n
            /\ KindOf(Category(f)) = "category"
        BY <1>8, <1>10, <3>1, WellNames
      <3> QED
        BY <1>13, <1>14, <3>2
    <2>4. CASE n \in cats
      <3>1. PICK f \in files : n = Category(f)
        BY <2>4
      <3>2. PICK k : Subcategory(f, k) \in subs
        OBVIOUS
      <3>3. /\ Subcategory(f, k) \in r.nodes /\ HangsFrom(Subcategory(f, k)) = n
            /\ KindOf(Subcategory(f, k)) = "subcategory"
        BY <1>10, <3>1, <3>2, WellNames
      <3> QED
        BY <1>13, <1>14, <3>3
    <2> QED
      BY <1>1, <1>8, <1>10, <2>2, <2>3, <2>4
  <1>15. EnsureChildren(EnsureCategories(g, files), subs) = r
    BY DEF EnsureCategories, r, b, a, tops
  <1> QED
    BY <1>10, <1>11, <1>12, <1>14, <1>15 DEF Kept

\* Placing a file gives it one home and leaves no orphan; the rest stays.
LEMMA PlaceFileIs ==
    ASSUME NEW g, Shape(g), NEW f \in SourceFile, FileNode(f) \in g.nodes,
           Parents(g, FileNode(f)) = {} \/ Housed(g, f),
           NEW spare, Kept(g, spare), NEW words
    PROVE  LET r == PlaceFile(g, f, words)
           IN /\ Shape(r) /\ SameFiles(g, r) /\ Housed(r, f) /\ Kept(r, spare)
              /\ \A h \in SourceFile \ {f} : Parents(r, FileNode(h)) = Parents(g, FileNode(h))
  <1> DEFINE parents == Parents(g, FileNode(f))
             classed == EnsureCategories(g, {f})
             key == SubcategoryByFrequency(g, f)
             sub == Subcategory(f, key)
             placed == EnsureChildren(classed, {sub})
             kept == {e \in placed.edges : ~(e[2] = "feature_parent" /\ e[3] = FileNode(f))}
             new == <<sub, "feature_parent", FileNode(f)>>
             q == [placed EXCEPT !.edges = kept \union {new}]
             drifted == ~(parents # {} /\ Drift(words, FileWords(g, f)) < DriftThreshold)
             r == PlaceFile(g, f, words)
  <1>0. g = [nodes |-> g.nodes, span |-> g.span, edges |-> g.edges, similar |-> g.similar]
    BY DEF Shape
  <1>1. r = IF drifted THEN PruneOrphans(q, parents) ELSE classed
    BY DEF PlaceFile
  <1>2. \A m \in parents : /\ m \in g.nodes /\ KindOf(m) = "subcategory"
                           /\ <<m[2], m[3]>> = ClassOf[f] /\ HangsFrom(m) = Category(f)
    <2> TAKE m \in parents
    <2>1. MayHang(m, FileNode(f)) /\ m \in g.nodes
      BY DEF Parents, Edge, Shape, WellEdge
    <2>2. KindOf(m) = "subcategory" /\ <<m[2], m[3]>> = ClassOf[f]
      BY <2>1, NodeNames DEF MayHang
    <2>3. ClassOf[f][1] = m[2] /\ ClassOf[f][2] = m[3]
      BY <2>2, GraphAssumption
    <2> QED
      BY <2>1, <2>2, <2>3 DEF HangsFrom, Category
  <1>3. CASE ~drifted
    <2>1. PICK m \in g.nodes : parents = {m}
      BY <1>3 DEF Housed
    <2>2. m \in g.nodes /\ KindOf(m) = "subcategory" /\ HangsFrom(m) = Category(f)
      BY <1>2, <2>1
    <2>3. Category(f) \in g.nodes
      <3>1. Edge(g, Category(f), "feature_parent", m)
        BY <2>2 DEF Shape
      <3> QED
        BY <3>1 DEF Shape, Edge
    <2>4. <<"area", ClassOf[f][1]>> \in g.nodes
      BY <2>3, WellNames DEF Shape, Edge
    <2> DEFINE a == [g EXCEPT !.nodes = @ \union {<<"area", ClassOf[h][1]>> : h \in {f}}]
               cats == {Category(h) : h \in {f}}
               added == {<<HangsFrom(n), "feature_parent", n>> : n \in cats \ a.nodes}
    <2>5. a.nodes = g.nodes /\ a = g
      <3>1. g.nodes \union {<<"area", ClassOf[h][1]>> : h \in {f}} = g.nodes
        BY <2>4
      <3> QED
        BY <1>0, <3>1
    <2>6. cats = {Category(f)} /\ added = {}
      BY <2>3, <2>5
    <2>7. classed = [a EXCEPT !.nodes = @ \union cats, !.edges = @ \union added]
      BY DEF EnsureCategories, EnsureChildren
    <2>8. classed = g
      <3> HIDE DEF classed, a, cats, added
      <3>1. g.nodes \union {Category(f)} = g.nodes /\ g.edges \union {} = g.edges
        BY <2>3
      <3> QED
        BY <1>0, <2>5, <2>6, <2>7, <3>1
    <2>9. r = g
      BY <1>1, <1>3, <2>8
    <2> QED
      BY <1>3, <2>9 DEF SameFiles, r
  <1>4. CASE drifted
    <2>1. /\ Shape(placed) /\ SameFiles(g, placed) /\ SameParents(g, placed)
          /\ sub \in placed.nodes /\ Kept(placed, spare \union {sub})
      <3>1. \A n \in {sub} : \E h \in {f} : \E k : n = Subcategory(h, k)
        OBVIOUS
      <3>2. \A h \in {f} : \E k : Subcategory(h, k) \in {sub}
        OBVIOUS
      <3> QED
        BY <3>1, <3>2, EnsureAllIs
    <2> HIDE DEF placed, classed
    <2>2. /\ q.nodes = placed.nodes /\ q.span = placed.span
          /\ q.edges = kept \union {new} /\ q.similar = placed.similar
          /\ q = [nodes |-> q.nodes, span |-> q.span, edges |-> q.edges, similar |-> q.similar]
      <3>1. placed = [nodes |-> placed.nodes, span |-> placed.span,
                      edges |-> placed.edges, similar |-> placed.similar]
        BY <2>1 DEF Shape
      <3> HIDE DEF kept, new
      <3> QED
        BY <3>1
    <2> HIDE DEF q
    <2>3. FileNode(f) \in q.nodes
      BY <2>1, <2>2, NodeNames DEF SameFiles, FileKinds
    <2>4. WellEdge(new) /\ sub \in q.nodes
      <3>1. KindOf(sub) = "subcategory" /\ <<sub[2], sub[3]>> = ClassOf[f]
        BY GraphAssumption DEF Subcategory, KindOf
      <3>2. new[1] = sub /\ new[2] = "feature_parent" /\ new[3] = FileNode(f)
            /\ new = <<new[1], new[2], new[3]>>
        OBVIOUS
      <3>3. MayHang(sub, FileNode(f))
        BY <3>1, NodeNames DEF MayHang
      <3> HIDE DEF new, sub
      <3> QED
        BY <2>1, <2>2, <3>2, <3>3 DEF WellEdge
    <2>5. AllSymbols(q) = AllSymbols(placed)
      BY <2>2 DEF AllSymbols
    <2>6. Shape(q)
      <3>1. \A n \in q.nodes : WellNode(n)
        BY <2>1, <2>2 DEF Shape
      <3>2. \A e \in q.edges : WellEdge(e) /\ e[1] \in q.nodes /\ e[3] \in q.nodes
        <4>1. \A e \in kept : WellEdge(e) /\ e[1] \in q.nodes /\ e[3] \in q.nodes
          BY <2>1, <2>2 DEF Shape
        <4> HIDE DEF kept, sub
        <4> QED
          BY <2>2, <2>3, <2>4, <4>1
      <3>3. \A n \in q.nodes : KindOf(n) \in {"category", "subcategory"} =>
                Edge(q, HangsFrom(n), "feature_parent", n)
        <4> TAKE n \in q.nodes
        <4>1. ASSUME KindOf(n) \in {"category", "subcategory"}
              PROVE  n # FileNode(f) /\ <<HangsFrom(n), "feature_parent", n>> \in placed.edges
          BY <2>1, <2>2, <4>1, NodeNames DEF Shape, Edge
        <4> QED
          BY <2>2, <4>1 DEF Edge
      <3> QED
        BY <2>1, <2>2, <2>5, <3>1, <3>2, <3>3 DEF Shape
    <2>7. \A m, n : Edge(q, m, "feature_parent", n)
                      <=> IF n = FileNode(f) THEN m = sub ELSE Edge(placed, m, "feature_parent", n)
      <3> TAKE m, n
      <3> HIDE DEF sub
      <3> QED
        BY <2>2 DEF Edge
    <2>8. Parents(q, FileNode(f)) = {sub}
      BY <2>4, <2>7 DEF Parents
    <2>9. \A h \in SourceFile \ {f} : Parents(q, FileNode(h)) = Parents(g, FileNode(h))
      <3> TAKE h \in SourceFile \ {f}
      <3>1. FileNode(h) # FileNode(f)
        BY NodeNames
      <3>2. Parents(q, FileNode(h)) = Parents(placed, FileNode(h))
        BY <2>2, <2>7, <3>1 DEF Parents
      <3> QED
        BY <2>1, <3>2, NodeNames DEF SameParents
    <2>10. Kept(q, spare \union parents)
      <3> SUFFICES ASSUME NEW n \in q.nodes, KindOf(n) \in Layers,
                          Children(q, n, "feature_parent") = {}
                   PROVE  n \in spare \union parents
        BY DEF Kept
      <3>1. n # sub
        BY <2>3, <2>7 DEF Children
      <3>2. CASE FileNode(f) \in Children(placed, n, "feature_parent")
        <4>1. n \in Parents(placed, FileNode(f))
          BY <2>1, <3>2, ChildKinds
        <4> QED
          BY <2>1, <4>1, NodeNames DEF SameParents
      <3>3. CASE FileNode(f) \notin Children(placed, n, "feature_parent")
        <4>1. Children(placed, n, "feature_parent") = {}
          BY <2>2, <2>7, <3>3 DEF Children
        <4> QED
          BY <2>1, <2>2, <3>1, <4>1 DEF Kept
      <3> QED
        BY <3>2, <3>3
    <2>11. SameFiles(g, q)
      <3>1. SameFiles(placed, q)
        <4>1. \A e : e[2] # "feature_parent" => (e \in placed.edges <=> e \in q.edges)
          <5> HIDE DEF sub
          <5> QED
            BY <2>2
        <4> QED
          BY <2>2, <4>1 DEF SameFiles
      <3> QED
        BY <2>1, <3>1, SameFilesTwice
    <2>12. PICK R \in SUBSET q.nodes :
              /\ PruneOrphans(q, parents) = RemoveNodes(q, R)
              /\ \A n \in R : KindOf(n) \in Layers /\ Children(q, n, "feature_parent") \subseteq R
              /\ Kept(PruneOrphans(q, parents), spare)
      <3>1. \A n \in parents : KindOf(n) = "subcategory"
        BY <1>2
      <3> HIDE DEF parents
      <3> QED
        BY <2>6, <2>10, <3>1, PruneIs
    <2>13. r = RemoveNodes(q, R) /\ Kept(r, spare)
      BY <1>1, <1>4, <2>12
    <2> HIDE DEF r
    <2>14. Shape(r) /\ SameFiles(q, r) /\ SameParents(q, r)
      BY <2>6, <2>12, <2>13, PruneKeepsFiles
    <2>15. SameFiles(g, r)
      BY <2>11, <2>14, SameFilesTwice
    <2>16. Housed(r, f)
      <3>1. Parents(r, FileNode(f)) = {sub}
        BY <2>8, <2>14, NodeNames DEF SameParents
      <3>2. sub \in r.nodes
        BY <3>1 DEF Parents
      <3> QED
        BY <3>1, <3>2 DEF Housed
    <2>17. \A h \in SourceFile \ {f} : Parents(r, FileNode(h)) = Parents(g, FileNode(h))
      BY <2>9, <2>14, NodeNames DEF SameParents
    <2> QED
      BY <2>13, <2>14, <2>15, <2>16, <2>17 DEF r
  <1> QED
    BY <1>3, <1>4

(***************************************************************************)
(* Symbols and chunks                                                      *)
(***************************************************************************)

\* Neither the nodes of the layers nor what hangs from them have changed.
SameHierarchy(g, r) ==
    /\ \A n : KindOf(n) \in Layers => (n \in g.nodes <=> n \in r.nodes)
    /\ \A m, n : Edge(g, m, "feature_parent", n) <=> Edge(r, m, "feature_parent", n)

\* Parents and children are those of the graph's parent edges.
LEMMA HierarchyStays ==
    ASSUME NEW g, Shape(g), NEW r, Shape(r), SameHierarchy(g, r)
    PROVE  /\ \A n : Parents(r, n) = Parents(g, n)
           /\ \A n : Children(r, n, "feature_parent") = Children(g, n, "feature_parent")
           /\ \A spare : Kept(g, spare) => Kept(r, spare)
           /\ \A f : Housed(g, f) => Housed(r, f)
  <1>1. \A m, n : Edge(g, m, "feature_parent", n) =>
            m \in g.nodes /\ n \in g.nodes /\ m \in r.nodes /\ n \in r.nodes
    BY DEF SameHierarchy, Edge, Shape
  <1>2. \A n : Parents(r, n) = Parents(g, n)
    BY <1>1 DEF SameHierarchy, Parents
  <1>3. \A n : Children(r, n, "feature_parent") = Children(g, n, "feature_parent")
    BY <1>1 DEF SameHierarchy, Children
  <1>4. \A spare : Kept(g, spare) => Kept(r, spare)
    BY <1>3 DEF SameHierarchy, Kept
  <1>5. \A f : Housed(g, f) => Housed(r, f)
    <2> SUFFICES ASSUME NEW f, Housed(g, f)
                 PROVE  Housed(r, f)
      OBVIOUS
    <2>1. PICK sub \in g.nodes : Parents(g, FileNode(f)) = {sub}
      BY DEF Housed
    <2>2. Parents(r, FileNode(f)) = {sub}
      BY <1>2, <2>1
    <2>3. sub \in r.nodes
      BY <2>2 DEF Parents
    <2> QED
      BY <2>2, <2>3 DEF Housed
  <1> QED
    BY <1>2, <1>3, <1>4, <1>5

\* The nodes that a file's symbols add, and their spans.
LEMMA AddIs ==
    ASSUME NEW g, Shape(g), NEW store, NEW files \in SUBSET SourceFile
    PROVE  LET r == AddSymbols(g, store, files)
           IN /\ Shape(r) /\ SameHierarchy(g, r)
              /\ \A n : n \in r.nodes <=>
                    \/ n \in g.nodes
                    \/ \E f \in files : n = FileNode(f) \/ \E s \in SymbolsIn(store, f) : n = SymbolNode(f, s)
              /\ \A f \in files : \A s \in SymbolsIn(store, f) : \E t \in SymbolsIn(store, f) :
                    t.name = s.name /\ r.span[SymbolNode(f, s)] = <<t.first, LastLine(t)>>
              /\ \A n \in AllSymbols(g) : n[2] \notin files => r.span[n] = g.span[n]
              /\ \A e : e[2] # "contains" => (e \in r.edges <=> e \in g.edges)
              /\ r.similar = g.similar
  <1> DEFINE symbols(n) == {s \in SymbolsIn(store, n[2]) : s.name = n[3]}
             new == UNION {{SymbolNode(f, s) : s \in SymbolsIn(store, f)} : f \in files}
             spanOf(n) == LET s == CHOOSE s \in symbols(n) : TRUE IN <<s.first, LastLine(s)>>
             sp == [n \in DOMAIN g.span \union new |-> IF n \in new THEN spanOf(n) ELSE g.span[n]]
             es == {<<FileNode(n[2]), "contains", n>> : n \in new}
             fs == {FileNode(f) : f \in files}
             r == AddSymbols(g, store, files)
  <1>1. \A n : n \in new <=> \E f \in files : \E s \in SymbolsIn(store, f) : n = SymbolNode(f, s)
    OBVIOUS
  <1>2. /\ r.nodes = g.nodes \union new \union fs /\ r.span = sp
        /\ r.edges = g.edges \union es /\ r.similar = g.similar
        /\ r = [nodes |-> r.nodes, span |-> r.span, edges |-> r.edges, similar |-> r.similar]
    BY DEF AddSymbols
  <1>3. \A n \in new : /\ WellNode(n) /\ KindOf(n) = "symbol" /\ n[2] \in files
                       /\ symbols(n) # {}
    <2> TAKE n \in new
    <2>1. PICK f \in files : \E s \in SymbolsIn(store, f) : n = SymbolNode(f, s)
      BY <1>1
    <2>2. PICK s \in SymbolsIn(store, f) : n = SymbolNode(f, s)
      BY <2>1
    <2>3. n[2] = f /\ n[3] = s.name /\ KindOf(n) = "symbol"
      BY <2>2, NodeNames
    <2>4. WellNode(n)
      BY <2>2, WellNames
    <2>5. s \in symbols(n)
      BY <2>3
    <2> QED
      BY <2>3, <2>4, <2>5
  <1>4. \A n \in fs : WellNode(n) /\ KindOf(n) = "file"
    BY WellNames, NodeNames
  <1>5. \A e \in es : /\ e = <<e[1], e[2], e[3]>> /\ e[2] = "contains"
                      /\ e[3] \in new /\ e[1] = FileNode(e[3][2])
    OBVIOUS
  <1>6. DOMAIN sp = DOMAIN g.span \union new
    OBVIOUS
  <1>7. \A n \in new : \E t \in symbols(n) : sp[n] = <<t.first, LastLine(t)>>
    <2> TAKE n \in new
    <2>1. (CHOOSE s \in symbols(n) : TRUE) \in symbols(n)
      BY <1>3
    <2>2. sp[n] = spanOf(n)
      OBVIOUS
    <2> QED
      BY <2>1, <2>2
  <1>8. \A n \in DOMAIN g.span : n \notin new => sp[n] = g.span[n]
    OBVIOUS
  <1>9. \A f \in files : \A s \in SymbolsIn(store, f) : \E t \in SymbolsIn(store, f) :
            t.name = s.name /\ r.span[SymbolNode(f, s)] = <<t.first, LastLine(t)>>
    <2> TAKE f \in files
    <2> TAKE s \in SymbolsIn(store, f)
    <2> DEFINE n == SymbolNode(f, s)
    <2>1. n \in new /\ n[2] = f /\ n[3] = s.name
      BY <1>1, NodeNames
    <2>2. PICK t \in symbols(n) : sp[n] = <<t.first, LastLine(t)>>
      BY <1>7, <2>1
    <2> QED
      BY <1>2, <2>1, <2>2
  <1> HIDE DEF r, sp, es, new, fs
  <1>10. \A n : n \in AllSymbols(r) <=> n \in AllSymbols(g) \/ n \in new
    BY <1>2, <1>3, <1>4 DEF AllSymbols
  <1>11. Shape(r)
    <2>1. \A n \in r.nodes : WellNode(n)
      BY <1>2, <1>3, <1>4 DEF Shape
    <2>2. \A e \in es : WellEdge(e) /\ e[1] \in r.nodes /\ e[3] \in r.nodes
      <3> TAKE e \in es
      <3>1. /\ e = <<e[1], e[2], e[3]>> /\ e[2] = "contains" /\ e[3] \in new
            /\ e[1] = FileNode(e[3][2]) /\ e[3][2] \in files /\ KindOf(e[3]) = "symbol"
        BY <1>3, <1>5
      <3>2. e[1] \in fs
        BY <3>1 DEF fs
      <3> QED
        BY <1>2, <1>4, <3>1, <3>2 DEF WellEdge, FileKinds
    <2>3. \A e \in r.edges : WellEdge(e) /\ e[1] \in r.nodes /\ e[3] \in r.nodes
      BY <1>2, <2>2 DEF Shape
    <2>4. \A pair \in r.similar : \E s, t \in AllSymbols(r) : pair = {s, t}
      BY <1>2, <1>10 DEF Shape
    <2>5. \A n \in AllSymbols(r) : n \in DOMAIN r.span /\ FileNode(n[2]) \in r.nodes
      <3> TAKE n \in AllSymbols(r)
      <3>1. CASE n \in AllSymbols(g)
        BY <1>2, <1>6, <3>1 DEF Shape
      <3>2. CASE n \in new
        BY <1>2, <1>3, <1>6, <3>2 DEF fs
      <3> QED
        BY <1>10, <3>1, <3>2
    <2>6. \A n \in r.nodes : KindOf(n) \in {"category", "subcategory"} =>
              Edge(r, HangsFrom(n), "feature_parent", n)
      BY <1>2, <1>3, <1>4 DEF Shape, Edge
    <2> QED
      BY <1>2, <2>1, <2>3, <2>4, <2>5, <2>6 DEF Shape
  <1>12. \A e : e[2] # "contains" => (e \in r.edges <=> e \in g.edges)
    BY <1>2, <1>5
  <1>13. SameHierarchy(g, r)
    <2>1. \A n : KindOf(n) \in Layers => (n \in g.nodes <=> n \in r.nodes)
      BY <1>2, <1>3, <1>4 DEF Layers
    <2>2. \A m, n : Edge(g, m, "feature_parent", n) <=> Edge(r, m, "feature_parent", n)
      BY <1>12 DEF Edge
    <2> QED
      BY <2>1, <2>2 DEF SameHierarchy
  <1>14. \A n : n \in r.nodes <=>
            \/ n \in g.nodes
            \/ \E f \in files : n = FileNode(f) \/ \E s \in SymbolsIn(store, f) : n = SymbolNode(f, s)
    BY <1>1, <1>2 DEF fs
  <1>15. \A n \in AllSymbols(g) : n[2] \notin files => r.span[n] = g.span[n]
    BY <1>2, <1>3, <1>8 DEF Shape
  <1> QED
    BY <1>2, <1>9, <1>11, <1>12, <1>13, <1>14, <1>15 DEF r

(***************************************************************************)
(* The events of a file                                                    *)
(***************************************************************************)

\* A step for some files leaves the files and symbols of the others, and of the
\* derived edges and the pairs those whose ends are still there.
Follows(g, r, files) ==
    /\ \A n : KindOf(n) \in {"file", "symbol"} /\ n[2] \notin files => (n \in g.nodes <=> n \in r.nodes)
    /\ \A n \in AllSymbols(g) : n[2] \notin files => r.span[n] = g.span[n]
    /\ \A e : e[2] \in DerivedTypes =>
          (e \in r.edges <=> e \in g.edges /\ e[1] \in r.nodes /\ e[3] \in r.nodes)
    /\ \A pair : pair \in r.similar <=> pair \in g.similar /\ pair \subseteq r.nodes

SameNodes(g, r, f) ==
    /\ NodesOf(r, f) = NodesOf(g, f)
    /\ \A n \in SymbolsOf(g, f) : r.span[n] = g.span[n]

\* The ends of derived edges and of similar pairs are nodes of files.
LEMMA DerivedEnds ==
    ASSUME NEW g, Shape(g)
    PROVE  /\ \A e \in g.edges : e[2] \in DerivedTypes =>
                 /\ e[1] \in g.nodes /\ e[3] \in g.nodes
                 /\ KindOf(e[1]) \in {"file", "symbol"} /\ KindOf(e[3]) \in {"file", "symbol"}
           /\ \A pair \in g.similar : pair \subseteq AllSymbols(g) /\ pair \subseteq g.nodes
  <1>1. \A e \in g.edges : e[2] \in DerivedTypes =>
            /\ e[1] \in g.nodes /\ e[3] \in g.nodes
            /\ KindOf(e[1]) \in {"file", "symbol"} /\ KindOf(e[3]) \in {"file", "symbol"}
    BY DEF Shape, WellEdge, DerivedTypes
  <1>2. \A pair \in g.similar : pair \subseteq AllSymbols(g) /\ pair \subseteq g.nodes
    BY DEF Shape, AllSymbols
  <1> QED
    BY <1>1, <1>2

\* A step that changes one file, and one that keeps the files, change one file.
LEMMA FollowsThenSameFiles ==
    ASSUME NEW g, Shape(g), NEW h, NEW r, NEW files, Follows(g, h, files), SameFiles(h, r)
    PROVE  /\ Follows(g, r, files)
           /\ \A f : SameNodes(g, h, f) => SameNodes(g, r, f)
           /\ \A f : /\ NodesOf(r, f) = NodesOf(h, f) /\ SymbolsOf(r, f) = SymbolsOf(h, f)
                    /\ \A n \in SymbolsOf(h, f) : r.span[n] = h.span[n]
  <1>1. \A n : KindOf(n) \in FileKinds => (n \in h.nodes <=> n \in r.nodes)
    BY DEF SameFiles
  <1>2. \A i : NodesOf(r, i) = NodesOf(h, i)
    BY <1>1 DEF NodesOf
  <1>3. \A n \in AllSymbols(h) : r.span[n] = h.span[n]
    BY DEF SameFiles
  <1>4. \A n : n \in AllSymbols(g) /\ n[2] \notin files => n \in AllSymbols(h)
    BY DEF Follows, AllSymbols
  <1>5. \A i : \A n \in SymbolsOf(h, i) : n \in AllSymbols(h)
    BY DEF SymbolsOf, NodesOf, AllSymbols
  <1>6. Follows(g, r, files)
    <2>1. \A n : KindOf(n) \in {"file", "symbol"} /\ n[2] \notin files =>
                    (n \in g.nodes <=> n \in r.nodes)
      BY <1>1 DEF Follows, FileKinds
    <2>2. \A n \in AllSymbols(g) : n[2] \notin files => r.span[n] = g.span[n]
      BY <1>3, <1>4 DEF Follows
    <2>3. \A e : e[2] \in DerivedTypes =>
              (e \in r.edges <=> e \in g.edges /\ e[1] \in r.nodes /\ e[3] \in r.nodes)
      <3> TAKE e
      <3> SUFFICES ASSUME e[2] \in DerivedTypes
                   PROVE  e \in r.edges <=> e \in g.edges /\ e[1] \in r.nodes /\ e[3] \in r.nodes
        OBVIOUS
      <3>1. e \in r.edges <=> e \in h.edges
        BY DEF SameFiles, DerivedTypes
      <3>2. e \in h.edges <=> e \in g.edges /\ e[1] \in h.nodes /\ e[3] \in h.nodes
        BY DEF Follows
      <3>3. e \in g.edges =>
                KindOf(e[1]) \in {"file", "symbol"} /\ KindOf(e[3]) \in {"file", "symbol"}
        BY DerivedEnds
      <3> QED
        BY <1>1, <3>1, <3>2, <3>3 DEF FileKinds
    <2>4. \A pair : pair \in r.similar <=> pair \in g.similar /\ pair \subseteq r.nodes
      <3> TAKE pair
      <3>1. pair \in r.similar <=> pair \in h.similar
        BY DEF SameFiles
      <3>2. pair \in h.similar <=> pair \in g.similar /\ pair \subseteq h.nodes
        BY DEF Follows
      <3>3. pair \in g.similar => \A n \in pair : KindOf(n) = "symbol"
        BY DerivedEnds DEF AllSymbols
      <3> QED
        BY <1>1, <3>1, <3>2, <3>3 DEF FileKinds
    <2> QED
      BY <2>1, <2>2, <2>3, <2>4 DEF Follows
  <1>7. \A f : SameNodes(g, h, f) => SameNodes(g, r, f)
    <2>1. \A f : SameNodes(g, h, f) => \A n \in SymbolsOf(g, f) : n \in SymbolsOf(h, f)
      BY DEF SameNodes, SymbolsOf
    <2> QED
      BY <1>2, <1>3, <1>5, <2>1 DEF SameNodes
  <1> QED
    BY <1>2, <1>3, <1>5, <1>6, <1>7 DEF SymbolsOf

\* What an event does to the rest of the graph.
EventIs(g, r, f, spare) ==
    /\ Shape(r) /\ Housing(r, SourceFile) /\ Kept(r, spare)
    /\ Follows(g, r, {f})
    /\ \A h \in SourceFile \ {f} : SameNodes(g, r, h)

\* Placing the file ends each of the events that store it.
LEMMA PlaceEventIs ==
    ASSUME NEW g, Shape(g), Housing(g, SourceFile), NEW spare, Kept(g, spare),
           NEW f \in SourceFile, NEW h, Shape(h), SameHierarchy(g, h), Follows(g, h, {f}),
           \A k \in SourceFile \ {f} : SameNodes(g, h, k), FileNode(f) \in h.nodes, NEW words
    PROVE  LET r == PlaceFile(h, f, words)
           IN /\ EventIs(g, r, f, spare)
              /\ SymbolsOf(r, f) = SymbolsOf(h, f)
              /\ \A n \in SymbolsOf(h, f) : r.span[n] = h.span[n]
  <1> DEFINE r == PlaceFile(h, f, words)
  <1>1. Kept(h, spare) /\ \A n : Parents(h, n) = Parents(g, n)
    BY HierarchyStays
  <1>2. Parents(h, FileNode(f)) = {} \/ Housed(h, f)
    <2>1. CASE FileNode(f) \in g.nodes
      BY <2>1, HierarchyStays DEF Housing
    <2>2. CASE FileNode(f) \notin g.nodes
      <3>1. Parents(g, FileNode(f)) = {}
        BY <2>2 DEF Parents, Edge, Shape
      <3> QED
        BY <1>1, <3>1
    <2> QED
      BY <2>1, <2>2
  <1>3. /\ Shape(r) /\ SameFiles(h, r) /\ Housed(r, f) /\ Kept(r, spare)
        /\ \A k \in SourceFile \ {f} : Parents(r, FileNode(k)) = Parents(h, FileNode(k))
    BY <1>1, <1>2, PlaceFileIs
  <1> HIDE DEF r
  <1>4. Housing(r, SourceFile)
    <2> SUFFICES ASSUME NEW k \in SourceFile, FileNode(k) \in r.nodes, k # f
                 PROVE  Housed(r, k)
      BY <1>3 DEF Housing
    <2>1. FileNode(k) \in g.nodes
      BY <1>3, NodeNames DEF SameFiles, Follows, FileKinds
    <2>2. PICK sub \in g.nodes : Parents(g, FileNode(k)) = {sub}
      BY <2>1 DEF Housing, Housed
    <2>3. Parents(r, FileNode(k)) = {sub}
      BY <1>1, <1>3, <2>2
    <2>4. sub \in r.nodes
      BY <2>3 DEF Parents
    <2> QED
      BY <2>3, <2>4 DEF Housed
  <1>5. /\ Follows(g, r, {f})
        /\ \A k : SameNodes(g, h, k) => SameNodes(g, r, k)
        /\ SymbolsOf(r, f) = SymbolsOf(h, f)
        /\ \A n \in SymbolsOf(h, f) : r.span[n] = h.span[n]
    BY <1>3, FollowsThenSameFiles
  <1> QED
    BY <1>3, <1>4, <1>5 DEF EventIs, r

\* A file's symbols, added: the files of the other names stay as they are.
LEMMA AddFollows ==
    ASSUME NEW g, Shape(g), NEW store, NEW f \in SourceFile,
           NEW a, a = AddSymbols(g, store, {f})
    PROVE  /\ Follows(g, a, {f}) /\ FileNode(f) \in a.nodes
           /\ \A h \in SourceFile \ {f} : SameNodes(g, a, h)
           /\ \A n : n \in SymbolsOf(a, f) <=>
                 n \in SymbolsOf(g, f) \/ \E s \in SymbolsIn(store, f) : n = SymbolNode(f, s)
  <1> DEFINE b == AddSymbols(g, store, {f})
  <1>0. a = b
    OBVIOUS
  <1>1. /\ Shape(b)
        /\ \A n : n \in b.nodes <=>
              \/ n \in g.nodes
              \/ n = FileNode(f) \/ \E s \in SymbolsIn(store, f) : n = SymbolNode(f, s)
        /\ \A n \in AllSymbols(g) : n[2] \notin {f} => b.span[n] = g.span[n]
        /\ \A e : e[2] # "contains" => (e \in b.edges <=> e \in g.edges)
        /\ b.similar = g.similar
    <2>1. {f} \in SUBSET SourceFile
      OBVIOUS
    <2> QED
      BY <2>1, AddIs
  <1> HIDE DEF b
  <1>2. \A n : n[2] # f => (n \in g.nodes <=> n \in b.nodes)
    BY <1>1, NodeNames
  <1>3. Follows(g, b, {f})
    <2>1. \A e : e[2] \in DerivedTypes =>
              (e \in b.edges <=> e \in g.edges /\ e[1] \in b.nodes /\ e[3] \in b.nodes)
      BY <1>1, DerivedEnds DEF DerivedTypes
    <2>2. \A pair : pair \in b.similar <=> pair \in g.similar /\ pair \subseteq b.nodes
      BY <1>1, DerivedEnds
    <2> QED
      BY <1>1, <1>2, <2>1, <2>2 DEF Follows
  <1>4. \A h \in SourceFile \ {f} : SameNodes(g, b, h)
    <2> TAKE h \in SourceFile \ {f}
    <2>1. NodesOf(b, h) = NodesOf(g, h)
      BY <1>2 DEF NodesOf
    <2>2. \A n \in SymbolsOf(g, h) : n \in AllSymbols(g) /\ n[2] = h
      BY DEF SymbolsOf, NodesOf, AllSymbols
    <2> QED
      BY <1>1, <2>1, <2>2 DEF SameNodes
  <1>5. \A n : n \in SymbolsOf(b, f) <=>
            n \in SymbolsOf(g, f) \/ \E s \in SymbolsIn(store, f) : n = SymbolNode(f, s)
    BY <1>1, NodeNames DEF SymbolsOf, NodesOf, FileKinds
  <1> QED
    BY <1>0, <1>1, <1>3, <1>4, <1>5

\* A create adds the file's symbols, and takes none away.
LEMMA HandleAddIs ==
    ASSUME NEW g, Shape(g), Housing(g, SourceFile), NEW spare, Kept(g, spare),
           NEW store, NEW f \in SourceFile
    PROVE  LET r == HandleAdd(g, store, f)
           IN /\ EventIs(g, r, f, spare)
              /\ Vanished(g, store, f) = {} => SymbolsMatch(r, store, f)
  <1> DEFINE a == AddSymbols(g, store, {f})
             r == HandleAdd(g, store, f)
  <1>1. /\ Shape(a) /\ SameHierarchy(g, a)
        /\ \A s \in SymbolsIn(store, f) : \E t \in SymbolsIn(store, f) :
              t.name = s.name /\ a.span[SymbolNode(f, s)] = <<t.first, LastLine(t)>>
    <2>1. {f} \in SUBSET SourceFile /\ f \in {f}
      OBVIOUS
    <2> QED
      BY <2>1, AddIs
  <1>2. /\ Follows(g, a, {f}) /\ FileNode(f) \in a.nodes
        /\ \A h \in SourceFile \ {f} : SameNodes(g, a, h)
        /\ \A n : n \in SymbolsOf(a, f) <=>
              n \in SymbolsOf(g, f) \/ \E s \in SymbolsIn(store, f) : n = SymbolNode(f, s)
    <2>1. a = AddSymbols(g, store, {f})
      OBVIOUS
    <2> HIDE DEF a
    <2> QED
      BY <2>1, AddFollows
  <1>3. r = PlaceFile(a, f, {})
    BY DEF HandleAdd
  <1> HIDE DEF a, r
  <1>4. /\ EventIs(g, r, f, spare) /\ SymbolsOf(r, f) = SymbolsOf(a, f)
        /\ \A n \in SymbolsOf(a, f) : r.span[n] = a.span[n]
    BY <1>1, <1>2, <1>3, PlaceEventIs, SMTT(30)
  <1>5. ASSUME Vanished(g, store, f) = {}
        PROVE  SymbolsMatch(r, store, f)
    <2>1. SymbolsOf(g, f) \subseteq {SymbolNode(f, s) : s \in SymbolsIn(store, f)}
      BY <1>5 DEF Vanished
    <2>2. SymbolsOf(r, f) = {SymbolNode(f, s) : s \in SymbolsIn(store, f)}
      BY <1>2, <1>4, <2>1
    <2> QED
      BY <1>1, <1>4, <2>2 DEF SymbolsMatch
  <1> QED
    BY <1>4, <1>5 DEF r

\* A step that takes a file's symbols away changes that file only.
LEMMA RemoveFollows ==
    ASSUME NEW g, NEW f, NEW a, Shape(a), Follows(g, a, {f}),
           \A h \in SourceFile \ {f} : SameNodes(g, a, h),
           NEW R, \A n \in R : KindOf(n) \in FileKinds /\ n[2] = f
    PROVE  LET r == RemoveNodes(a, R)
           IN Follows(g, r, {f}) /\ \A h \in SourceFile \ {f} : SameNodes(g, r, h)
  <1> DEFINE r == RemoveNodes(a, R)
  <1>1. /\ r.nodes = a.nodes \ R
        /\ \A n \in DOMAIN a.span \ R : r.span[n] = a.span[n]
        /\ \A e : e \in r.edges <=> e \in a.edges /\ e[1] \notin R /\ e[3] \notin R
        /\ \A pair : pair \in r.similar <=> pair \in a.similar /\ pair \intersect R = {}
    BY Removed
  <1> HIDE DEF r
  <1>2. \A n \in AllSymbols(g) : n[2] # f => n \in AllSymbols(a) /\ n \notin R
    BY DEF Follows, AllSymbols
  <1>3. \A n \in AllSymbols(a) : n \in DOMAIN a.span
    BY DEF Shape
  <1>4. Follows(g, r, {f})
    <2>1. \A n : KindOf(n) \in {"file", "symbol"} /\ n[2] \notin {f} =>
                    (n \in g.nodes <=> n \in r.nodes)
      BY <1>1 DEF Follows
    <2>2. \A n \in AllSymbols(g) : n[2] \notin {f} => r.span[n] = g.span[n]
      BY <1>1, <1>2, <1>3 DEF Follows
    <2>3. \A e : e[2] \in DerivedTypes =>
              (e \in r.edges <=> e \in g.edges /\ e[1] \in r.nodes /\ e[3] \in r.nodes)
      BY <1>1 DEF Follows
    <2>4. \A pair : pair \in r.similar <=> pair \in g.similar /\ pair \subseteq r.nodes
      BY <1>1 DEF Follows
    <2> QED
      BY <2>1, <2>2, <2>3, <2>4 DEF Follows
  <1>5. ASSUME NEW h \in SourceFile \ {f}
        PROVE  SameNodes(g, r, h)
    <2>1. NodesOf(r, h) = NodesOf(a, h)
      BY <1>1 DEF NodesOf
    <2>2. SameNodes(g, a, h)
      OBVIOUS
    <2>3. \A n \in SymbolsOf(g, h) : n \in AllSymbols(a) /\ n \notin R
      BY <2>2 DEF SameNodes, SymbolsOf, NodesOf, AllSymbols
    <2> QED
      BY <1>1, <1>3, <2>1, <2>2, <2>3 DEF SameNodes
  <1> QED
    BY <1>4, <1>5 DEF r

\* The symbols that are left are those that were not taken.
LEMMA RemovedSymbols ==
    ASSUME NEW a, Shape(a), NEW f, NEW R
    PROVE  LET r == RemoveNodes(a, R)
           IN /\ SymbolsOf(r, f) = SymbolsOf(a, f) \ R
              /\ \A n \in SymbolsOf(r, f) : r.span[n] = a.span[n]
  <1> DEFINE r == RemoveNodes(a, R)
  <1>1. r.nodes = a.nodes \ R /\ \A n \in DOMAIN a.span \ R : r.span[n] = a.span[n]
    BY Removed
  <1> HIDE DEF r
  <1>2. SymbolsOf(r, f) = SymbolsOf(a, f) \ R
    BY <1>1 DEF SymbolsOf, NodesOf
  <1>3. \A n \in SymbolsOf(r, f) : n \in AllSymbols(a) /\ n \notin R
    BY <1>2 DEF SymbolsOf, NodesOf, AllSymbols
  <1> QED
    BY <1>1, <1>2, <1>3 DEF Shape, r

\* A modify leaves the file with its symbols of now.
LEMMA HandleModifyIs ==
    ASSUME NEW g, Shape(g), Housing(g, SourceFile), NEW spare, Kept(g, spare),
           NEW store, NEW f \in SourceFile
    PROVE  LET r == HandleModify(g, store, f)
           IN EventIs(g, r, f, spare) /\ SymbolsMatch(r, store, f)
  <1> DEFINE a == AddSymbols(g, store, {f})
             V == Vanished(g, store, f)
             b == RemoveNodes(a, V)
             r == HandleModify(g, store, f)
  <1>1. /\ Shape(a) /\ SameHierarchy(g, a)
        /\ \A s \in SymbolsIn(store, f) : \E t \in SymbolsIn(store, f) :
              t.name = s.name /\ a.span[SymbolNode(f, s)] = <<t.first, LastLine(t)>>
    <2>1. {f} \in SUBSET SourceFile /\ f \in {f}
      OBVIOUS
    <2> QED
      BY <2>1, AddIs
  <1>2. /\ Follows(g, a, {f}) /\ FileNode(f) \in a.nodes
        /\ \A h \in SourceFile \ {f} : SameNodes(g, a, h)
        /\ \A n : n \in SymbolsOf(a, f) <=>
              n \in SymbolsOf(g, f) \/ \E s \in SymbolsIn(store, f) : n = SymbolNode(f, s)
    <2>1. a = AddSymbols(g, store, {f})
      OBVIOUS
    <2> HIDE DEF a
    <2> QED
      BY <2>1, AddFollows
  <1>3. r = PlaceFile(b, f, FileWords(g, f))
    BY DEF HandleModify
  <1>4. \A n \in V : KindOf(n) = "symbol" /\ n[2] = f
    BY DEF Vanished, SymbolsOf, NodesOf
  <1>5. \A n : n \in V <=> n \in SymbolsOf(g, f) /\ \A s \in SymbolsIn(store, f) : n # SymbolNode(f, s)
    BY DEF Vanished
  <1> HIDE DEF a, V, r
  <1>6. Shape(b)
    BY <1>1, <1>4, RemoveKeepsShape DEF Layers
  <1>7. /\ Follows(g, b, {f}) /\ \A h \in SourceFile \ {f} : SameNodes(g, b, h)
        /\ SymbolsOf(b, f) = SymbolsOf(a, f) \ V
        /\ \A n \in SymbolsOf(b, f) : b.span[n] = a.span[n]
    <2>1. \A n \in V : KindOf(n) \in FileKinds /\ n[2] = f
      BY <1>4 DEF FileKinds
    <2> HIDE DEF b
    <2>2. LET e == RemoveNodes(a, V)
          IN Follows(g, e, {f}) /\ \A h \in SourceFile \ {f} : SameNodes(g, e, h)
      BY <1>1, <1>2, <2>1, RemoveFollows
    <2>3. /\ SymbolsOf(b, f) = SymbolsOf(a, f) \ V
          /\ \A n \in SymbolsOf(b, f) : b.span[n] = a.span[n]
      BY <1>1, RemovedSymbols DEF b
    <2> QED
      BY <2>2, <2>3 DEF b
  <1>8. /\ b.nodes = a.nodes \ V
        /\ \A e : e \in b.edges <=> e \in a.edges /\ e[1] \notin V /\ e[3] \notin V
    BY Removed
  <1> HIDE DEF b
  <1>9. FileNode(f) \in b.nodes
    BY <1>2, <1>4, <1>8, NodeNames
  <1>10. SameHierarchy(g, b)
    <2>1. \A n : KindOf(n) \in Layers => (n \in g.nodes <=> n \in b.nodes)
      BY <1>1, <1>4, <1>8 DEF SameHierarchy, Layers
    <2>2. ASSUME NEW m, NEW n, Edge(a, m, "feature_parent", n)
          PROVE  m \notin V /\ n \notin V
      <3>1. n \in Children(a, m, "feature_parent")
        BY <1>1, <2>2 DEF Children, Edge, Shape
      <3>2. KindOf(m) \in Layers /\ KindOf(n) \in {"category", "subcategory", "file"}
        BY <1>1, <3>1, ChildKinds
      <3> QED
        BY <1>4, <3>2 DEF Layers
    <2>3. \A m, n : Edge(g, m, "feature_parent", n) <=> Edge(b, m, "feature_parent", n)
      BY <1>1, <1>8, <2>2 DEF SameHierarchy, Edge
    <2> QED
      BY <2>1, <2>3 DEF SameHierarchy
  <1>11. /\ EventIs(g, r, f, spare) /\ SymbolsOf(r, f) = SymbolsOf(b, f)
         /\ \A n \in SymbolsOf(b, f) : r.span[n] = b.span[n]
    BY <1>3, <1>6, <1>7, <1>9, <1>10, PlaceEventIs, SMTT(30)
  <1>12. SymbolsMatch(r, store, f)
    <2>1. \A n : n \in SymbolsOf(r, f) <=> \E s \in SymbolsIn(store, f) : n = SymbolNode(f, s)
      BY <1>2, <1>5, <1>7, <1>11
    <2>2. SymbolsOf(r, f) = {SymbolNode(f, s) : s \in SymbolsIn(store, f)}
      BY <2>1
    <2> QED
      BY <1>1, <1>7, <1>11, <2>2 DEF SymbolsMatch
  <1> QED
    BY <1>11, <1>12 DEF r

\* A file changes while nothing does.
LEMMA FollowsItself ==
    ASSUME NEW g, Shape(g), NEW files
    PROVE  Follows(g, g, files) /\ \A f : SameNodes(g, g, f)
  <1>1. \A e : e[2] \in DerivedTypes =>
            (e \in g.edges <=> e \in g.edges /\ e[1] \in g.nodes /\ e[3] \in g.nodes)
    BY DerivedEnds
  <1>2. \A pair : pair \in g.similar <=> pair \in g.similar /\ pair \subseteq g.nodes
    BY DerivedEnds
  <1> QED
    BY <1>1, <1>2 DEF Follows, SameNodes

\* A delete leaves nothing of the file.
LEMMA HandleDeleteIs ==
    ASSUME NEW g, Shape(g), Housing(g, SourceFile), NEW spare, Kept(g, spare),
           NEW f \in SourceFile
    PROVE  LET r == HandleDelete(g, f)
           IN EventIs(g, r, f, spare) /\ NodesOf(r, f) = {}
  <1> DEFINE Q == NodesOf(g, f)
             S == Parents(g, FileNode(f))
             one == RemoveNodes(g, Q)
             r == HandleDelete(g, f)
  <1>1. \A n \in Q : KindOf(n) \in FileKinds /\ n[2] = f /\ n \in g.nodes
    BY DEF NodesOf
  <1>2. r = PruneOrphans(one, S)
    BY DEF HandleDelete
  <1>3. one.nodes = g.nodes \ Q
    BY Removed
  <1>4. Shape(one)
    <2>1. \A n \in Q : KindOf(n) = "file" => SymbolsOf(g, n[2]) \subseteq Q
      BY <1>1 DEF SymbolsOf
    <2>2. \A n \in Q : KindOf(n) \notin Layers
      BY <1>1 DEF Layers, FileKinds
    <2> HIDE DEF Q
    <2> QED
      BY <2>1, <2>2, RemoveKeepsShape
  <1>5. Follows(g, one, {f}) /\ \A h \in SourceFile \ {f} : SameNodes(g, one, h)
    <2> HIDE DEF Q
    <2> QED
      BY <1>1, FollowsItself, RemoveFollows
  <1>6. \A n \in S : KindOf(n) = "subcategory"
    <2> TAKE n \in S
    <2>1. MayHang(n, FileNode(f))
      BY DEF Parents, Edge, Shape, WellEdge
    <2> QED
      BY <2>1, NodeNames DEF MayHang
  <1> HIDE DEF r
  <1>7. Kept(one, spare \union S)
    <2> SUFFICES ASSUME NEW n \in one.nodes, KindOf(n) \in Layers,
                        Children(one, n, "feature_parent") = {}
                 PROVE  n \in spare \union S
      BY DEF Kept
    <2>1. n \in g.nodes /\ n \notin Q
      BY <1>3
    <2>2. Children(g, n, "feature_parent") \subseteq Q
      <3> HIDE DEF Q
      <3> QED
        BY <2>1, ChildrenLeft
    <2>3. CASE Children(g, n, "feature_parent") = {}
      BY <2>1, <2>3 DEF Kept
    <2>4. CASE Children(g, n, "feature_parent") # {}
      <3>1. PICK m \in Children(g, n, "feature_parent") : m \in Q
        BY <2>2, <2>4
      <3>2. KindOf(m) \in {"category", "subcategory", "file"} /\ n \in Parents(g, m)
            /\ m \in g.nodes
        BY <3>1, ChildKinds
      <3>3. KindOf(m) = "file" /\ m[2] = f
        BY <1>1, <3>1, <3>2 DEF FileKinds
      <3>4. m = FileNode(f)
        BY <3>2, <3>3, NodeNames DEF Shape
      <3> QED
        BY <3>2, <3>4
    <2> QED
      BY <2>3, <2>4
  <1>8. PICK R \in SUBSET one.nodes :
           /\ r = RemoveNodes(one, R) /\ Kept(r, spare)
           /\ \A n \in R : KindOf(n) \in Layers /\ Children(one, n, "feature_parent") \subseteq R
    <2> HIDE DEF one, S
    <2> QED
      BY <1>2, <1>4, <1>6, <1>7, PruneIs
  <1>9. Shape(r) /\ SameFiles(one, r) /\ SameParents(one, r)
    BY <1>4, <1>8, PruneKeepsFiles
  <1>10. /\ Follows(g, r, {f}) /\ \A h \in SourceFile \ {f} : SameNodes(g, r, h)
         /\ NodesOf(r, f) = NodesOf(one, f)
    BY <1>5, <1>9, FollowsThenSameFiles
  <1>11. NodesOf(r, f) = {}
    BY <1>3, <1>10 DEF NodesOf
  <1>12. Housing(r, SourceFile)
    <2> SUFFICES ASSUME NEW k \in SourceFile, FileNode(k) \in r.nodes
                 PROVE  Housed(r, k)
      BY DEF Housing
    <2>1. FileNode(k) \in one.nodes
      BY <1>9, NodeNames DEF SameFiles, FileKinds
    <2>2. FileNode(k) \in g.nodes /\ FileNode(k) \notin Q
      BY <1>3, <2>1
    <2>3. PICK sub \in g.nodes : Parents(g, FileNode(k)) = {sub}
      BY <2>2 DEF Housing, Housed
    <2>4. sub \notin Q
      <3>1. MayHang(sub, FileNode(k))
        <4>1. sub \in Parents(g, FileNode(k))
          BY <2>3
        <4> QED
          BY <4>1 DEF Parents, Edge, Shape, WellEdge
      <3>2. KindOf(sub) = "subcategory"
        BY <3>1, NodeNames DEF MayHang
      <3> QED
        BY <1>1, <3>2 DEF FileKinds
    <2>5. Parents(one, FileNode(k)) = {sub}
      <3> HIDE DEF Q
      <3> QED
        BY <2>2, <2>3, <2>4, ParentsLeft
    <2>6. Parents(r, FileNode(k)) = {sub}
      BY <1>9, <2>5, NodeNames DEF SameParents
    <2>7. sub \in r.nodes
      BY <2>6 DEF Parents
    <2> QED
      BY <2>6, <2>7 DEF Housed
  <1> QED
    BY <1>8, <1>9, <1>10, <1>11, <1>12 DEF EventIs, r

\* The chunks of the files are linked again; symbols and derived edges stay.
LEMMA LinkChunksIs ==
    ASSUME NEW g, Shape(g), NEW store, NEW files \in SUBSET SourceFile
    PROVE  LET r == LinkChunks(g, store, files)
           IN /\ Shape(r) /\ SameHierarchy(g, r) /\ Follows(g, r, {})
              /\ \A n : KindOf(n) # "chunk" => (n \in r.nodes <=> n \in g.nodes)
              /\ \A n \in AllSymbols(g) : r.span[n] = g.span[n]
              /\ \A f : f \notin files => SameNodes(g, r, f)
              /\ \A f \in files : store[f] # Absent => ChunksMatch(r, store, f)
  <1> DEFINE chunk(f, c) == <<"chunk", f, c[1]>>
             old == {n \in g.nodes : KindOf(n) = "chunk" /\ n[2] \in files}
             bare == RemoveNodes(g, old)
             over(s, f) == {c \in store[f].chunks : Overlaps(g.span[s], c)}
             new == UNION {{chunk(f, c) : c \in store[f].chunks} : f \in files}
             es == UNION {UNION {{<<s, "maps_to_chunk", chunk(f, c)>> : c \in over(s, f)}
                                    : s \in SymbolsOf(g, f)} : f \in files}
             r == LinkChunks(g, store, files)
  <1>1. r = [bare EXCEPT !.nodes = @ \union new, !.edges = @ \union es]
    BY DEF LinkChunks
  <1>2. /\ bare.nodes = g.nodes \ old
        /\ DOMAIN bare.span = DOMAIN g.span \ old
        /\ \A n \in DOMAIN g.span \ old : bare.span[n] = g.span[n]
        /\ \A e : e \in bare.edges <=> e \in g.edges /\ e[1] \notin old /\ e[3] \notin old
        /\ \A pair : pair \in bare.similar <=> pair \in g.similar /\ pair \intersect old = {}
    BY Removed
  <1>3. \A n \in old : KindOf(n) = "chunk" /\ n[2] \in files
    OBVIOUS
  <1>4. Shape(bare)
    <2> HIDE DEF old
    <2> QED
      BY <1>3, RemoveKeepsShape DEF Layers
  <1>5. \A n : n \in new <=> \E f \in files : \E c \in store[f].chunks : n = chunk(f, c)
    OBVIOUS
  <1>6. \A n \in new : WellNode(n) /\ KindOf(n) = "chunk" /\ n[2] \in files
    <2> TAKE n \in new
    <2>1. PICK f \in files : \E c \in store[f].chunks : n = chunk(f, c)
      BY <1>5
    <2> QED
      BY <2>1, WellNames DEF KindOf
  <1>7. \A e \in es : /\ e = <<e[1], e[2], e[3]>> /\ e[2] = "maps_to_chunk"
                      /\ e[1] \in AllSymbols(g) /\ e[3] \in new
    <2> TAKE e \in es
    <2>1. PICK f \in files : \E s \in SymbolsOf(g, f) :
             e \in {<<s, "maps_to_chunk", chunk(f, c)>> : c \in over(s, f)}
      OBVIOUS
    <2>2. PICK s \in SymbolsOf(g, f) :
             e \in {<<s, "maps_to_chunk", chunk(f, c)>> : c \in over(s, f)}
      BY <2>1
    <2>3. PICK c \in store[f].chunks : e = <<s, "maps_to_chunk", chunk(f, c)>>
      BY <2>2
    <2>4. chunk(f, c) \in new
      BY <1>5
    <2>5. s \in AllSymbols(g)
      BY DEF SymbolsOf, NodesOf, AllSymbols
    <2> QED
      BY <2>3, <2>4, <2>5
  <1> HIDE DEF r, es, new, old, bare
  <1>8. /\ r.nodes = bare.nodes \union new /\ r.span = bare.span
        /\ r.edges = bare.edges \union es /\ r.similar = bare.similar
        /\ r = [nodes |-> r.nodes, span |-> r.span, edges |-> r.edges, similar |-> r.similar]
    <2>1. bare = [nodes |-> bare.nodes, span |-> bare.span,
                  edges |-> bare.edges, similar |-> bare.similar]
      BY <1>4 DEF Shape
    <2> QED
      BY <1>1, <2>1
  <1>9. \A n : KindOf(n) # "chunk" => (n \in r.nodes <=> n \in g.nodes)
    BY <1>2, <1>3, <1>6, <1>8
  <1>10. AllSymbols(r) = AllSymbols(g) /\ AllSymbols(bare) = AllSymbols(g)
    BY <1>2, <1>3, <1>9 DEF AllSymbols
  <1>11. \A n \in AllSymbols(g) : r.span[n] = g.span[n]
    BY <1>2, <1>3, <1>8 DEF Shape, AllSymbols
  <1>12. \A e : e[2] # "maps_to_chunk" => (e \in r.edges <=> e \in bare.edges)
    BY <1>7, <1>8
  <1>13. Shape(r)
    <2>1. \A n \in r.nodes : WellNode(n)
      BY <1>4, <1>6, <1>8 DEF Shape
    <2>2. \A e \in es : WellEdge(e) /\ e[1] \in r.nodes /\ e[3] \in r.nodes
      <3> TAKE e \in es
      <3>1. /\ e = <<e[1], e[2], e[3]>> /\ e[2] = "maps_to_chunk"
            /\ KindOf(e[1]) = "symbol" /\ KindOf(e[3]) = "chunk"
            /\ e[1] \in g.nodes /\ e[3] \in new
        BY <1>6, <1>7 DEF AllSymbols
      <3> QED
        BY <1>8, <1>9, <3>1 DEF WellEdge, FileKinds
    <2>3. \A e \in r.edges : WellEdge(e) /\ e[1] \in r.nodes /\ e[3] \in r.nodes
      BY <1>4, <1>8, <2>2 DEF Shape
    <2>4. \A n \in r.nodes : KindOf(n) \in {"category", "subcategory"} =>
              Edge(r, HangsFrom(n), "feature_parent", n)
      BY <1>4, <1>6, <1>8 DEF Shape, Edge
    <2>5. \A n \in AllSymbols(r) : n \in DOMAIN r.span /\ FileNode(n[2]) \in r.nodes
      BY <1>4, <1>8, <1>10 DEF Shape
    <2> QED
      BY <1>4, <1>8, <1>10, <2>1, <2>3, <2>4, <2>5 DEF Shape
  <1>14. SameHierarchy(g, r)
    <2>1. ASSUME NEW m, NEW n, Edge(g, m, "feature_parent", n)
          PROVE  m \notin old /\ n \notin old
      <3>1. n \in Children(g, m, "feature_parent")
        BY <2>1 DEF Children, Edge, Shape
      <3>2. KindOf(m) \in Layers /\ KindOf(n) \in {"category", "subcategory", "file"}
        BY <3>1, ChildKinds
      <3> QED
        BY <1>3, <3>2 DEF Layers
    <2>2. \A m, n : Edge(g, m, "feature_parent", n) <=> Edge(r, m, "feature_parent", n)
      BY <1>2, <1>12, <2>1 DEF Edge
    <2> QED
      BY <1>9, <2>2 DEF SameHierarchy, Layers
  <1>15. Follows(g, r, {})
    <2>1. ASSUME NEW e, e[2] \in DerivedTypes
          PROVE  e \in r.edges <=> e \in g.edges /\ e[1] \in r.nodes /\ e[3] \in r.nodes
      <3>1. e \in r.edges <=> e \in bare.edges
        BY <1>12, <2>1 DEF DerivedTypes
      <3>2. e \in g.edges => /\ e[1] \in g.nodes /\ e[3] \in g.nodes
                             /\ KindOf(e[1]) \in {"file", "symbol"} /\ KindOf(e[3]) \in {"file", "symbol"}
        BY <2>1, DerivedEnds
      <3> QED
        BY <1>2, <1>3, <1>9, <3>1, <3>2
    <2>2. ASSUME NEW pair
          PROVE  pair \in r.similar <=> pair \in g.similar /\ pair \subseteq r.nodes
      <3>1. pair \in g.similar => pair \subseteq AllSymbols(g)
        BY DerivedEnds
      <3>2. \A n \in AllSymbols(g) : n \notin old /\ n \in r.nodes
        BY <1>3, <1>9 DEF AllSymbols
      <3> QED
        BY <1>2, <1>8, <3>1, <3>2
    <2> QED
      BY <1>9, <1>11, <2>1, <2>2 DEF Follows
  <1>16. ASSUME NEW f, f \notin files
         PROVE  SameNodes(g, r, f)
    <2>1. \A n : n[2] = f => (n \in r.nodes <=> n \in g.nodes)
      BY <1>2, <1>3, <1>6, <1>8, <1>16
    <2>2. NodesOf(r, f) = NodesOf(g, f)
      BY <2>1 DEF NodesOf
    <2> QED
      BY <1>11, <2>2 DEF SameNodes, SymbolsOf, NodesOf, AllSymbols
  <1>17. ASSUME NEW f \in files
         PROVE  {n[3] : n \in {n \in NodesOf(r, f) : KindOf(n) = "chunk"}}
                   = {c[1] : c \in store[f].chunks}
    <2> DEFINE these == {n \in NodesOf(r, f) : KindOf(n) = "chunk"}
    <2>1. \A n : n \in these <=> \E c \in store[f].chunks : n = chunk(f, c)
      <3>1. \A n : n \in these <=> n \in r.nodes /\ KindOf(n) = "chunk" /\ n[2] = f
        BY DEF NodesOf, FileKinds
      <3>2. \A n : n \in r.nodes /\ KindOf(n) = "chunk" /\ n[2] = f <=> n \in new /\ n[2] = f
        BY <1>2, <1>6, <1>8 DEF old
      <3>3. \A n : n \in new /\ n[2] = f <=> \E c \in store[f].chunks : n = chunk(f, c)
        BY <1>5
      <3> QED
        BY <3>1, <3>2, <3>3
    <2> HIDE DEF these
    <2>2. \A c : chunk(f, c)[3] = c[1]
      OBVIOUS
    <2> HIDE DEF chunk
    <2> QED
      BY <2>1, <2>2 DEF these
  <1>18. \A f \in files : store[f] # Absent => ChunksMatch(r, store, f)
    BY <1>17 DEF ChunksMatch
  <1> QED
    BY <1>9, <1>11, <1>13, <1>14, <1>15, <1>16, <1>18 DEF r

(***************************************************************************)
(* The derived edges                                                       *)
(***************************************************************************)

\* Files whose stores have changed may come to more, and names that wait may too.
LEMMA DerivedWeakens ==
    ASSUME NEW g, NEW store, NEW P, NEW N, NEW P2, NEW N2, P \subseteq P2, N \subseteq N2,
           EdgesAreDerived(g, store, P, N)
    PROVE  EdgesAreDerived(g, store, P2, N2)
  BY DEF EdgesAreDerived

\* A step for files that wait keeps the rest derived, if the names that gain or lose a
\* node wait too.
LEMMA FollowsKeepsDerived ==
    ASSUME NEW g, Shape(g), NEW r, Shape(r), NEW files, Follows(g, r, files),
           NEW store, NEW P, files \subseteq P, NEW N, NEW N2, N \subseteq N2,
           \A s : ~(s \in AllSymbols(g) <=> s \in AllSymbols(r)) => s[3] \in N2,
           EdgesAreDerived(g, store, P, N)
    PROVE  EdgesAreDerived(r, store, P, N2)
  <1>1. \A e : e[2] \in DerivedTypes =>
            (e \in r.edges <=> e \in g.edges /\ e[1] \in r.nodes /\ e[3] \in r.nodes)
    BY DEF Follows
  <1>2. ASSUME NEW f, f \notin P
        PROVE  /\ SymbolsOf(r, f) = SymbolsOf(g, f)
               /\ \A n \in SymbolsOf(g, f) : r.span[n] = g.span[n] /\ n \in AllSymbols(g) /\ n \in r.nodes
    <2>1. f \notin files
      BY <1>2
    <2>2. SymbolsOf(r, f) = SymbolsOf(g, f)
      BY <2>1 DEF Follows, SymbolsOf, NodesOf
    <2> QED
      BY <2>1, <2>2 DEF Follows, SymbolsOf, NodesOf, AllSymbols
  <1>3. \A e \in r.edges : e[2] = "invokes" /\ e[1][2] \notin P =>
            /\ store[e[1][2]] # Absent
            /\ \E call \in store[e[1][2]].calls : call.from = e[1][3] /\ call.to = e[3][3]
    BY <1>1 DEF EdgesAreDerived, DerivedTypes
  <1>4. ASSUME NEW f \in Present(store) \ P, NEW call \in store[f].calls,
               NEW callee \in AllSymbols(r), NEW caller \in CallerNode(r, f, call),
               call.to \notin N2, Candidates(r, f, call.to) = {callee}
        PROVE  Edge(r, caller, "invokes", callee)
    <2>1. \A s : s[3] = call.to => (s \in AllSymbols(g) <=> s \in AllSymbols(r))
      BY <1>4
    <2>2. {s \in AllSymbols(r) : s[3] = call.to} = {s \in AllSymbols(g) : s[3] = call.to}
      BY <2>1
    <2>3. Candidates(g, f, call.to) = Candidates(r, f, call.to)
      BY <2>2 DEF Candidates
    <2>4. callee[3] = call.to
      BY <1>4 DEF Candidates
    <2>5. callee \in AllSymbols(g)
      BY <2>1, <2>4
    <2>6. caller \in CallerNode(g, f, call) /\ caller \in r.nodes
      BY <1>2 DEF CallerNode
    <2>7. Edge(g, caller, "invokes", callee)
      BY <1>4, <2>3, <2>5, <2>6 DEF EdgesAreDerived
    <2>8. callee \in r.nodes
      BY DEF AllSymbols
    <2> QED
      BY <1>1, <2>6, <2>7, <2>8 DEF Edge, DerivedTypes
  <1>5. ASSUME NEW f \in SourceFile \ P, NEW h \in SourceFile \ P, f # h
        PROVE  Edge(r, FileNode(f), "imports", FileNode(h))
                 <=> \E s \in SymbolsOf(r, f) : Callees(r, s) \intersect SymbolsOf(r, h) # {}
    <2>1. Edge(r, FileNode(f), "imports", FileNode(h)) <=> Edge(g, FileNode(f), "imports", FileNode(h))
      <3>1. FileNode(f) \in g.nodes <=> FileNode(f) \in r.nodes
        BY NodeNames DEF Follows
      <3>2. FileNode(h) \in g.nodes <=> FileNode(h) \in r.nodes
        BY NodeNames DEF Follows
      <3>3. Edge(g, FileNode(f), "imports", FileNode(h)) => FileNode(f) \in g.nodes /\ FileNode(h) \in g.nodes
        BY DEF Edge, Shape
      <3> QED
        BY <1>1, <3>1, <3>2, <3>3 DEF Edge, DerivedTypes
    <2>2. \A s \in SymbolsOf(g, f), t \in SymbolsOf(g, h) :
              Edge(r, s, "invokes", t) <=> Edge(g, s, "invokes", t)
      BY <1>1, <1>2 DEF Edge, DerivedTypes
    <2>3. (\E s \in SymbolsOf(r, f) : Callees(r, s) \intersect SymbolsOf(r, h) # {})
             <=> \E s \in SymbolsOf(g, f), t \in SymbolsOf(g, h) : Edge(r, s, "invokes", t)
      <3>1. \A t \in SymbolsOf(r, h) : t \in r.nodes
        BY DEF SymbolsOf, NodesOf
      <3> QED
        BY <1>2, <3>1 DEF Callees, Children
    <2>4. (\E s \in SymbolsOf(g, f) : Callees(g, s) \intersect SymbolsOf(g, h) # {})
             <=> \E s \in SymbolsOf(g, f), t \in SymbolsOf(g, h) : Edge(g, s, "invokes", t)
      <3>1. \A t \in SymbolsOf(g, h) : t \in g.nodes
        BY DEF SymbolsOf, NodesOf
      <3> QED
        BY <3>1 DEF Callees, Children
    <2>5. Edge(g, FileNode(f), "imports", FileNode(h))
             <=> \E s \in SymbolsOf(g, f) : Callees(g, s) \intersect SymbolsOf(g, h) # {}
      BY <1>5 DEF EdgesAreDerived
    <2> QED
      BY <2>1, <2>2, <2>3, <2>4, <2>5
  <1>6. ASSUME NEW s \in AllSymbols(r), NEW t \in AllSymbols(r), s[2] \notin P, t[2] \notin P, Alike(s, t)
        PROVE  {s, t} \in r.similar
    <2>1. s \in AllSymbols(g) /\ t \in AllSymbols(g)
      BY <1>6 DEF Follows, AllSymbols
    <2>2. {s, t} \in g.similar
      BY <1>6, <2>1 DEF EdgesAreDerived
    <2>3. {s, t} \subseteq r.nodes
      BY DEF AllSymbols
    <2> QED
      BY <2>2, <2>3 DEF Follows
  <1> QED
    BY <1>3, <1>4, <1>5, <1>6 DEF EdgesAreDerived

\* What a refresh for some files does: the nodes and the hierarchy stay, ...
LEMMA RefreshKeeps ==
    ASSUME NEW g, Shape(g), NEW store, NEW C, NEW first
    PROVE  LET r == RefreshDerivedEdges(g, store, C, first)
           IN /\ Shape(r) /\ SameHierarchy(g, r)
              /\ r.nodes = g.nodes /\ r.span = g.span
              /\ \A f : SameNodes(g, r, f)
  <1> DEFINE w0 == WithoutDerived(g, C)
             w1 == WireInvocations(w0, store, C, first)
             w2 == WireImports(w1, C)
             w3 == WireFeatureSimilarity(w2, C)
             r == RefreshDerivedEdges(g, store, C, first)
  <1>0. g = [nodes |-> g.nodes, span |-> g.span, edges |-> g.edges, similar |-> g.similar]
    BY DEF Shape
  <1>1. /\ w0.nodes = g.nodes /\ w0.span = g.span /\ w0.edges \subseteq g.edges
        /\ w0.similar \subseteq g.similar
        /\ \A e \in g.edges : e[2] \notin DerivedTypes => e \in w0.edges
        /\ w0 = [nodes |-> w0.nodes, span |-> w0.span, edges |-> w0.edges, similar |-> w0.similar]
    <2> DEFINE es == {e \in g.edges : e[2] \notin DerivedTypes
                                      \/ (e[1][2] \notin C /\ e[3][2] \notin C)}
               ps == {pair \in g.similar : \A s \in pair : s[2] \notin C}
    <2>1. w0 = [g EXCEPT !.edges = es, !.similar = ps]
      BY DEF WithoutDerived
    <2>2. /\ es \subseteq g.edges /\ ps \subseteq g.similar
          /\ \A e \in g.edges : e[2] \notin DerivedTypes => e \in es
      OBVIOUS
    <2> HIDE DEF es, ps, w0
    <2> QED
      BY <1>0, <2>1, <2>2
  <1> HIDE DEF w0
  <1>2. /\ w1.nodes = g.nodes /\ w1.span = g.span /\ w1.similar = w0.similar
        /\ w1 = [nodes |-> w1.nodes, span |-> w1.span, edges |-> w1.edges, similar |-> w1.similar]
    <2>1. PICK es : w1 = [w0 EXCEPT !.edges = @ \union es]
      BY DEF WireInvocations, AddEdges
    <2> HIDE DEF w1
    <2> QED
      BY <1>1, <2>1
  <1>3. AllSymbols(w0) = AllSymbols(g)
    BY <1>1 DEF AllSymbols
  <1>4. \A e : e \in w1.edges => e \in w0.edges \/
            /\ e = <<e[1], e[2], e[3]>> /\ e[2] = "invokes"
            /\ e[1] \in AllSymbols(g) /\ e[3] \in AllSymbols(g)
    <2> SUFFICES ASSUME NEW e, e \in w1.edges, e \notin w0.edges
                 PROVE  /\ e = <<e[1], e[2], e[3]>> /\ e[2] = "invokes"
                        /\ e[1] \in AllSymbols(g) /\ e[3] \in AllSymbols(g)
      OBVIOUS
    <2> DEFINE wired(f, call) == {p \in CallerNode(w0, f, call) \X BestCallee(w0, f, call.to, first) :
                              f \in C \/ p[2][2] \in C}
               ofFile(f) == UNION {{<<p[1], "invokes", p[2]>> : p \in wired(f, call)}
                                    : call \in store[f].calls}
    <2>1. e \in UNION {ofFile(f) : f \in Present(store)}
      BY <1>1 DEF WireInvocations, AddEdges
    <2>2. PICK f \in Present(store) : e \in ofFile(f)
      BY <2>1
    <2>3. PICK call \in store[f].calls : e \in {<<p[1], "invokes", p[2]>> : p \in wired(f, call)}
      BY <2>2
    <2>4. PICK p \in wired(f, call) : e = <<p[1], "invokes", p[2]>>
      BY <2>3
    <2>5. p[1] \in CallerNode(w0, f, call) /\ p[2] \in BestCallee(w0, f, call.to, first)
      OBVIOUS
    <2>6. p[1] \in AllSymbols(w0)
      BY <2>5 DEF CallerNode, SymbolsOf, NodesOf, AllSymbols
    <2>7. p[2] \in AllSymbols(w0)
      <3>1. Candidates(w0, f, call.to) \subseteq AllSymbols(w0)
        BY DEF Candidates
      <3> QED
        BY <2>5, <3>1 DEF BestCallee
    <2> QED
      BY <1>3, <2>4, <2>6, <2>7
  <1>5. w0.edges \subseteq w1.edges
    BY <1>1 DEF WireInvocations, AddEdges
  <1> HIDE DEF w1
  <1> DEFINE E == {e \in w1.edges : /\ e[2] = "invokes" /\ e[1][2] # e[3][2]
                               /\ {e[1][2], e[3][2]} \intersect C # {}
                               /\ {FileNode(e[1][2]), FileNode(e[3][2])} \subseteq w1.nodes}
             im == {<<FileNode(e[1][2]), "imports", FileNode(e[3][2])>> : e \in E}
  <1>6. /\ w2.nodes = g.nodes /\ w2.span = g.span /\ w2.similar = w0.similar
        /\ w2.edges = w1.edges \union im
        /\ w2 = [nodes |-> w2.nodes, span |-> w2.span, edges |-> w2.edges, similar |-> w2.similar]
    <2>1. w2 = [w1 EXCEPT !.edges = @ \union im]
      BY DEF WireImports, AddEdges
    <2> HIDE DEF im, w2
    <2> QED
      BY <1>2, <2>1
  <1>7. \A e \in im : /\ e = <<e[1], e[2], e[3]>> /\ e[2] = "imports"
                      /\ e[1] \in g.nodes /\ e[3] \in g.nodes
                      /\ KindOf(e[1]) = "file" /\ KindOf(e[3]) = "file"
    BY <1>2, NodeNames
  <1> HIDE DEF w2, E, im
  <1>8. AllSymbols(w2) = AllSymbols(g)
    BY <1>6 DEF AllSymbols
  <1>9. /\ w3.nodes = g.nodes /\ w3.span = g.span /\ w3.edges = w2.edges
        /\ \A pair \in w3.similar : pair \in w0.similar \/ \E s, t \in AllSymbols(g) : pair = {s, t}
        /\ w3 = [nodes |-> w3.nodes, span |-> w3.span, edges |-> w3.edges, similar |-> w3.similar]
    <2> DEFINE ps == {p \in {s \in AllSymbols(w2) : s[2] \in C} \X AllSymbols(w2) : Alike(p[1], p[2])}
               fs == {{p[1], p[2]} : p \in ps}
    <2>1. w3 = [w2 EXCEPT !.similar = @ \union fs]
      BY DEF WireFeatureSimilarity
    <2>2. \A pair \in fs : \E s, t \in AllSymbols(g) : pair = {s, t}
      BY <1>8
    <2> HIDE DEF fs, w3
    <2> QED
      BY <1>6, <2>1, <2>2
  <1> HIDE DEF w3
  <1>10. AllSymbols(w3) = AllSymbols(g)
    BY <1>9 DEF AllSymbols
  <1>11. r = WireCoCallers(w3, C)
    BY DEF RefreshDerivedEdges, w3, w2, w1, w0
  <1>12. /\ r.nodes = g.nodes /\ r.span = g.span /\ r.edges = w2.edges
         /\ \A pair \in r.similar : pair \in w0.similar \/ \E s, t \in AllSymbols(g) : pair = {s, t}
         /\ r = [nodes |-> r.nodes, span |-> r.span, edges |-> r.edges, similar |-> r.similar]
    <2> DEFINE callees == [s \in AllSymbols(w3) |-> Callees(w3, s)]
               coCalled(s, t) == {caller \in DOMAIN callees : {s, t} \subseteq callees[caller]}
               impacted(caller) == caller[2] \in C \/ \E s \in callees[caller] : s[2] \in C
               ps == {p \in AllSymbols(w3) \X AllSymbols(w3) :
                     /\ p[1][2] # p[2][2]
                     /\ LET callers == coCalled(p[1], p[2])
                        IN Cardinality(callers) >= 2 /\ \E c \in callers : impacted(c)}
               cs == {{p[1], p[2]} : p \in ps}
    <2>1. r = [w3 EXCEPT !.similar = @ \union cs]
      BY <1>11 DEF WireCoCallers
    <2>2. ps \subseteq AllSymbols(w3) \X AllSymbols(w3)
      OBVIOUS
    <2> HIDE DEF ps, r
    <2>3. \A pair \in cs : \E s, t \in AllSymbols(g) : pair = {s, t}
      BY <1>10, <2>2
    <2> HIDE DEF cs
    <2> QED
      BY <1>9, <2>1, <2>3
  <1> HIDE DEF r
  <1>13. AllSymbols(r) = AllSymbols(g)
    BY <1>12 DEF AllSymbols
  <1>14. \A e : e[2] \notin DerivedTypes => (e \in r.edges <=> e \in g.edges)
    BY <1>1, <1>4, <1>5, <1>6, <1>7, <1>12 DEF DerivedTypes
  <1>15. Shape(r)
    <2>1. \A e \in r.edges : WellEdge(e) /\ e[1] \in r.nodes /\ e[3] \in r.nodes
      <3> TAKE e \in r.edges
      <3>1. e \in w1.edges \/ e \in im
        BY <1>6, <1>12
      <3>2. CASE e \in im
        BY <1>7, <1>12, <3>2 DEF WellEdge, FileKinds
      <3>3. CASE e \in w0.edges
        BY <1>1, <1>12, <3>3 DEF Shape
      <3>4. CASE e \in w1.edges /\ e \notin w0.edges
        BY <1>4, <1>12, <3>4 DEF WellEdge, FileKinds, AllSymbols
      <3> QED
        BY <3>1, <3>2, <3>3, <3>4
    <2>2. \A pair \in r.similar : \E s, t \in AllSymbols(r) : pair = {s, t}
      BY <1>1, <1>12, <1>13 DEF Shape
    <2>3. \A n \in r.nodes : KindOf(n) \in {"category", "subcategory"} =>
              Edge(r, HangsFrom(n), "feature_parent", n)
      BY <1>12, <1>14 DEF Shape, Edge, DerivedTypes
    <2> QED
      BY <1>12, <1>13, <2>1, <2>2, <2>3 DEF Shape
  <1>16. SameHierarchy(g, r)
    BY <1>12, <1>14 DEF SameHierarchy, Edge, DerivedTypes
  <1>17. \A f : SameNodes(g, r, f)
    BY <1>12 DEF SameNodes, NodesOf
  <1> QED
    BY <1>12, <1>15, <1>16, <1>17 DEF r

\* ... and of the derived edges those between other files; those of a call that
\* touches one of the files come anew.
Called(g, store, C, first, e) ==
    \E f \in Present(store) : \E call \in store[f].calls :
        \E caller \in CallerNode(g, f, call) : \E callee \in BestCallee(g, f, call.to, first) :
            (f \in C \/ callee[2] \in C) /\ e = <<caller, "invokes", callee>>

Imported(g, r, C, e) ==
    \E d \in r.edges :
        /\ d[2] = "invokes" /\ d[1][2] # d[3][2] /\ (d[1][2] \in C \/ d[3][2] \in C)
        /\ FileNode(d[1][2]) \in g.nodes /\ FileNode(d[3][2]) \in g.nodes
        /\ e = <<FileNode(d[1][2]), "imports", FileNode(d[3][2])>>

\* ... and what the derived edges are afterwards.
LEMMA RefreshIs ==
    ASSUME NEW g, Shape(g), NEW store, NEW C, NEW first
    PROVE  LET r == RefreshDerivedEdges(g, store, C, first)
           IN /\ \A e : e[2] = "invokes" =>
                    (e \in r.edges <=> \/ e \in g.edges /\ e[1][2] \notin C /\ e[3][2] \notin C
                                       \/ Called(g, store, C, first, e))
              /\ \A e : e[2] = "imports" =>
                    (e \in r.edges <=> \/ e \in g.edges /\ e[1][2] \notin C /\ e[3][2] \notin C
                                       \/ Imported(g, r, C, e))
              /\ \A pair \in g.similar : (\A s \in pair : s[2] \notin C) => pair \in r.similar
              /\ \A s, t \in AllSymbols(g) : s[2] \in C /\ Alike(s, t) => {s, t} \in r.similar
  <1> DEFINE w0 == WithoutDerived(g, C)
             w1 == WireInvocations(w0, store, C, first)
             w2 == WireImports(w1, C)
             w3 == WireFeatureSimilarity(w2, C)
             r == RefreshDerivedEdges(g, store, C, first)
  <1>0. g = [nodes |-> g.nodes, span |-> g.span, edges |-> g.edges, similar |-> g.similar]
    BY DEF Shape
  <1>1. /\ w0.nodes = g.nodes /\ w0.span = g.span
        /\ \A e : e \in w0.edges <=> e \in g.edges /\
              (e[2] \notin DerivedTypes \/ (e[1][2] \notin C /\ e[3][2] \notin C))
        /\ \A pair : pair \in w0.similar <=> pair \in g.similar /\ \A s \in pair : s[2] \notin C
        /\ w0 = [nodes |-> w0.nodes, span |-> w0.span, edges |-> w0.edges, similar |-> w0.similar]
    <2> DEFINE es == {e \in g.edges : e[2] \notin DerivedTypes
                                      \/ (e[1][2] \notin C /\ e[3][2] \notin C)}
               ps == {pair \in g.similar : \A s \in pair : s[2] \notin C}
    <2>1. w0 = [g EXCEPT !.edges = es, !.similar = ps]
      BY DEF WithoutDerived
    <2>2. \A e : e \in es <=> e \in g.edges /\
              (e[2] \notin DerivedTypes \/ (e[1][2] \notin C /\ e[3][2] \notin C))
      OBVIOUS
    <2>3. \A pair : pair \in ps <=> pair \in g.similar /\ \A s \in pair : s[2] \notin C
      OBVIOUS
    <2> HIDE DEF es, ps, w0
    <2>4. w0.edges = es /\ w0.similar = ps /\ w0.nodes = g.nodes /\ w0.span = g.span
      BY <1>0, <2>1
    <2>5. w0 = [nodes |-> w0.nodes, span |-> w0.span, edges |-> w0.edges, similar |-> w0.similar]
      BY <1>0, <2>1
    <2> QED
      BY <2>2, <2>4, <2>5, <2>3
  <1> HIDE DEF w0
  <1>2. AllSymbols(w0) = AllSymbols(g) /\ \A f : SymbolsOf(w0, f) = SymbolsOf(g, f)
    BY <1>1 DEF AllSymbols, SymbolsOf, NodesOf
  <1>3. \A f, call : CallerNode(w0, f, call) = CallerNode(g, f, call)
    BY <1>1, <1>2 DEF CallerNode
  <1>4. \A f, n : BestCallee(w0, f, n, first) = BestCallee(g, f, n, first)
    <2>1. \A f, n : Candidates(w0, f, n) = Candidates(g, f, n)
      BY <1>2 DEF Candidates
    <2> QED
      BY <2>1 DEF BestCallee
  <1> DEFINE wired(f, call) == {p \in CallerNode(w0, f, call) \X BestCallee(w0, f, call.to, first) :
                              f \in C \/ p[2][2] \in C}
             ofCall(f, call) == {<<p[1], "invokes", p[2]>> : p \in wired(f, call)}
             ofFile(f) == UNION {ofCall(f, call) : call \in store[f].calls}
             calls == UNION {ofFile(f) : f \in Present(store)}
  <1>5. w1 = [w0 EXCEPT !.edges = @ \union calls]
    BY DEF WireInvocations, AddEdges
  <1>6. \A e : e \in calls <=> Called(g, store, C, first, e)
    <2> TAKE e
    <2>1. \A f, call : e \in ofCall(f, call) <=>
              \E caller \in CallerNode(g, f, call) : \E callee \in BestCallee(g, f, call.to, first) :
                  (f \in C \/ callee[2] \in C) /\ e = <<caller, "invokes", callee>>
      <3> TAKE f, call
      <3>1. e \in ofCall(f, call) =>
              \E caller \in CallerNode(g, f, call) : \E callee \in BestCallee(g, f, call.to, first) :
                  (f \in C \/ callee[2] \in C) /\ e = <<caller, "invokes", callee>>
        <4> SUFFICES ASSUME e \in ofCall(f, call)
                     PROVE  \E caller \in CallerNode(g, f, call) :
                                \E callee \in BestCallee(g, f, call.to, first) :
                                    (f \in C \/ callee[2] \in C) /\ e = <<caller, "invokes", callee>>
          OBVIOUS
        <4>1. PICK p \in wired(f, call) : e = <<p[1], "invokes", p[2]>>
          OBVIOUS
        <4>2. /\ p[1] \in CallerNode(w0, f, call) /\ p[2] \in BestCallee(w0, f, call.to, first)
              /\ (f \in C \/ p[2][2] \in C)
          OBVIOUS
        <4> QED
          BY <1>3, <1>4, <4>1, <4>2
      <3>2. ASSUME NEW caller \in CallerNode(g, f, call),
                   NEW callee \in BestCallee(g, f, call.to, first),
                   f \in C \/ callee[2] \in C, e = <<caller, "invokes", callee>>
            PROVE  e \in ofCall(f, call)
        <4> DEFINE p == <<caller, callee>>
        <4>1. p \in CallerNode(w0, f, call) \X BestCallee(w0, f, call.to, first)
          BY <1>3, <1>4
        <4>2. p[1] = caller /\ p[2] = callee
          OBVIOUS
        <4> HIDE DEF p
        <4>3. p \in wired(f, call)
          BY <3>2, <4>1, <4>2
        <4> QED
          BY <3>2, <4>2, <4>3
      <3> QED
        BY <3>1, <3>2
    <2> HIDE DEF ofCall
    <2>2. \A f : e \in ofFile(f) <=> \E call \in store[f].calls : e \in ofCall(f, call)
      OBVIOUS
    <2> HIDE DEF ofFile
    <2>3. e \in calls <=> \E f \in Present(store) : e \in ofFile(f)
      OBVIOUS
    <2> QED
      BY <2>1, <2>2, <2>3 DEF Called
  <1> HIDE DEF calls, w1
  <1>7. /\ w1.nodes = g.nodes /\ w1.similar = w0.similar /\ w1.edges = w0.edges \union calls
        /\ w1 = [nodes |-> w1.nodes, span |-> w1.span, edges |-> w1.edges, similar |-> w1.similar]
    BY <1>1, <1>5
  <1> DEFINE E == {e \in w1.edges : /\ e[2] = "invokes" /\ e[1][2] # e[3][2]
                               /\ {e[1][2], e[3][2]} \intersect C # {}
                               /\ {FileNode(e[1][2]), FileNode(e[3][2])} \subseteq w1.nodes}
             im == {<<FileNode(e[1][2]), "imports", FileNode(e[3][2])>> : e \in E}
  <1>8. w2 = [w1 EXCEPT !.edges = @ \union im]
    BY DEF WireImports, AddEdges
  <1>9. \A d : d \in E <=> /\ d \in w1.edges
            /\ d[2] = "invokes" /\ d[1][2] # d[3][2] /\ (d[1][2] \in C \/ d[3][2] \in C)
            /\ FileNode(d[1][2]) \in g.nodes /\ FileNode(d[3][2]) \in g.nodes
    BY <1>7
  <1>10. \A e : e \in im <=> \E d \in E : e = <<FileNode(d[1][2]), "imports", FileNode(d[3][2])>>
    OBVIOUS
  <1> HIDE DEF E, im, w2
  <1>11. /\ w2.nodes = g.nodes /\ w2.similar = w0.similar /\ w2.edges = w1.edges \union im
         /\ w2 = [nodes |-> w2.nodes, span |-> w2.span, edges |-> w2.edges, similar |-> w2.similar]
    BY <1>7, <1>8
  <1>12. AllSymbols(w2) = AllSymbols(g)
    BY <1>11 DEF AllSymbols
  <1>13. /\ w3.edges = w2.edges /\ w0.similar \subseteq w3.similar
         /\ \A s, t \in AllSymbols(g) : s[2] \in C /\ Alike(s, t) => {s, t} \in w3.similar
         /\ w3 = [nodes |-> w3.nodes, span |-> w3.span, edges |-> w3.edges, similar |-> w3.similar]
    <2> DEFINE ps == {p \in {s \in AllSymbols(w2) : s[2] \in C} \X AllSymbols(w2) : Alike(p[1], p[2])}
               fs == {{p[1], p[2]} : p \in ps}
    <2>1. w3 = [w2 EXCEPT !.similar = @ \union fs]
      BY DEF WireFeatureSimilarity
    <2>2. ASSUME NEW s \in AllSymbols(g), NEW t \in AllSymbols(g), s[2] \in C, Alike(s, t)
          PROVE  {s, t} \in fs
      <3> DEFINE p == <<s, t>>
      <3>1. p \in {k \in AllSymbols(w2) : k[2] \in C} \X AllSymbols(w2) /\ p[1] = s /\ p[2] = t
        BY <1>12, <2>2
      <3> HIDE DEF p
      <3>2. p \in ps
        BY <2>2, <3>1
      <3> QED
        BY <3>1, <3>2
    <2> HIDE DEF fs, w3
    <2> QED
      BY <1>11, <2>1, <2>2
  <1> HIDE DEF w3
  <1>14. r = WireCoCallers(w3, C)
    BY DEF RefreshDerivedEdges, w3, w2, w1, w0
  <1>15. r.edges = w3.edges /\ w3.similar \subseteq r.similar
    <2>1. PICK cs : r = [w3 EXCEPT !.similar = @ \union cs]
      BY <1>14 DEF WireCoCallers
    <2> HIDE DEF r
    <2> QED
      BY <1>13, <2>1
  <1> HIDE DEF r
  <1>16. \A e : e \in r.edges <=> e \in w0.edges \/ e \in calls \/ e \in im
    BY <1>7, <1>11, <1>13, <1>15
  <1>17. \A e : e \in calls => e[2] = "invokes"
    BY <1>6 DEF Called
  <1>18. \A e : e \in im => e[2] = "imports"
    BY <1>10
  <1>19. \A d : d[2] = "invokes" => (d \in r.edges <=> d \in w1.edges)
    BY <1>7, <1>16, <1>18
  <1>20. \A e : e[2] = "invokes" =>
            (e \in r.edges <=> \/ e \in g.edges /\ e[1][2] \notin C /\ e[3][2] \notin C
                               \/ Called(g, store, C, first, e))
    BY <1>1, <1>6, <1>16, <1>18 DEF DerivedTypes
  <1>21. \A e : e \in im <=> Imported(g, r, C, e)
    BY <1>9, <1>10, <1>19 DEF Imported
  <1>22. \A e : e[2] = "imports" =>
            (e \in r.edges <=> \/ e \in g.edges /\ e[1][2] \notin C /\ e[3][2] \notin C
                               \/ Imported(g, r, C, e))
    BY <1>1, <1>16, <1>17, <1>21 DEF DerivedTypes
  <1>23. \A pair \in g.similar : (\A s \in pair : s[2] \notin C) => pair \in r.similar
    BY <1>1, <1>13, <1>15
  <1>24. \A s, t \in AllSymbols(g) : s[2] \in C /\ Alike(s, t) => {s, t} \in r.similar
    BY <1>13, <1>15
  <1> QED
    BY <1>20, <1>22, <1>23, <1>24 DEF r

\* So a refresh for some files takes them from those that wait.
LEMMA RefreshDerives ==
    ASSUME NEW g, Shape(g), NEW store, NEW C, NEW first, NEW P, NEW N,
           EdgesAreDerived(g, store, P, N)
    PROVE  EdgesAreDerived(RefreshDerivedEdges(g, store, C, first), store, P \ C, N)
  <1> DEFINE r == RefreshDerivedEdges(g, store, C, first)
  <1>1. Shape(r) /\ r.nodes = g.nodes /\ r.span = g.span
    BY RefreshKeeps
  <1>2. \A e : e[2] = "invokes" =>
            (e \in r.edges <=> \/ e \in g.edges /\ e[1][2] \notin C /\ e[3][2] \notin C
                               \/ Called(g, store, C, first, e))
    BY RefreshIs
  <1>3. \A e : e[2] = "imports" =>
            (e \in r.edges <=> \/ e \in g.edges /\ e[1][2] \notin C /\ e[3][2] \notin C
                               \/ Imported(g, r, C, e))
    BY RefreshIs
  <1>4. /\ \A pair \in g.similar : (\A s \in pair : s[2] \notin C) => pair \in r.similar
        /\ \A s, t \in AllSymbols(g) : s[2] \in C /\ Alike(s, t) => {s, t} \in r.similar
    BY RefreshIs
  <1> HIDE DEF r
  <1>5. AllSymbols(r) = AllSymbols(g) /\ \A f : SymbolsOf(r, f) = SymbolsOf(g, f)
    BY <1>1 DEF AllSymbols, SymbolsOf, NodesOf
  <1>6. ASSUME NEW e \in r.edges, e[2] = "invokes", e[1][2] \notin P \ C
        PROVE  /\ store[e[1][2]] # Absent
               /\ \E call \in store[e[1][2]].calls : call.from = e[1][3] /\ call.to = e[3][3]
    <2>1. CASE e \in g.edges /\ e[1][2] \notin C /\ e[3][2] \notin C
      BY <1>6, <2>1 DEF EdgesAreDerived
    <2>2. CASE Called(g, store, C, first, e)
      <3>1. PICK f \in Present(store) : \E call \in store[f].calls :
               \E caller \in CallerNode(g, f, call) : \E callee \in BestCallee(g, f, call.to, first) :
                  e = <<caller, "invokes", callee>>
        BY <2>2 DEF Called
      <3>2. PICK call \in store[f].calls :
               \E caller \in CallerNode(g, f, call) : \E callee \in BestCallee(g, f, call.to, first) :
                  e = <<caller, "invokes", callee>>
        BY <3>1
      <3>3. PICK caller \in CallerNode(g, f, call), callee \in BestCallee(g, f, call.to, first) :
                  e = <<caller, "invokes", callee>>
        BY <3>2
      <3>4. caller[2] = f /\ caller[3] = call.from
        BY DEF CallerNode, SymbolsOf, NodesOf
      <3>5. callee[3] = call.to
        <4>1. \A s \in Candidates(g, f, call.to) : s[3] = call.to
          BY DEF Candidates
        <4>2. callee \in Candidates(g, f, call.to)
          BY DEF BestCallee
        <4> QED
          BY <4>1, <4>2
      <3> QED
        BY <3>3, <3>4, <3>5 DEF Present
    <2> QED
      BY <1>2, <1>6, <2>1, <2>2
  <1>7. ASSUME NEW f \in Present(store) \ (P \ C), NEW call \in store[f].calls,
               NEW callee \in AllSymbols(r), NEW caller \in CallerNode(r, f, call),
               call.to \notin N, Candidates(r, f, call.to) = {callee}
        PROVE  Edge(r, caller, "invokes", callee)
    <2>1. Candidates(g, f, call.to) = {callee}
      BY <1>5, <1>7 DEF Candidates
    <2>2. caller \in CallerNode(g, f, call)
      BY <1>1, <1>5 DEF CallerNode
    <2> DEFINE e == <<caller, "invokes", callee>>
    <2>3. e[1] = caller /\ e[2] = "invokes" /\ e[3] = callee /\ caller[2] = f
      BY <2>2 DEF CallerNode, SymbolsOf, NodesOf
    <2>4. CASE f \in C \/ callee[2] \in C
      <3>1. callee \in BestCallee(g, f, call.to, first)
        BY <2>1 DEF BestCallee
      <3>2. Called(g, store, C, first, e)
        BY <2>2, <2>4, <3>1 DEF Called
      <3> QED
        BY <1>2, <2>3, <3>2 DEF Edge
    <2>5. CASE f \notin C /\ callee[2] \notin C
      <3>1. f \in Present(store) \ P /\ callee \in AllSymbols(g)
        BY <1>5, <2>5
      <3>2. Edge(g, caller, "invokes", callee)
        BY <1>7, <2>1, <2>2, <3>1 DEF EdgesAreDerived
      <3> QED
        BY <1>2, <2>3, <2>5, <3>2 DEF Edge
    <2> QED
      BY <2>4, <2>5
  <1>8. ASSUME NEW f \in SourceFile \ (P \ C), NEW h \in SourceFile \ (P \ C), f # h
        PROVE  Edge(r, FileNode(f), "imports", FileNode(h))
                 <=> \E s \in SymbolsOf(r, f) : Callees(r, s) \intersect SymbolsOf(r, h) # {}
    <2> DEFINE i == <<FileNode(f), "imports", FileNode(h)>>
    <2>1. i[1] = FileNode(f) /\ i[2] = "imports" /\ i[3] = FileNode(h) /\ i[1][2] = f /\ i[3][2] = h
      BY NodeNames
    <2>2. \A s, t : s \in SymbolsOf(g, f) /\ t \in SymbolsOf(g, h) =>
              /\ s[2] = f /\ t[2] = h /\ s \in AllSymbols(g) /\ t \in AllSymbols(g)
              /\ s \in g.nodes /\ t \in g.nodes
      BY DEF SymbolsOf, NodesOf, AllSymbols
    <2>3. \A s, t : <<s, "invokes", t>>[1] = s /\ <<s, "invokes", t>>[2] = "invokes" /\ <<s, "invokes", t>>[3] = t
      OBVIOUS
    <2>4. (\E s \in SymbolsOf(r, f) : Callees(r, s) \intersect SymbolsOf(r, h) # {})
             <=> \E s \in SymbolsOf(g, f), t \in SymbolsOf(g, h) : <<s, "invokes", t>> \in r.edges
      BY <1>1, <1>5, <2>2 DEF Callees, Children, Edge
    <2>5. CASE f \in C \/ h \in C
      <3>1. ASSUME i \in r.edges
            PROVE  \E s \in SymbolsOf(g, f), t \in SymbolsOf(g, h) : <<s, "invokes", t>> \in r.edges
        <4>1. Imported(g, r, C, i)
          BY <1>3, <2>1, <2>5, <3>1
        <4>2. PICK d \in r.edges : /\ d[2] = "invokes"
                                   /\ i = <<FileNode(d[1][2]), "imports", FileNode(d[3][2])>>
          BY <4>1 DEF Imported
        <4>3. d[1][2] = f /\ d[3][2] = h
          BY <2>1, <4>2, NodeNames
        <4>4. /\ d = <<d[1], "invokes", d[3]>> /\ KindOf(d[1]) = "symbol" /\ KindOf(d[3]) = "symbol"
              /\ d[1] \in r.nodes /\ d[3] \in r.nodes
          BY <1>1, <4>2 DEF Shape, WellEdge
        <4>5. d[1] \in SymbolsOf(g, f) /\ d[3] \in SymbolsOf(g, h)
          BY <1>1, <4>3, <4>4 DEF SymbolsOf, NodesOf, FileKinds
        <4> QED
          BY <4>4, <4>5
      <3>2. ASSUME NEW s \in SymbolsOf(g, f), NEW t \in SymbolsOf(g, h), <<s, "invokes", t>> \in r.edges
            PROVE  i \in r.edges
        <4>1. FileNode(f) \in g.nodes /\ FileNode(h) \in g.nodes
          BY <2>2 DEF Shape
        <4>2. Imported(g, r, C, i)
          BY <1>8, <2>2, <2>3, <2>5, <3>2, <4>1 DEF Imported
        <4> QED
          BY <1>3, <2>1, <4>2
      <3> QED
        BY <2>4, <3>1, <3>2 DEF Edge
    <2>6. CASE f \notin C /\ h \notin C
      <3>1. \A s \in SymbolsOf(g, f), t \in SymbolsOf(g, h) :
                <<s, "invokes", t>> \in r.edges <=> <<s, "invokes", t>> \in g.edges
        <4> TAKE s \in SymbolsOf(g, f), t \in SymbolsOf(g, h)
        <4> DEFINE e == <<s, "invokes", t>>
        <4>1. e[1] = s /\ e[2] = "invokes" /\ e[3] = t /\ s[2] = f /\ t[2] = h
          BY <2>2
        <4>2. ~Called(g, store, C, first, e)
          <5> SUFFICES ASSUME Called(g, store, C, first, e)
                       PROVE  FALSE
            OBVIOUS
          <5>1. PICK k \in Present(store) : \E call \in store[k].calls :
                   \E caller \in CallerNode(g, k, call) : \E callee \in BestCallee(g, k, call.to, first) :
                      (k \in C \/ callee[2] \in C) /\ e = <<caller, "invokes", callee>>
            BY DEF Called
          <5>2. PICK call \in store[k].calls :
                   \E caller \in CallerNode(g, k, call) : \E callee \in BestCallee(g, k, call.to, first) :
                      (k \in C \/ callee[2] \in C) /\ e = <<caller, "invokes", callee>>
            BY <5>1
          <5>3. PICK caller \in CallerNode(g, k, call), callee \in BestCallee(g, k, call.to, first) :
                      (k \in C \/ callee[2] \in C) /\ e = <<caller, "invokes", callee>>
            BY <5>2
          <5>4. caller = s /\ callee = t
            BY <5>3
          <5>5. caller[2] = k
            BY DEF CallerNode, SymbolsOf, NodesOf
          <5> QED
            BY <2>6, <4>1, <5>3, <5>4, <5>5
        <4> HIDE DEF e
        <4>3. e \in r.edges <=> e \in g.edges
          BY <1>2, <2>6, <4>1, <4>2
        <4> QED
          BY <4>3 DEF e
      <3>2. i \in r.edges => i \in g.edges
        <4> SUFFICES ASSUME Imported(g, r, C, i)
                     PROVE  FALSE
          BY <1>3, <2>1
        <4>1. PICK d \in r.edges : /\ d[1][2] \in C \/ d[3][2] \in C
                                   /\ i = <<FileNode(d[1][2]), "imports", FileNode(d[3][2])>>
          BY DEF Imported
        <4>2. d[1][2] = f /\ d[3][2] = h
          BY <2>1, <4>1, NodeNames
        <4> QED
          BY <2>6, <4>1, <4>2
      <3>3. i \in g.edges => i \in r.edges
        BY <1>3, <2>1, <2>6
      <3>4. (\E s \in SymbolsOf(g, f) : Callees(g, s) \intersect SymbolsOf(g, h) # {})
             <=> \E s \in SymbolsOf(g, f), t \in SymbolsOf(g, h) : <<s, "invokes", t>> \in g.edges
        BY <2>2 DEF Callees, Children, Edge
      <3>5. f \in SourceFile \ P /\ h \in SourceFile \ P
        BY <2>6
      <3>6. i \in g.edges <=> \E s \in SymbolsOf(g, f) : Callees(g, s) \intersect SymbolsOf(g, h) # {}
        BY <1>8, <3>5 DEF EdgesAreDerived, Edge
      <3> HIDE DEF i
      <3> QED
        BY <2>4, <3>1, <3>2, <3>3, <3>4, <3>6 DEF Edge, i
    <2> QED
      BY <2>5, <2>6
  <1>9. ASSUME NEW s \in AllSymbols(r), NEW t \in AllSymbols(r),
               s[2] \notin P \ C, t[2] \notin P \ C, Alike(s, t)
        PROVE  {s, t} \in r.similar
    <2>1. CASE s[2] \in C
      BY <1>4, <1>5, <1>9, <2>1
    <2>2. CASE t[2] \in C
      <3>1. Alike(t, s)
        <4>1. Words[s[3]] \intersect Words[t[3]] = Words[t[3]] \intersect Words[s[3]]
          OBVIOUS
        <4>2. Words[s[3]] \union Words[t[3]] = Words[t[3]] \union Words[s[3]]
          OBVIOUS
        <4> QED
          BY <1>9, <4>1, <4>2 DEF Alike
      <3>2. {t, s} \in r.similar
        BY <1>4, <1>5, <2>2, <3>1
      <3>3. {t, s} = {s, t}
        OBVIOUS
      <3> QED
        BY <3>2, <3>3
    <2>3. CASE s[2] \notin C /\ t[2] \notin C
      <3>1. {s, t} \in g.similar
        BY <1>5, <1>9, <2>3 DEF EdgesAreDerived
      <3> QED
        BY <1>4, <2>3, <3>1
    <2> QED
      BY <2>1, <2>2, <2>3
  <1> QED
    BY <1>6, <1>7, <1>8, <1>9 DEF EdgesAreDerived, r

\* A refresh for all of them derives every edge.
LEMMA FullRefreshDerives ==
    ASSUME NEW g, Shape(g), NEW store, NEW first
    PROVE  EdgesAreDerived(RefreshDerivedEdges(g, store, SourceFile, first), store, {}, {})
  <1>1. \A n \in AllSymbols(g) : n[2] \in SourceFile
    BY DEF AllSymbols, Shape, WellNode, FileKinds
  <1>2. EdgesAreDerived(g, store, SourceFile, {})
    <2>1. \A e \in g.edges : e[2] = "invokes" => e[1] \in AllSymbols(g)
      BY DEF Shape, WellEdge, AllSymbols
    <2>2. Present(store) \ SourceFile = {} /\ SourceFile \ SourceFile = {}
      BY DEF Present
    <2> QED
      BY <1>1, <2>1, <2>2 DEF EdgesAreDerived
  <1>3. SourceFile \ SourceFile = {}
    OBVIOUS
  <1> QED
    BY <1>2, <1>3, RefreshDerives

(***************************************************************************)
(* A rebuild                                                               *)
(***************************************************************************)

\* The hierarchy of a rebuild houses every file.
LEMMA BuildHierarchyIs ==
    ASSUME NEW g, Shape(g), \A n \in g.nodes : KindOf(n) \notin Layers
    PROVE  LET r == BuildHierarchy(g)
           IN Shape(r) /\ SameFiles(g, r) /\ Housing(r, SourceFile) /\ Kept(r, Hollow(r))
  <1> DEFINE files == {f \in SourceFile : FileNode(f) \in g.nodes}
             home(f) == Subcategory(f, SubcategoryByFrequency(g, f))
             subs == {home(f) : f \in files}
                       \union UNION {{Subcategory(f, k) : k \in ClusterKeys(g, f)} : f \in files}
             b == EnsureChildren(EnsureCategories(g, files), subs)
             es == {<<home(f), "feature_parent", FileNode(f)>> : f \in files}
             r == BuildHierarchy(g)
  <1>1. r = [b EXCEPT !.edges = @ \union es]
    BY DEF BuildHierarchy, AddEdges
  <1>2. /\ Shape(b) /\ SameFiles(g, b) /\ SameParents(g, b) /\ subs \subseteq b.nodes
        /\ Kept(b, subs)
    <2>1. Kept(g, {})
      BY DEF Kept
    <2>2. \A n \in subs : \E f \in files : \E k : n = Subcategory(f, k)
      OBVIOUS
    <2>3. \A f \in files : \E k : Subcategory(f, k) \in subs
      <3> TAKE f \in files
      <3>1. home(f) \in subs
        OBVIOUS
      <3> QED
        BY <3>1
    <2>4. files \in SUBSET SourceFile
      OBVIOUS
    <2>5. {} \union subs = subs
      OBVIOUS
    <2> HIDE DEF subs, files
    <2>6. LET q == EnsureChildren(EnsureCategories(g, files), subs)
          IN /\ Shape(q) /\ SameFiles(g, q) /\ SameParents(g, q) /\ subs \subseteq q.nodes
             /\ Kept(q, {} \union subs)
      BY <2>1, <2>2, <2>3, <2>4, EnsureAllIs
    <2> QED
      BY <2>5, <2>6
  <1>3. \A n \in subs : KindOf(n) = "subcategory"
    BY WellNames
  <1>4. \A f \in files : home(f) \in subs
    OBVIOUS
  <1> HIDE DEF b, subs, r
  <1>5. /\ r.nodes = b.nodes /\ r.span = b.span /\ r.edges = b.edges \union es
        /\ r.similar = b.similar
        /\ r = [nodes |-> r.nodes, span |-> r.span, edges |-> r.edges, similar |-> r.similar]
    <2>1. b = [nodes |-> b.nodes, span |-> b.span, edges |-> b.edges, similar |-> b.similar]
      BY <1>2 DEF Shape
    <2> HIDE DEF es
    <2> QED
      BY <1>1, <2>1
  <1>6. \A e : e \in es <=> \E f \in files : e = <<home(f), "feature_parent", FileNode(f)>>
    OBVIOUS
  <1>7. \A e \in es : /\ e = <<e[1], e[2], e[3]>> /\ e[2] = "feature_parent"
                      /\ KindOf(e[3]) = "file" /\ WellEdge(e)
                      /\ e[1] \in r.nodes /\ e[3] \in r.nodes
    <2> TAKE e \in es
    <2>1. PICK f \in files : e = <<home(f), "feature_parent", FileNode(f)>>
      BY <1>6
    <2>2. KindOf(home(f)) = "subcategory" /\ <<home(f)[2], home(f)[3]>> = ClassOf[f]
      BY GraphAssumption DEF Subcategory, KindOf
    <2>3. home(f) \in r.nodes
      BY <1>2, <1>4, <1>5
    <2>4. FileNode(f) \in r.nodes /\ KindOf(FileNode(f)) = "file" /\ FileNode(f)[2] = f
      BY <1>2, <1>5, NodeNames DEF SameFiles, FileKinds
    <2> HIDE DEF home, files, es
    <2>5. e[1] = home(f) /\ e[2] = "feature_parent" /\ e[3] = FileNode(f) /\ e = <<e[1], e[2], e[3]>>
      BY <2>1
    <2>6. MayHang(e[1], e[3])
      BY <2>2, <2>4, <2>5 DEF MayHang
    <2> QED
      BY <2>3, <2>4, <2>5, <2>6 DEF WellEdge
  <1> HIDE DEF es
  <1>8. AllSymbols(r) = AllSymbols(b)
    BY <1>5 DEF AllSymbols
  <1>9. Shape(r)
    <2>1. \A e \in r.edges : WellEdge(e) /\ e[1] \in r.nodes /\ e[3] \in r.nodes
      BY <1>2, <1>5, <1>7 DEF Shape
    <2>2. \A n \in r.nodes : KindOf(n) \in {"category", "subcategory"} =>
              Edge(r, HangsFrom(n), "feature_parent", n)
      BY <1>2, <1>5 DEF Shape, Edge
    <2> QED
      BY <1>2, <1>5, <1>8, <2>1, <2>2 DEF Shape
  <1>10. SameFiles(g, r)
    <2>1. SameFiles(b, r)
      BY <1>5, <1>7 DEF SameFiles
    <2> QED
      BY <1>2, <2>1, SameFilesTwice
  <1>11. ASSUME NEW f \in SourceFile, FileNode(f) \in r.nodes
         PROVE  Housed(r, f)
    <2>1. f \in files
      BY <1>10, <1>11, NodeNames DEF SameFiles, FileKinds
    <2>2. Parents(g, FileNode(f)) = {}
      <3>1. ASSUME NEW m \in Parents(g, FileNode(f))
            PROVE  FALSE
        <4>1. m \in g.nodes /\ MayHang(m, FileNode(f))
          BY DEF Parents, Edge, Shape, WellEdge
        <4>2. KindOf(m) = "subcategory"
          BY <4>1, NodeNames DEF MayHang
        <4> QED
          BY <4>1, <4>2 DEF Layers
      <3> QED
        BY <3>1
    <2>3. Parents(b, FileNode(f)) = {}
      BY <1>2, <2>2, NodeNames DEF SameParents
    <2>4. \A m : Edge(b, m, "feature_parent", FileNode(f)) => m \in b.nodes
      BY <1>2 DEF Edge, Shape
    <2>5. \A m : Edge(r, m, "feature_parent", FileNode(f)) <=> m = home(f)
      <3> TAKE m
      <3>1. ~Edge(b, m, "feature_parent", FileNode(f))
        BY <2>3, <2>4 DEF Parents
      <3>2. <<m, "feature_parent", FileNode(f)>> \in es <=> m = home(f)
        <4>1. \A k \in files : FileNode(k) = FileNode(f) => k = f
          BY NodeNames
        <4> HIDE DEF home, files
        <4> QED
          BY <1>6, <2>1, <4>1
      <3> QED
        BY <1>5, <3>1, <3>2 DEF Edge
    <2>6. home(f) \in r.nodes
      BY <1>2, <1>4, <1>5, <2>1
    <2>7. Parents(r, FileNode(f)) = {home(f)}
      <3> HIDE DEF home
      <3> QED
        BY <2>5, <2>6 DEF Parents
    <2> QED
      BY <2>6, <2>7 DEF Housed
  <1>12. ASSUME NEW n \in r.nodes, KindOf(n) \in Layers, Children(r, n, "feature_parent") = {}
         PROVE  n \in Hollow(r)
    <2>1. Children(b, n, "feature_parent") = {}
      BY <1>5, <1>12 DEF Children, Edge
    <2>2. n \in subs
      BY <1>2, <1>5, <1>12, <2>1 DEF Kept
    <2> QED
      BY <1>3, <1>12, <2>2 DEF Hollow
  <1> QED
    BY <1>9, <1>10, <1>11, <1>12 DEF Housing, Kept, r

\* A rebuild's graph is that of the stores.
LEMMA BuildIs ==
    ASSUME NEW store, NEW first
    PROVE  LET r == BuildFull(store, first)
           IN /\ Shape(r) /\ Housing(r, SourceFile) /\ Kept(r, Hollow(r))
              /\ EdgesAreDerived(r, store, {}, {})
              /\ \A f \in SourceFile : /\ SymbolsMatch(r, store, f) /\ ChunksMatch(r, store, f)
                                       /\ AbsentMeansNone(r, store, f)
  <1> DEFINE Pr == Present(store)
             n0 == AddSymbols(EmptyGraph, store, Pr)
             w == RefreshDerivedEdges(n0, store, SourceFile, first)
             k == LinkChunks(w, store, Pr)
             r == BuildFull(store, first)
  <1>1. Pr \in SUBSET SourceFile /\ \A f \in SourceFile : f \in Pr <=> store[f] # Absent
    BY DEF Present
  <1>2. Shape(EmptyGraph) /\ EmptyGraph.nodes = {}
    BY DEF EmptyGraph, Shape, AllSymbols
  <1>3. r = BuildHierarchy(k)
    BY DEF BuildFull
  <1> HIDE DEF r, Pr
  <1>4. /\ Shape(n0)
        /\ \A n : n \in n0.nodes <=>
              \E f \in Pr : n = FileNode(f) \/ \E s \in SymbolsIn(store, f) : n = SymbolNode(f, s)
        /\ \A f \in Pr : \A s \in SymbolsIn(store, f) : \E t \in SymbolsIn(store, f) :
              t.name = s.name /\ n0.span[SymbolNode(f, s)] = <<t.first, LastLine(t)>>
    <2>1. LET q == AddSymbols(EmptyGraph, store, Pr)
          IN /\ Shape(q)
             /\ \A n : n \in q.nodes <=>
                    \/ n \in EmptyGraph.nodes
                    \/ \E f \in Pr : n = FileNode(f) \/ \E s \in SymbolsIn(store, f) : n = SymbolNode(f, s)
             /\ \A f \in Pr : \A s \in SymbolsIn(store, f) : \E t \in SymbolsIn(store, f) :
                    t.name = s.name /\ q.span[SymbolNode(f, s)] = <<t.first, LastLine(t)>>
      BY <1>1, <1>2, AddIs
    <2> QED
      BY <1>2, <2>1
  <1> HIDE DEF n0
  <1>5. \A n \in n0.nodes : KindOf(n) \in {"file", "symbol"} /\ n[2] \in Pr
    BY <1>4, NodeNames
  <1>6. Shape(w) /\ w.nodes = n0.nodes /\ w.span = n0.span /\ EdgesAreDerived(w, store, {}, {})
    BY <1>4, RefreshKeeps, FullRefreshDerives
  <1> HIDE DEF w
  <1>7. /\ Shape(k) /\ Follows(w, k, {})
        /\ \A n : KindOf(n) # "chunk" => (n \in k.nodes <=> n \in w.nodes)
        /\ \A n \in AllSymbols(w) : k.span[n] = w.span[n]
        /\ SameHierarchy(w, k)
    BY <1>1, <1>6, LinkChunksIs
  <1>8. \A f : f \notin Pr => SameNodes(w, k, f)
    BY <1>1, <1>6, LinkChunksIs
  <1>9. \A f \in Pr : ChunksMatch(k, store, f)
    BY <1>1, <1>6, LinkChunksIs
  <1> HIDE DEF k
  <1>10. AllSymbols(k) = AllSymbols(w)
    BY <1>7 DEF AllSymbols
  <1>11. EdgesAreDerived(k, store, {}, {})
    <2>1. {} \subseteq {}
      OBVIOUS
    <2> QED
      BY <1>6, <1>7, <1>10, <2>1, FollowsKeepsDerived
  <1>12. \A n \in k.nodes : KindOf(n) \notin Layers
    <2>1. \A n : KindOf(n) \in Layers => (n \in k.nodes <=> n \in w.nodes)
      BY <1>7 DEF SameHierarchy
    <2> QED
      BY <1>5, <1>6, <2>1 DEF Layers
  <1>13. Shape(r) /\ SameFiles(k, r) /\ Housing(r, SourceFile) /\ Kept(r, Hollow(r))
    BY <1>3, <1>7, <1>12, BuildHierarchyIs
  <1>14. /\ Follows(k, r, {})
         /\ \A f : /\ NodesOf(r, f) = NodesOf(k, f) /\ SymbolsOf(r, f) = SymbolsOf(k, f)
                   /\ \A n \in SymbolsOf(k, f) : r.span[n] = k.span[n]
    <2>1. Follows(k, k, {})
      BY <1>7, FollowsItself
    <2> QED
      BY <1>7, <1>13, <2>1, FollowsThenSameFiles
  <1>15. EdgesAreDerived(r, store, {}, {})
    <2>1. AllSymbols(r) = AllSymbols(k)
      BY <1>13 DEF SameFiles, AllSymbols, FileKinds
    <2>2. {} \subseteq {}
      OBVIOUS
    <2> QED
      BY <1>7, <1>11, <1>13, <1>14, <2>1, <2>2, FollowsKeepsDerived
  <1>16. ASSUME NEW f \in SourceFile
         PROVE  SymbolsMatch(r, store, f)
    <2>1. \A n : n \in SymbolsOf(k, f) <=> n \in n0.nodes /\ KindOf(n) = "symbol" /\ n[2] = f
      BY <1>6, <1>7 DEF SymbolsOf, NodesOf, FileKinds
    <2>2. \A n : n \in SymbolsOf(k, f) <=> \E s \in SymbolsIn(store, f) : n = SymbolNode(f, s)
      <3>1. CASE f \in Pr
        BY <1>4, <2>1, <3>1, NodeNames
      <3>2. CASE f \notin Pr
        BY <1>1, <1>5, <2>1, <3>2 DEF SymbolsIn
      <3> QED
        BY <3>1, <3>2
    <2>3. SymbolsOf(r, f) = {SymbolNode(f, s) : s \in SymbolsIn(store, f)}
      BY <1>14, <2>2
    <2>4. ASSUME NEW s \in SymbolsIn(store, f)
          PROVE  \E t \in SymbolsIn(store, f) :
                     t.name = s.name /\ r.span[SymbolNode(f, s)] = <<t.first, LastLine(t)>>
      <3>1. f \in Pr
        BY <1>1 DEF SymbolsIn
      <3>2. SymbolNode(f, s) \in SymbolsOf(k, f) /\ SymbolNode(f, s) \in AllSymbols(w)
        BY <1>10, <2>2 DEF SymbolsOf, NodesOf, AllSymbols
      <3>3. r.span[SymbolNode(f, s)] = n0.span[SymbolNode(f, s)]
        BY <1>6, <1>7, <1>14, <3>2
      <3> QED
        BY <1>4, <3>1, <3>3
    <2> QED
      BY <2>3, <2>4 DEF SymbolsMatch
  <1>17. ASSUME NEW f \in SourceFile, f \notin Pr
         PROVE  NodesOf(r, f) = {} /\ store[f] = Absent
    <2>1. NodesOf(w, f) = {}
      BY <1>5, <1>6, <1>17 DEF NodesOf
    <2> QED
      BY <1>1, <1>8, <1>14, <1>17, <2>1 DEF SameNodes
  <1>18. ASSUME NEW f \in SourceFile
         PROVE  ChunksMatch(r, store, f)
    <2>1. CASE f \in Pr
      BY <1>1, <1>9, <1>14, <2>1 DEF ChunksMatch
    <2>2. CASE f \notin Pr
      BY <1>17, <2>2 DEF ChunksMatch
    <2> QED
      BY <2>1, <2>2
  <1>19. \A f \in SourceFile : AbsentMeansNone(r, store, f)
    BY <1>1, <1>17 DEF AbsentMeansNone
  <1> QED
    BY <1>13, <1>15, <1>16, <1>18, <1>19 DEF r

(***************************************************************************)
(* The steps                                                               *)
(***************************************************************************)

\* A store's change makes its file wait.
LEMMA StoreKeepsDerived ==
    ASSUME NEW g, Shape(g), NEW store, NEW store2, NEW f,
           \A h \in SourceFile \ {f} : store2[h] = store[h],
           NEW P, NEW N, EdgesAreDerived(g, store, P, N)
    PROVE  EdgesAreDerived(g, store2, P \union {f}, N)
  <1>1. EdgesAreDerived(g, store, P \union {f}, N)
    BY DerivedWeakens
  <1>2. \A e \in g.edges : e[2] = "invokes" => e[1][2] \in SourceFile
    BY DEF Shape, WellEdge, WellNode, FileKinds
  <1>3. \A h : h \in Present(store2) \ (P \union {f}) => h \in Present(store) \ (P \union {f}) /\ store2[h] = store[h]
    BY DEF Present
  <1> QED
    BY <1>1, <1>2, <1>3 DEF EdgesAreDerived

\* What a file's nodes are by the stores stays as long as both do.
LEMMA SameNodesMatch ==
    ASSUME NEW g, NEW r, NEW f, SameNodes(g, r, f), NEW store, NEW store2, store2[f] = store[f]
    PROVE  /\ SymbolsMatch(g, store, f) => SymbolsMatch(r, store2, f)
           /\ ChunksMatch(g, store, f) => ChunksMatch(r, store2, f)
           /\ AbsentMeansNone(g, store, f) => AbsentMeansNone(r, store2, f)
  <1>1. NodesOf(r, f) = NodesOf(g, f) /\ SymbolsOf(r, f) = SymbolsOf(g, f)
    BY DEF SameNodes, SymbolsOf
  <1>2. \A n \in SymbolsOf(g, f) : r.span[n] = g.span[n]
    BY DEF SameNodes
  <1>3. SymbolsIn(store2, f) = SymbolsIn(store, f)
    BY DEF SymbolsIn
  <1>4. ASSUME SymbolsMatch(g, store, f)
        PROVE  SymbolsMatch(r, store2, f)
    <2>1. \A s \in SymbolsIn(store, f) : SymbolNode(f, s) \in SymbolsOf(g, f)
      BY <1>4 DEF SymbolsMatch
    <2>2. SymbolsOf(r, f) = {SymbolNode(f, s) : s \in SymbolsIn(store2, f)}
      BY <1>1, <1>3, <1>4 DEF SymbolsMatch
    <2>3. ASSUME NEW s \in SymbolsIn(store2, f)
          PROVE  \E t \in SymbolsIn(store2, f) :
                     t.name = s.name /\ r.span[SymbolNode(f, s)] = <<t.first, LastLine(t)>>
      <3>1. PICK t \in SymbolsIn(store, f) :
               t.name = s.name /\ g.span[SymbolNode(f, s)] = <<t.first, LastLine(t)>>
        BY <1>3, <1>4 DEF SymbolsMatch
      <3>2. r.span[SymbolNode(f, s)] = g.span[SymbolNode(f, s)]
        BY <1>2, <1>3, <2>1
      <3> QED
        BY <1>3, <3>1, <3>2
    <2> QED
      BY <2>2, <2>3 DEF SymbolsMatch
  <1>5. ChunksMatch(g, store, f) => ChunksMatch(r, store2, f)
    BY <1>1 DEF ChunksMatch
  <1>6. AbsentMeansNone(g, store, f) => AbsentMeansNone(r, store2, f)
    BY <1>1 DEF AbsentMeansNone
  <1> QED
    BY <1>4, <1>5, <1>6

\* A state of the stores has a content of its own, or none, for each file.
LEMMA StoreStateIs ==
    /\ \A c \in StoreStates : /\ c = [f \in SourceFile |-> c[f]]
                              /\ \A f \in SourceFile : c[f] \in Script[f] \union {Absent}
    /\ \A c \in StoreStates : \A f \in SourceFile : \A x \in Script[f] \union {Absent} :
          [c EXCEPT ![f] = x] \in StoreStates
  <1>1. \A c : c \in StoreStates <=> /\ c \in [SourceFile -> AnyContent]
                                    /\ \A f \in SourceFile : c[f] \in Script[f] \union {Absent}
    BY DEF StoreStates
  <1>2. ASSUME NEW f \in SourceFile, NEW x \in Script[f]
        PROVE  x \in AnyContent
    <2>1. Script[f] \in {Script[h] : h \in SourceFile}
      OBVIOUS
    <2> QED
      BY <2>1 DEF AnyContent
  <1>3. Absent \in AnyContent
    BY DEF AnyContent
  <1>4. ASSUME NEW c \in StoreStates, NEW f \in SourceFile, NEW x \in Script[f] \union {Absent}
        PROVE  [c EXCEPT ![f] = x] \in StoreStates
    <2>1. [c EXCEPT ![f] = x] \in [SourceFile -> AnyContent]
      BY <1>1, <1>2, <1>3
    <2>2. \A h \in SourceFile : [c EXCEPT ![f] = x][h] \in Script[h] \union {Absent}
      BY <1>1
    <2> QED
      BY <1>1, <2>1, <2>2
  <1> QED
    BY <1>1, <1>4

\* A session's start has the invariant.
LEMMA GraphInitHolds == GraphInit => GraphInv
  <1> SUFFICES ASSUME GraphInit
               PROVE  GraphInv
    OBVIOUS
  <1>1. PICK first \in SourceFile : graph = Built[contents][first]
    BY DEF GraphInit
  <1>2. graph = BuildFull(contents, first)
    BY <1>1 DEF GraphInit, Built
  <1>3. /\ Shape(graph) /\ Housing(graph, SourceFile) /\ Kept(graph, Hollow(graph))
        /\ EdgesAreDerived(graph, contents, {}, {})
        /\ \A f \in SourceFile : /\ SymbolsMatch(graph, contents, f) /\ ChunksMatch(graph, contents, f)
                                 /\ AbsentMeansNone(graph, contents, f)
    BY <1>2, BuildIs
  <1>4. Due = {} /\ stale \union Due = {} /\ moved = {} /\ hollow = Hollow(graph)
    BY DEF GraphInit, Due
  <1>5. NodesFollow
    BY <1>3, <1>4 DEF NodesFollow
  <1> QED
    BY <1>3, <1>4, <1>5 DEF GraphInv, GraphInit, DueOK

\* The event under way is about a file there may be.
LEMMA DueIs ==
    /\ due = NoEvent => Due = {}
    /\ DueOK /\ due.step \in {"apply", "link", "mark"} => due.file \in SourceFile /\ Due = {due.file}
  <1>1. due = NoEvent => Due = {}
    BY DEF Due
  <1>2. ASSUME DueOK, due.step \in {"apply", "link", "mark"}
        PROVE  due.file \in SourceFile /\ Due = {due.file}
    <2>1. due # NoEvent
      BY <1>2 DEF NoEvent
    <2>2. due.file \in SourceFile
      BY <1>2, <2>1 DEF DueOK
    <2> QED
      BY <2>1, <2>2 DEF Due
  <1> QED
    BY <1>1, <1>2

\* The stores change and the event begins.
LEMMA StoreFileStep ==
    ASSUME GraphInv, NEW f \in SourceFile, NEW c, NEW type, StoreFile(f, c, type),
           \/ c \in Script[f] /\ type \in {"create", "modify"}
           \/ c = Absent /\ type = "delete"
    PROVE  GraphInv'
  <1>1. /\ due = NoEvent /\ contents' = [contents EXCEPT ![f] = c]
        /\ due' = [file |-> f, type |-> type, step |-> "apply"]
        /\ graph' = graph /\ stale' = stale /\ hollow' = hollow /\ ghosts' = ghosts /\ moved' = moved
    BY DEF StoreFile
  <1>2. /\ contents \in StoreStates /\ Shape(graph) /\ Housing(graph, SourceFile)
        /\ Kept(graph, hollow) /\ NodesFollow
        /\ EdgesAreDerived(graph, contents, stale \union Due, moved)
    BY DEF GraphInv
  <1>3. contents' \in StoreStates
    BY <1>1, <1>2, StoreStateIs
  <1>4. contents'[f] = c /\ \A h \in SourceFile \ {f} : contents'[h] = contents[h]
    <2>1. contents = [h \in SourceFile |-> contents[h]]
      BY <1>2, StoreStateIs
    <2> QED
      BY <1>1, <2>1
  <1>5. Due = {} /\ Due' = {f}
    <2>1. due' # NoEvent /\ due'.file = f
      BY <1>1 DEF NoEvent
    <2> QED
      BY <1>1, <2>1 DEF Due
  <1>6. DueOK'
    <2>1. type = "delete" <=> contents'[f] = Absent
      BY <1>4, GraphAssumption
    <2> QED
      BY <1>1, <2>1 DEF DueOK
  <1>7. EdgesAreDerived(graph, contents', stale \union {f}, moved)
    <2>1. stale \union Due = stale
      BY <1>5
    <2> QED
      BY <1>2, <1>4, <2>1, StoreKeepsDerived
  <1>8. NodesFollow'
    <2> SUFFICES ASSUME NEW h \in SourceFile \ ghosts, h # f
                 PROVE  /\ SymbolsMatch(graph, contents', h) /\ ChunksMatch(graph, contents', h)
                        /\ AbsentMeansNone(graph, contents', h)
      <3>1. due'.step = "apply"
        BY <1>1
      <3> QED
        BY <1>1, <1>5, <3>1 DEF NodesFollow
    <2>1. /\ SymbolsMatch(graph, contents, h) /\ ChunksMatch(graph, contents, h)
          /\ AbsentMeansNone(graph, contents, h)
      BY <1>2, <1>5 DEF NodesFollow
    <2>2. SameNodes(graph, graph, h)
      BY DEF SameNodes
    <2> QED
      BY <1>4, <2>1, <2>2, SameNodesMatch
  <1> QED
    BY <1>1, <1>2, <1>3, <1>5, <1>6, <1>7, <1>8 DEF GraphInv

\* What an event leaves for the other files.
LEMMA OthersFollow ==
    ASSUME NEW f, NodesFollow, Due \subseteq {f}, NEW r,
           \A h \in SourceFile \ {f} : SameNodes(graph, r, h),
           NEW h \in SourceFile \ {f}, h \notin ghosts
    PROVE  /\ SymbolsMatch(r, contents, h) /\ ChunksMatch(r, contents, h)
           /\ AbsentMeansNone(r, contents, h)
  <1>1. h \notin Due
    OBVIOUS
  <1>2. /\ SymbolsMatch(graph, contents, h) /\ ChunksMatch(graph, contents, h)
        /\ AbsentMeansNone(graph, contents, h)
    BY <1>1 DEF NodesFollow
  <1> QED
    BY <1>2, SameNodesMatch

\* The event is applied, by its type.
LEMMA ApplyEventStep ==
    ASSUME GraphInv, ApplyEvent
    PROVE  GraphInv'
  <1> DEFINE f == due.file
             gained == {s[3] : s \in (AllSymbols(graph) \ AllSymbols(graph'))
                                        \union (AllSymbols(graph') \ AllSymbols(graph))}
  <1>1. /\ due.step = "apply" /\ hollow' = hollow \intersect graph'.nodes
        /\ moved' = moved \union gained
        /\ contents' = contents /\ stale' = stale
        /\ due' = [due EXCEPT !.step = IF due.type = "delete" THEN "mark" ELSE "link"]
    BY DEF ApplyEvent
  <1>2. /\ contents \in StoreStates /\ Shape(graph) /\ Housing(graph, SourceFile) /\ DueOK
        /\ Kept(graph, hollow) /\ NodesFollow /\ stale \subseteq SourceFile
        /\ EdgesAreDerived(graph, contents, stale \union Due, moved)
    BY DEF GraphInv
  <1>3. f \in SourceFile /\ Due = {f} /\ due # NoEvent
    BY <1>1, <1>2, DueIs DEF NoEvent
  <1>4. /\ due \in [file : SourceFile, type : {"create", "modify", "delete"},
                    step : {"apply", "link", "mark"}]
        /\ due.type = "delete" <=> contents[f] = Absent
    BY <1>2, <1>3 DEF DueOK
  <1>5. DueOK' /\ Due' = {f}
    <2>1. /\ due' \in [file : SourceFile, type : {"create", "modify", "delete"},
                       step : {"apply", "link", "mark"}]
          /\ due'.file = f /\ due'.type = due.type
          /\ due'.step = IF due.type = "delete" THEN "mark" ELSE "link"
      BY <1>1, <1>4
    <2>2. due' # NoEvent
      BY <2>1 DEF NoEvent
    <2> QED
      BY <1>1, <1>3, <1>4, <2>1, <2>2 DEF DueOK, Due
  <1>6. /\ EventIs(graph, graph', f, hollow)
        /\ f \notin ghosts' => SymbolsMatch(graph', contents, f)
        /\ due.type = "delete" => NodesOf(graph', f) = {}
        /\ ghosts \subseteq ghosts' \union {f}
    <2>1. CASE due.type = "create"
      <3>1. graph' = HandleAdd(graph, contents, f)
            /\ ghosts' = IF Vanished(graph, contents, f) = {} THEN ghosts ELSE ghosts \union {f}
        BY <2>1 DEF ApplyEvent
      <3>2. /\ EventIs(graph, graph', f, hollow)
            /\ Vanished(graph, contents, f) = {} => SymbolsMatch(graph', contents, f)
        BY <1>2, <1>3, <3>1, HandleAddIs
      <3> QED
        BY <2>1, <3>1, <3>2
    <2>2. CASE due.type = "modify"
      <3>1. graph' = HandleModify(graph, contents, f) /\ ghosts' = ghosts \ {f}
        BY <2>2 DEF ApplyEvent
      <3>2. EventIs(graph, graph', f, hollow) /\ SymbolsMatch(graph', contents, f)
        BY <1>2, <1>3, <3>1, HandleModifyIs
      <3> QED
        BY <2>2, <3>1, <3>2
    <2>3. CASE due.type = "delete"
      <3>1. graph' = HandleDelete(graph, f) /\ ghosts' = ghosts \ {f}
        BY <2>3 DEF ApplyEvent
      <3>2. EventIs(graph, graph', f, hollow) /\ NodesOf(graph', f) = {}
        BY <1>2, <1>3, <3>1, HandleDeleteIs
      <3>3. SymbolsMatch(graph', contents, f)
        <4>1. SymbolsIn(contents, f) = {}
          BY <1>4, <2>3 DEF SymbolsIn
        <4> QED
          BY <3>2, <4>1 DEF SymbolsMatch, SymbolsOf
      <3> QED
        BY <3>1, <3>2, <3>3
    <2> QED
      BY <1>4, <2>1, <2>2, <2>3
  <1> HIDE DEF f, gained
  <1>7. /\ Shape(graph') /\ Housing(graph', SourceFile) /\ Kept(graph', hollow)
        /\ Follows(graph, graph', {f})
        /\ \A h \in SourceFile \ {f} : SameNodes(graph, graph', h)
    BY <1>6 DEF EventIs
  <1>8. Kept(graph', hollow')
    BY <1>1, <1>7 DEF Kept
  <1>9. EdgesAreDerived(graph', contents, stale \union {f}, moved')
    <2>1. \A s : ~(s \in AllSymbols(graph) <=> s \in AllSymbols(graph')) => s[3] \in moved'
      <3> TAKE s
      <3>1. s \in (AllSymbols(graph) \ AllSymbols(graph'))
                    \union (AllSymbols(graph') \ AllSymbols(graph)) => s[3] \in gained
        BY DEF gained
      <3> QED
        BY <1>1, <3>1
    <2>2. moved \subseteq moved' /\ {f} \subseteq stale \union {f}
      BY <1>1
    <2>3. EdgesAreDerived(graph, contents, stale \union {f}, moved)
      BY <1>2, <1>3
    <2> QED
      BY <1>2, <1>7, <2>1, <2>2, <2>3, FollowsKeepsDerived
  <1>10. NodesFollow'
    <2>1. ASSUME NEW h \in SourceFile \ {f}, h \notin ghosts'
          PROVE  /\ SymbolsMatch(graph', contents, h) /\ ChunksMatch(graph', contents, h)
                 /\ AbsentMeansNone(graph', contents, h)
      <3>1. h \notin ghosts /\ Due \subseteq {f}
        BY <1>3, <1>6, <2>1
      <3> QED
        BY <1>2, <1>7, <3>1, OthersFollow
    <2>2. due'.step = "mark" => due.type = "delete"
      BY <1>1, <1>4
    <2>3. ASSUME f \notin ghosts', due'.step = "mark"
          PROVE  ChunksMatch(graph', contents, f) /\ AbsentMeansNone(graph', contents, f)
      <3>1. NodesOf(graph', f) = {} /\ contents[f] = Absent
        BY <1>4, <1>6, <2>2, <2>3 DEF f
      <3> QED
        BY <3>1 DEF ChunksMatch, AbsentMeansNone
    <2> QED
      BY <1>1, <1>5, <1>6, <2>1, <2>3 DEF NodesFollow
  <1> QED
    BY <1>1, <1>2, <1>5, <1>7, <1>8, <1>9, <1>10 DEF GraphInv

\* The file's chunks are linked.
LEMMA LinkFileStep ==
    ASSUME GraphInv, LinkFile
    PROVE  GraphInv'
  <1> DEFINE f == due.file
  <1>1. /\ due.step = "link" /\ graph' = LinkChunks(graph, contents, {f})
        /\ due' = [due EXCEPT !.step = "mark"]
        /\ contents' = contents /\ stale' = stale /\ hollow' = hollow /\ ghosts' = ghosts
        /\ moved' = moved
    BY DEF LinkFile
  <1>2. /\ contents \in StoreStates /\ Shape(graph) /\ Housing(graph, SourceFile) /\ DueOK
        /\ Kept(graph, hollow) /\ NodesFollow /\ stale \subseteq SourceFile
        /\ EdgesAreDerived(graph, contents, stale \union Due, moved)
    BY DEF GraphInv
  <1>3. f \in SourceFile /\ Due = {f} /\ due # NoEvent
    BY <1>1, <1>2, DueIs DEF NoEvent
  <1>4. /\ due \in [file : SourceFile, type : {"create", "modify", "delete"},
                    step : {"apply", "link", "mark"}]
        /\ due.type = "delete" <=> contents[f] = Absent
        /\ due.type # "delete"
    BY <1>1, <1>2, <1>3 DEF DueOK
  <1>5. DueOK' /\ Due' = {f}
    <2>1. /\ due' \in [file : SourceFile, type : {"create", "modify", "delete"},
                       step : {"apply", "link", "mark"}]
          /\ due'.file = f /\ due'.type = due.type /\ due'.step = "mark"
      BY <1>1, <1>4
    <2>2. due' # NoEvent
      BY <2>1 DEF NoEvent
    <2> QED
      BY <1>1, <1>3, <1>4, <2>1, <2>2 DEF DueOK, Due
  <1>6. {f} \in SUBSET SourceFile
    BY <1>3
  <1> HIDE DEF f
  <1>7. /\ Shape(graph') /\ SameHierarchy(graph, graph') /\ Follows(graph, graph', {})
        /\ \A n : KindOf(n) # "chunk" => (n \in graph'.nodes <=> n \in graph.nodes)
        /\ \A n \in AllSymbols(graph) : graph'.span[n] = graph.span[n]
    BY <1>1, <1>2, <1>6, LinkChunksIs
  <1>8. /\ \A h : h \notin {f} => SameNodes(graph, graph', h)
        /\ \A h \in {f} : contents[h] # Absent => ChunksMatch(graph', contents, h)
    BY <1>1, <1>2, <1>6, LinkChunksIs
  <1>9. Kept(graph', hollow) /\ \A h : Housed(graph, h) => Housed(graph', h)
    BY <1>2, <1>7, HierarchyStays
  <1>10. Housing(graph', SourceFile)
    BY <1>2, <1>7, <1>9, NodeNames DEF Housing
  <1>11. EdgesAreDerived(graph', contents, stale \union Due, moved)
    <2>1. AllSymbols(graph') = AllSymbols(graph)
      BY <1>7 DEF AllSymbols
    <2>2. {} \subseteq stale \union Due /\ moved \subseteq moved
      OBVIOUS
    <2> QED
      BY <1>2, <1>7, <2>1, <2>2, FollowsKeepsDerived
  <1>12. NodesFollow'
    <2>1. ASSUME NEW h \in SourceFile \ {f}, h \notin ghosts'
          PROVE  /\ SymbolsMatch(graph', contents, h) /\ ChunksMatch(graph', contents, h)
                 /\ AbsentMeansNone(graph', contents, h)
      <3>1. h \notin ghosts /\ Due \subseteq {f}
        BY <1>1, <1>3, <2>1
      <3> QED
        BY <1>2, <1>8, <3>1, OthersFollow
    <2>2. ASSUME f \notin ghosts'
          PROVE  SymbolsMatch(graph', contents, f)
      <3>1. SymbolsMatch(graph, contents, f)
        BY <1>1, <1>2, <1>3, <2>2 DEF NodesFollow
      <3>2. SymbolsOf(graph', f) = SymbolsOf(graph, f)
        BY <1>7 DEF SymbolsOf, NodesOf
      <3>3. \A n \in SymbolsOf(graph, f) : graph'.span[n] = graph.span[n]
        BY <1>7 DEF SymbolsOf, NodesOf, AllSymbols
      <3>4. ASSUME NEW s \in SymbolsIn(contents, f)
            PROVE  graph'.span[SymbolNode(f, s)] = graph.span[SymbolNode(f, s)]
        BY <3>1, <3>3 DEF SymbolsMatch
      <3> QED
        BY <3>1, <3>2, <3>4 DEF SymbolsMatch
    <2>3. ChunksMatch(graph', contents, f) /\ AbsentMeansNone(graph', contents, f)
      BY <1>4, <1>8 DEF AbsentMeansNone, f
    <2> QED
      BY <1>1, <1>3, <1>5, <2>1, <2>2, <2>3 DEF NodesFollow
  <1>13. EdgesAreDerived(graph', contents, stale \union Due', moved)
    BY <1>3, <1>5, <1>11
  <1> QED
    BY <1>1, <1>2, <1>5, <1>7, <1>9, <1>10, <1>12, <1>13 DEF GraphInv

\* The file is marked for the refresh.
LEMMA MarkStaleStep ==
    ASSUME GraphInv, MarkStale
    PROVE  GraphInv'
  <1> DEFINE f == due.file
  <1>1. /\ due.step = "mark" /\ stale' = stale \union {f} /\ due' = NoEvent
        /\ contents' = contents /\ graph' = graph /\ hollow' = hollow /\ ghosts' = ghosts
        /\ moved' = moved
    BY DEF MarkStale
  <1>2. /\ contents \in StoreStates /\ Shape(graph) /\ Housing(graph, SourceFile) /\ DueOK
        /\ Kept(graph, hollow) /\ NodesFollow /\ stale \subseteq SourceFile
        /\ EdgesAreDerived(graph, contents, stale \union Due, moved)
    BY DEF GraphInv
  <1>3. f \in SourceFile /\ Due = {f}
    BY <1>1, <1>2, DueIs
  <1> HIDE DEF f
  <1>4. Due' = {} /\ DueOK'
    BY <1>1 DEF Due, DueOK
  <1>5. EdgesAreDerived(graph, contents, stale' \union Due', moved)
    <2>1. stale' \union Due' = stale \union Due
      BY <1>1, <1>3, <1>4
    <2> QED
      BY <1>2, <2>1
  <1>6. NodesFollow'
    <2>1. \A h \in SourceFile \ ghosts :
             /\ SymbolsMatch(graph, contents, h) /\ ChunksMatch(graph, contents, h)
             /\ AbsentMeansNone(graph, contents, h)
      BY <1>1, <1>2 DEF NodesFollow
    <2> QED
      BY <1>1, <1>4, <2>1 DEF NodesFollow
  <1>7. stale' \subseteq SourceFile
    BY <1>1, <1>2, <1>3
  <1> QED
    BY <1>1, <1>2, <1>4, <1>5, <1>6, <1>7 DEF GraphInv

\* What a refresh leaves of the invariant.
LEMMA RefreshStep ==
    ASSUME GraphInv, NEW C, NEW first, graph' = RefreshDerivedEdges(graph, contents, C, first),
           UNCHANGED <<contents, due, hollow, ghosts>>
    PROVE  /\ Shape(graph') /\ Housing(graph', SourceFile) /\ Kept(graph', hollow')
           /\ DueOK' /\ Due' = Due /\ NodesFollow'
  <1>1. /\ Shape(graph) /\ Housing(graph, SourceFile) /\ DueOK /\ Kept(graph, hollow) /\ NodesFollow
    BY DEF GraphInv
  <1>2. /\ Shape(graph') /\ SameHierarchy(graph, graph') /\ graph'.nodes = graph.nodes
        /\ \A f : SameNodes(graph, graph', f)
    BY <1>1, RefreshKeeps
  <1>3. Kept(graph', hollow) /\ Housing(graph', SourceFile)
    BY <1>1, <1>2, HierarchyStays DEF Housing
  <1>4. DueOK' /\ Due' = Due
    BY <1>1 DEF DueOK, Due
  <1>5. \A f : /\ SymbolsMatch(graph, contents, f) => SymbolsMatch(graph', contents, f)
               /\ ChunksMatch(graph, contents, f) => ChunksMatch(graph', contents, f)
               /\ AbsentMeansNone(graph, contents, f) => AbsentMeansNone(graph', contents, f)
    BY <1>2, SameNodesMatch
  <1>6. NodesFollow'
    BY <1>1, <1>4, <1>5 DEF NodesFollow
  <1> QED
    BY <1>2, <1>3, <1>4, <1>6

\* The refresh of the marked files.
LEMMA RefreshIncrementalStep ==
    ASSUME GraphInv, NEW first, RefreshIncremental(first)
    PROVE  GraphInv'
  <1>1. /\ stale' = {} /\ graph' = RefreshDerivedEdges(graph, contents, stale, first)
        /\ contents' = contents /\ due' = due /\ hollow' = hollow /\ ghosts' = ghosts
        /\ moved' = moved
    BY DEF RefreshIncremental
  <1>2. /\ Shape(graph') /\ Housing(graph', SourceFile) /\ Kept(graph', hollow')
        /\ DueOK' /\ Due' = Due /\ NodesFollow'
    BY <1>1, RefreshStep
  <1>3. EdgesAreDerived(graph', contents, (stale \union Due) \ stale, moved)
    BY <1>1, RefreshDerives DEF GraphInv
  <1>4. EdgesAreDerived(graph', contents, {} \union Due, moved)
    <2>1. (stale \union Due) \ stale \subseteq {} \union Due /\ moved \subseteq moved
      OBVIOUS
    <2> QED
      BY <1>3, <2>1, DerivedWeakens
  <1> QED
    BY <1>1, <1>2, <1>4 DEF GraphInv

\* The refresh of all files.
LEMMA RefreshFullStep ==
    ASSUME GraphInv, NEW first, RefreshFull(first)
    PROVE  GraphInv'
  <1>1. /\ stale' = {} /\ graph' = RefreshDerivedEdges(graph, contents, SourceFile, first)
        /\ contents' = contents /\ due' = due /\ hollow' = hollow /\ ghosts' = ghosts
        /\ moved' = {}
    BY DEF RefreshFull
  <1>2. /\ Shape(graph') /\ Housing(graph', SourceFile) /\ Kept(graph', hollow')
        /\ DueOK' /\ Due' = Due /\ NodesFollow'
    BY <1>1, RefreshStep
  <1>3. EdgesAreDerived(graph', contents, {}, {})
    BY <1>1, FullRefreshDerives DEF GraphInv
  <1>4. EdgesAreDerived(graph', contents, {} \union Due, {})
    <2>1. {} \subseteq {} \union Due /\ {} \subseteq {}
      OBVIOUS
    <2> QED
      BY <1>3, <2>1, DerivedWeakens
  <1> QED
    BY <1>1, <1>2, <1>4 DEF GraphInv

\* A session's start builds the graph anew.
LEMMA RebuildStep ==
    ASSUME GraphInv, NEW first \in SourceFile, Rebuild(first)
    PROVE  GraphInv'
  <1>1. /\ due = NoEvent /\ graph' = Built[contents][first] /\ stale' = {}
        /\ hollow' = Hollow(graph') /\ ghosts' = {} /\ moved' = {}
        /\ contents' = contents /\ due' = due
    BY DEF Rebuild
  <1>2. contents \in StoreStates
    BY DEF GraphInv
  <1>3. graph' = BuildFull(contents, first)
    BY <1>1, <1>2 DEF Built
  <1>4. /\ Shape(graph') /\ Housing(graph', SourceFile) /\ Kept(graph', Hollow(graph'))
        /\ EdgesAreDerived(graph', contents, {}, {})
        /\ \A f \in SourceFile : /\ SymbolsMatch(graph', contents, f) /\ ChunksMatch(graph', contents, f)
                                 /\ AbsentMeansNone(graph', contents, f)
    BY <1>3, BuildIs
  <1>5. Due' = {} /\ DueOK' /\ stale' \union Due' = {}
    BY <1>1 DEF Due, DueOK
  <1>6. NodesFollow'
    BY <1>1, <1>4, <1>5 DEF NodesFollow
  <1> QED
    BY <1>1, <1>2, <1>4, <1>5, <1>6 DEF GraphInv

\* Every step keeps the invariant.
LEMMA GraphStep == GraphInv /\ [GraphNext]_graphVars => GraphInv'
  <1> SUFFICES ASSUME GraphInv, [GraphNext]_graphVars
               PROVE  GraphInv'
    OBVIOUS
  <1>1. ASSUME NEW f \in SourceFile, NEW c \in Script[f], NEW type \in {"create", "modify"},
               StoreFile(f, c, type)
        PROVE  GraphInv'
    BY <1>1, StoreFileStep
  <1>2. ASSUME NEW f \in SourceFile, StoreFile(f, Absent, "delete")
        PROVE  GraphInv'
    BY <1>2, StoreFileStep
  <1>3. ASSUME UNCHANGED graphVars
        PROVE  GraphInv'
    BY <1>3 DEF GraphInv, graphVars, DueOK, Due, NodesFollow
  <1> QED
    BY <1>1, <1>2, <1>3, ApplyEventStep, LinkFileStep, MarkStaleStep, RefreshIncrementalStep,
       RefreshFullStep, RebuildStep DEF GraphNext

(***************************************************************************)
(* What follows                                                            *)
(***************************************************************************)

\* From the invariant follows that the hierarchy is sound,
LEMMA HierarchyFollows == GraphInv => HierarchyWellFormed
  <1> SUFFICES ASSUME GraphInv
               PROVE  HierarchyWellFormed
    OBVIOUS
  <1>1. Shape(graph) /\ Housing(graph, SourceFile) /\ Kept(graph, hollow)
    BY DEF GraphInv
  <1>2. \A e \in graph.edges : e[1] \in graph.nodes /\ e[3] \in graph.nodes
    BY <1>1 DEF Shape
  <1>3. UNION graph.similar \subseteq graph.nodes
    BY <1>1, DerivedEnds
  \* A node of a layer below an area hangs from one node.
  <1>4. ASSUME NEW n \in graph.nodes, KindOf(n) \in {"category", "subcategory"}
        PROVE  Parents(graph, n) = {HangsFrom(n)} /\ HangsFrom(n) \in graph.nodes
    <2>1. Edge(graph, HangsFrom(n), "feature_parent", n)
      BY <1>1, <1>4 DEF Shape
    <2>2. HangsFrom(n) \in graph.nodes
      BY <1>1, <2>1 DEF Shape, Edge
    <2>3. ASSUME NEW m \in graph.nodes, Edge(graph, m, "feature_parent", n)
          PROVE  m = HangsFrom(n)
      <3>1. MayHang(m, n)
        BY <1>1, <2>3 DEF Shape, Edge, WellEdge
      <3> QED
        BY <1>4, <3>1 DEF MayHang
    <2> QED
      BY <2>1, <2>2, <2>3 DEF Parents
  <1>5. ASSUME NEW f \in SourceFile, FileNode(f) \in graph.nodes
        PROVE  \E sub \in graph.nodes :
                 /\ Parents(graph, FileNode(f)) = {sub}
                 /\ KindOf(sub) = "subcategory" /\ <<sub[2], sub[3]>> = ClassOf[f]
                 /\ Parents(graph, sub) = {<<"category", sub[2], sub[3]>>}
                 /\ Parents(graph, <<"category", sub[2], sub[3]>>) = {<<"area", sub[2]>>}
    <2>1. PICK sub \in graph.nodes : Parents(graph, FileNode(f)) = {sub}
      BY <1>1, <1>5 DEF Housing, Housed
    <2>2. sub \in Parents(graph, FileNode(f))
      BY <2>1
    <2>3. MayHang(sub, FileNode(f))
      BY <1>1, <2>2 DEF Parents, Edge, Shape, WellEdge
    <2>4. KindOf(sub) = "subcategory" /\ <<sub[2], sub[3]>> = ClassOf[f]
      BY <2>3, NodeNames DEF MayHang
    <2> DEFINE cat == <<"category", sub[2], sub[3]>>
    <2>5. HangsFrom(sub) = cat
      BY <2>4 DEF HangsFrom
    <2>6. Parents(graph, sub) = {cat} /\ cat \in graph.nodes
      BY <1>4, <2>4, <2>5
    <2>7. KindOf(cat) = "category" /\ HangsFrom(cat) = <<"area", sub[2]>>
      BY DEF KindOf, HangsFrom
    <2>8. Parents(graph, cat) = {<<"area", sub[2]>>}
      <3> HIDE DEF cat
      <3> QED
        BY <1>4, <2>6, <2>7
    <2> QED
      BY <2>1, <2>4, <2>6, <2>8
  <1>6. \A n \in graph.nodes :
            KindOf(n) \in {"area", "category", "subcategory"} /\ Children(graph, n, "feature_parent") = {}
               => n \in hollow
    BY <1>1 DEF Kept, Layers
  <1> QED
    BY <1>2, <1>3, <1>5, <1>6 DEF HierarchyWellFormed

\* that the nodes are those of the stores,
LEMMA NodesMirror == GraphInv => NodesMirrorStores
  <1> SUFFICES ASSUME GraphInv, Quiet, NEW f \in SourceFile \ ghosts
               PROVE  IF contents[f] = Absent THEN NodesOf(graph, f) = {}
                      ELSE /\ SymbolsOf(graph, f) = {SymbolNode(f, s) : s \in contents[f].symbols}
                           /\ \A s \in contents[f].symbols : \E t \in contents[f].symbols :
                                 /\ t.name = s.name
                                 /\ graph.span[SymbolNode(f, s)] = <<t.first, LastLine(t)>>
                           /\ {n[3] : n \in {n \in NodesOf(graph, f) : KindOf(n) = "chunk"}}
                                 = {c[1] : c \in contents[f].chunks}
    BY DEF NodesMirrorStores
  <1>1. f \notin Due
    BY DueIs DEF Quiet
  <1>2. /\ SymbolsMatch(graph, contents, f) /\ ChunksMatch(graph, contents, f)
        /\ AbsentMeansNone(graph, contents, f)
    BY <1>1 DEF GraphInv, NodesFollow
  <1>3. CASE contents[f] = Absent
    BY <1>2, <1>3 DEF AbsentMeansNone
  <1>4. CASE contents[f] # Absent
    <2>1. SymbolsIn(contents, f) = contents[f].symbols
      BY <1>4 DEF SymbolsIn
    <2>2. {n[3] : n \in {n \in NodesOf(graph, f) : KindOf(n) = "chunk"}}
             = {c[1] : c \in contents[f].chunks}
      BY <1>2, <1>4 DEF ChunksMatch
    <2>3. SymbolsOf(graph, f) = {SymbolNode(f, s) : s \in contents[f].symbols}
      BY <1>2, <2>1 DEF SymbolsMatch
    <2>4. \A s \in contents[f].symbols : \E t \in contents[f].symbols :
             t.name = s.name /\ graph.span[SymbolNode(f, s)] = <<t.first, LastLine(t)>>
      BY <1>2, <2>1 DEF SymbolsMatch
    <2> QED
      BY <1>4, <2>2, <2>3, <2>4
  <1> QED
    BY <1>3, <1>4

\* and that the derived edges are.
LEMMA EdgesMirror == GraphInv => EdgesMirrorCalls
  <1> SUFFICES ASSUME GraphInv, Quiet
               PROVE  EdgesMirrorCalls
    BY DEF EdgesMirrorCalls
  <1>1. EdgesAreDerived(graph, contents, {}, moved) /\ Shape(graph)
    <2>1. stale \union Due = {}
      BY DueIs DEF Quiet
    <2> QED
      BY <2>1 DEF GraphInv
  <1>2. \A f \in SourceFile : f \in SourceFile \ {}
    OBVIOUS
  <1>3. \A f \in Present(contents) : f \in Present(contents) \ {}
    OBVIOUS
  <1>4. \A e \in graph.edges : e[2] = "invokes" =>
            \E call \in contents[e[1][2]].calls : call.from = e[1][3] /\ call.to = e[3][3]
    BY <1>1 DEF EdgesAreDerived
  <1>5. \A f \in Present(contents) : \A call \in contents[f].calls :
            \A callee \in AllSymbols(graph), caller \in CallerNode(graph, f, call) :
               call.to \notin moved /\ Candidates(graph, f, call.to) = {callee}
                  => Edge(graph, caller, "invokes", callee)
    BY <1>1, <1>3 DEF EdgesAreDerived
  <1>6. \A f, h \in SourceFile : f # h =>
            (Edge(graph, FileNode(f), "imports", FileNode(h))
               <=> \E s \in SymbolsOf(graph, f) : Callees(graph, s) \intersect SymbolsOf(graph, h) # {})
    BY <1>1, <1>2 DEF EdgesAreDerived
  <1>7. \A s, t \in AllSymbols(graph) : Alike(s, t) => {s, t} \in graph.similar
    BY <1>1 DEF EdgesAreDerived
  <1> QED
    BY <1>4, <1>5, <1>6, <1>7 DEF EdgesMirrorCalls

\* Whatever the files, their contents, classes, words and keys, the threshold of the drift
\* and the number of changes: the graph's hierarchy is sound at every moment, and once the
\* events and the refresh are through its nodes, lines, chunks, calls, imports and likenesses
\* are those of the stores (evolver.go, indexer.go, hierarchy.go).
THEOREM GraphAlwaysMirrors == GraphSpec => []GraphMirrorsStores
  <1>1. GraphInv => GraphMirrorsStores
    BY HierarchyFollows, NodesMirror, EdgesMirror DEF GraphMirrorsStores
  <1>2. GraphSpec => []GraphInv
    BY GraphInitHolds, GraphStep, PTL DEF GraphSpec
  <1> QED
    BY <1>1, <1>2, PTL
================================================================================
