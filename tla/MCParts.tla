------------------------------ MODULE MCParts ------------------------------
(***************************************************************************)
(* The parts of the program that share no state with one another, checked  *)
(* in one run: a behaviour belongs to one part, which the initial state    *)
(* chooses, and the variables of the others stay as they are, in a state   *)
(* in which little has to be evaluated: an empty tree, a store at work.    *)
(***************************************************************************)
EXTENDS DaemonControl, RpcConnection, Updater, SymbolBackfill, Registration, LegacyMigration,
        MCFileSelection, ServiceReads, GraphQueries, VectorStores, FileEmbedding, EmbedBatches,
        RpgGraph

VARIABLE part

(* Three files of two areas, with symbols whose names share words. *)
GFile == {"x", "y", "z"}
GName == {"load", "loads", "parse", "print"}
Symbol(n, a, b) == [name |-> n, first |-> a, last |-> b]
Ref(n, m, l) == [from |-> n, to |-> m, line |-> l]
Source(s, k, c) == [symbols |-> s, calls |-> k, chunks |-> c]
GWords == [n \in GName |->
    CASE n = "load" -> {"load", "file"} [] n = "loads" -> {"load", "file", "all"}
      [] n = "parse" -> {"parse", "file"} [] n = "print" -> {"print", "page"}]
GScript == [f \in GFile |->
    CASE f = "x" -> { Source({Symbol("load", 1, 3), Symbol("parse", 4, 6)},
                             {Ref("load", "parse", 2), Ref("load", "print", 3)},
                             {<<1, 4>>, <<4, 6>>}),
                      Source({Symbol("load", 2, 4)},
                             {Ref("load", "parse", 3), Ref("load", "print", 3)},
                             {<<1, 4>>}) }
      [] f = "y" -> { Source({Symbol("parse", 1, 2)}, {Ref("parse", "load", 2)}, {<<1, 2>>}),
                      Source({Symbol("print", 1, 2)}, {}, {<<1, 2>>}) }
      [] f = "z" -> { Source({Symbol("loads", 1, 3), Symbol("print", 4, 5)},
                             {Ref("loads", "parse", 2), Ref("loads", "print", 3)},
                             {<<1, 5>>}),
                      Source({}, {}, {}) }]
GDirectory == [f \in GFile |-> IF f = "z" THEN "b" ELSE "a/p"]
GClassOf == [f \in GFile |-> IF f = "z" THEN <<"b", "z">> ELSE <<"a", "p">>]
GStem == [f \in GFile |-> {f}]
GVerb == [n \in GName |-> IF n = "loads" THEN "load" ELSE n]
GKey == [n \in GName |-> CASE n \in {"load", "loads"} -> 1
                           [] n = "parse" -> 2 [] n = "print" -> 3]

BatchTexts == {<<>>, <<"a">>, <<"c", "a", "b">>}
Tokens == [t \in {"a", "b", "c"} |-> IF t = "c" THEN 2 ELSE 1]

StoredTexts == {"a", "b", "c", "d", "e", "f"}
StoredContents == [p \in {"x", "y"} |-> IF p = "x" THEN {<<"a", "b">>, <<"b", "c", "d", "e">>}
                                                 ELSE {<<>>, <<"f">>}]
Scores == [q \in {"q"} |-> [t \in StoredTexts |->
    CASE t = "a" -> 5 [] t = "b" -> 2 [] t = "c" -> 4 [] t = "d" -> 6 [] t = "e" -> 3 [] t = "f" -> 1]]
WordCounts == [q \in {"q"} |-> [t \in StoredTexts |-> CASE t = "a" -> 1 [] t = "b" -> 2 [] OTHER -> 0]]
Boosts == [p \in {"x", "y"} |-> IF p = "x" THEN 1 ELSE 7]

(* All graphs of up to four links of a set with cycles and a shortcut. *)
Pairs == {<<"r", "a">>, <<"r", "b">>, <<"a", "b">>, <<"b", "c">>, <<"c", "r">>,
          <<"a", "a">>, <<"c", "a">>}
AtMostFour == {S \in SUBSET Pairs : Cardinality(S) <= 4}
DefinedOnce == [n \in {"r", "a", "b", "c"} |-> 1]
FewDefinitions == {d \in [{"r", "a", "b", "c"} -> 0..2] :
                       d["a"] = 1 /\ d["c"] = 1 /\ d["r"] # 2}

HitRank(w, c) == IF w = "w1" THEN (IF c = "x" THEN 4 ELSE 1) ELSE (IF c = "x" THEN 3 ELSE 2)

(* Documents with a dangling chunk, of one version with other chunks, and  *)
(* with nothing that resolves.                                             *)
Document(h, c) == [hash |-> h, chunks |-> c]
MigratedPaths == <<"x", "y">>
MigratedDocuments ==
    {Document(1, <<"a", None>>), Document(1, <<"b", "a">>), Document(2, <<None>>)}


----------------------------------------------------------------------------
Init ==
    /\ part \in {"control", "rpc", "graph", "embedding", "batches", "stores",
                 "queries", "reads", "backfill", "registering", "selection",
                 "updating", "migrating"}
    /\ IF part = "selection" THEN FileInit
       ELSE /\ rules = NoRules /\ exists = {} /\ content = [f \in File |-> 0] /\ watching = {}
            /\ events = <<>> /\ index = [f \in File |-> Unindexed] /\ early = File /\ changes = 0
    /\ DaemonInit /\ RpcInit /\ UpdateInit /\ SymbolInit /\ RegInit /\ MigrationInit /\ ReadInit
    /\ part # "migrating" => Documented(source) = {} /\ config = "f"
    /\ part # "reads" => view = tree
    /\ (part # "queries" => links = {} /\ defs = DefinedOnce
                            /\ query = [walk |-> "trace", direction |-> "both", depth |-> 1])
    /\ WalkInit
    /\ IF part = "stores" THEN StoreInit
       ELSE /\ backend = "gob" /\ chunks = {} /\ documents = <<>> /\ hurt = {}
            /\ kept = Snapshot /\ reader = NoSnapshot
            /\ file = [p \in StoredPath |-> NoFile] /\ job = [Resting EXCEPT !.step = "save"]
            /\ scan = NoScan /\ edits = 0 /\ failures = 0 /\ readers = 0
    /\ part # "updating" => platform = "unix" /\ device = "same" /\ checksummed
    /\ IF part = "graph" THEN GraphInit
       ELSE /\ contents = [f \in GFile |-> Absent] /\ graph = EmptyGraph
            /\ due = NoEvent /\ stale = {} /\ hollow = {} /\ ghosts = {} /\ moved = {}
            /\ graphChanges = 0
    /\ EmbedInit
    /\ part # "embedding" => provider = "openai" /\ room = [i \in Index |-> Pieces] /\ cached = {}
    /\ BatchInit
Others ==
    /\ part' = part
    /\ part # "control" => UNCHANGED daemonVars
    /\ part # "rpc" => UNCHANGED rpcVars
    /\ part # "graph" => UNCHANGED graphVars
    /\ part # "embedding" => UNCHANGED indexVars
    /\ part # "batches" => UNCHANGED batchVars
    /\ part # "stores" => UNCHANGED storeVars
    /\ part # "queries" => UNCHANGED walkVars
    /\ part # "reads" => UNCHANGED readVars
    /\ part # "backfill" => UNCHANGED symbolVars
    /\ part # "registering" => UNCHANGED regVars
    /\ part # "selection" => UNCHANGED fileVars
    /\ part # "updating" => UNCHANGED updateVars
    /\ part # "migrating" => UNCHANGED migrationVars

ControlStep == part = "control" /\ DaemonNext /\ Others
RpcStep == part = "rpc" /\ RpcNext /\ Others
GraphStep == part = "graph" /\ GraphNext /\ Others
EmbeddingStep == part = "embedding" /\ EmbedNext /\ Others
BatchesStep == part = "batches" /\ BatchNext /\ Others
StoresStep == part = "stores" /\ StoreNext /\ Others
QueriesStep == part = "queries" /\ WalkNext /\ Others
ReadsStep == part = "reads" /\ ReadNext /\ Others
BackfillStep == part = "backfill" /\ SymbolNext /\ Others
RegisteringStep == part = "registering" /\ RegNext /\ Others
SelectionStep == part = "selection" /\ FileNext /\ Others
UpdatingStep == part = "updating" /\ UpdateNext /\ Others
MigratingStep == part = "migrating" /\ MigrationNext /\ Others

Next ==
    \/ ControlStep
    \/ RpcStep
    \/ GraphStep
    \/ EmbeddingStep
    \/ BatchesStep
    \/ StoresStep
    \/ QueriesStep
    \/ ReadsStep
    \/ BackfillStep
    \/ RegisteringStep
    \/ SelectionStep
    \/ UpdatingStep
    \/ MigratingStep

vars == <<part, daemonVars, rpcVars, symbolVars, regVars, migrationVars, updateVars,
          graphVars, indexVars, batchVars, storeVars, walkVars, readVars,
          fileVars>>

Spec == Init /\ [][Next]_vars
=============================================================================
