------------------------------ MODULE VectorStores ------------------------------
(***************************************************************************)
(* The three vector stores of the first engine behind one interface, the   *)
(* indexer's calls to them, and the search over what they hold.            *)
(*                                                                         *)
(* The indexer makes one call after the other; a command may search between*)
(* any two.  A chunk is [id, path, text], a content is the sequence of its *)
(* chunks' texts and stands for its own hash.                              *)
(***************************************************************************)
EXTENDS Integers, Sequences, FiniteSets

CONSTANTS
    StoredPath, NoFile,
    Text,            \* texts of chunks
    Contents,        \* the contents a file may have, per path: sequences of texts
    Backends,        \* subset of {"gob", "postgres", "qdrant"}
    ListLimit,       \* how many points Qdrant's ListDocuments reads
    Query, Score,    \* how similar a text is to a query, a number above 0
    WordsIn,         \* how many of a query's words a text contains
    Boost,           \* per path, in per cent
    Within,          \* the paths that have the prefix asked for
    RrfK,
    MaxFileEdits, MaxFailures, MaxReaders  \* bounds

ASSUME StoreAssumption ==
    /\ IsFiniteSet(StoredPath) /\ NoFile \notin StoredPath
    /\ Contents \in [StoredPath -> SUBSET Seq(Text)]
    /\ \A p \in StoredPath : NoFile \notin Contents[p]
    /\ Backends \subseteq {"gob", "postgres", "qdrant"}
    /\ Score \in [Query -> [Text -> Int]] /\ WordsIn \in [Query -> [Text -> Nat]]
    /\ Boost \in [StoredPath -> Nat] /\ Within \subseteq StoredPath
    /\ ListLimit \in Nat /\ RrfK \in Nat

VARIABLES
    backend,
    chunks, documents,        \* what the store answers from
    kept,                     \* the file store: what the index file holds
    reader,                   \* the file store: what a command has loaded
    file,                     \* the files
    job,                      \* the indexer's place in IndexFile or RemoveFile
    scan,                     \* what a scan has still to visit, and to remove
    hurt,                     \* history: paths a failed job left without chunks
    edits, failures, readers

storeVars == <<backend, chunks, documents, kept, reader, file, job, scan, hurt,
               edits, failures, readers>>
commandVars == <<reader, readers>>

Resting == [step |-> "none", path |-> NoFile, content |-> NoFile]
Snapshot == [chunks |-> chunks, documents |-> documents, hurt |-> hurt]
NoSnapshot == [chunks |-> {NoFile}, documents |-> <<>>, hurt |-> StoredPath]
NoScan == [visit |-> {}, known |-> {}]

StoreInit ==
    /\ backend \in Backends
    /\ chunks = {} /\ documents = <<>> /\ hurt = {}
    /\ kept = Snapshot /\ reader = NoSnapshot
    /\ file = [p \in StoredPath |-> NoFile]
    /\ job = Resting /\ scan = NoScan /\ edits = 0 /\ failures = 0 /\ readers = 0

(***************************************************************************)
(* The stores                                                              *)
(***************************************************************************)

ChunksFor(p, new) == {[id |-> <<p, i>>, path |-> p, text |-> new[i]] : i \in DOMAIN new}

KeepsUnnoted(p) ==                                                     \* mutant
    {c \in chunks : p \in DOMAIN documents => c.id \notin documents[p].ids}

\* The file store deletes what the document lists, the others by path.
DeleteByFile(p) ==
    IF backend # "gob" THEN {c \in chunks : c.path # p}
    ELSE {c \in chunks : p \in DOMAIN documents => c.id \notin documents[p].ids}

SaveChunks(new) == {c \in chunks : \A n \in new : c.id # n.id} \union new

With(p, doc) == [q \in DOMAIN documents \union {p} |-> IF q = p THEN doc ELSE documents[q]]
Without(p) == [q \in DOMAIN documents \ {p} |-> documents[q]]

\* Qdrant keeps no documents: a file is known by its points, without its hash.
SaveDocument(p, new) ==
    IF backend = "qdrant" THEN documents
    ELSE With(p, [content |-> new, ids |-> {<<p, i>> : i \in DOMAIN new}])

DeleteDocument(p) == IF backend = "qdrant" THEN documents ELSE Without(p)

Unchanged(p, new) ==
    /\ backend # "qdrant" /\ p \in DOMAIN documents
    /\ documents[p].content = new /\ documents[p].ids # {}

\* A page of Qdrant's points, in an order of its own, tells the paths of the page.
Listings ==
    IF backend # "qdrant" THEN {DOMAIN documents}
    ELSE IF Cardinality(chunks) <= ListLimit THEN {{c.path : c \in chunks}}
    ELSE {{c.path : c \in page} :
             page \in {s \in SUBSET chunks : Cardinality(s) = ListLimit}}

(***************************************************************************)
(* The indexer                                                             *)
(***************************************************************************)

EditFile(p) ==
    /\ edits < MaxFileEdits /\ edits' = edits + 1
    /\ \E new \in Contents[p] \union {NoFile} :
          new # file[p] /\ file' = [file EXCEPT ![p] = new]
    /\ UNCHANGED <<commandVars, backend, chunks, documents, kept, job, scan, hurt, failures>>

JobFor(p) ==
    IF file[p] = NoFile THEN [step |-> "erase", path |-> p, content |-> NoFile]
    ELSE [step |-> "clear", path |-> p, content |-> file[p]]

\* A file event: the file is indexed, unless the store has it as it is, or removed.
Event(p) ==
    /\ job = Resting /\ scan = NoScan /\ job' = JobFor(p)
    /\ file[p] # NoFile => ~Unchanged(p, file[p])
    /\ UNCHANGED <<commandVars, backend, chunks, documents, kept, file, scan, hurt, edits, failures>>

\* A scan lists the documents, visits every file, then removes what it did not see.
BeginScan ==
    /\ job = Resting /\ scan = NoScan
    /\ \E known \in Listings : scan' = [visit |-> StoredPath, known |-> known]
    /\ scan' # NoScan
    /\ UNCHANGED <<commandVars, backend, chunks, documents, kept, file, job, hurt, edits, failures>>

Visit(p) ==
    /\ job = Resting /\ p \in scan.visit /\ file[p] # NoFile
    /\ scan' = [visit |-> scan.visit \ {p}, known |-> scan.known \ {p}]
    /\ job' = IF Unchanged(p, file[p]) THEN Resting ELSE JobFor(p)
    /\ UNCHANGED <<commandVars, backend, chunks, documents, kept, file, hurt, edits, failures>>

RemoveUnseen(p) ==
    /\ job = Resting /\ p \in scan.known /\ \A q \in scan.visit : file[q] = NoFile
    /\ scan' = [visit |-> {}, known |-> scan.known \ {p}]
    /\ job' = [step |-> "erase", path |-> p, content |-> NoFile]
    /\ UNCHANGED <<commandVars, backend, chunks, documents, kept, file, hurt, edits, failures>>

EndScan ==
    /\ job = Resting /\ scan.known = {} /\ \A q \in scan.visit : file[q] = NoFile
    /\ scan # NoScan /\ scan' = NoScan
    /\ UNCHANGED <<commandVars, backend, chunks, documents, kept, file, job, hurt, edits, failures>>

\* IndexFile: old chunks, embedding, new chunks, document.
Clear ==
    /\ job.step = "clear" /\ chunks' = DeleteByFile(job.path)
    /\ job' = [job EXCEPT !.step = "save"]
    /\ UNCHANGED <<commandVars, backend, documents, kept, file, scan, hurt, edits, failures>>

\* A file without chunks is left at that: its document stays.
SaveNothing ==
    /\ job.step = "save" /\ job.content = <<>> /\ job' = Resting
    /\ hurt' = hurt \union {job.path}
    /\ UNCHANGED <<commandVars, backend, chunks, documents, kept, file, scan, edits, failures>>

Save ==
    /\ job.step = "save" /\ job.content # <<>>
    /\ chunks' = SaveChunks(ChunksFor(job.path, job.content))
    /\ job' = [job EXCEPT !.step = "note"]
    /\ UNCHANGED <<commandVars, backend, documents, kept, file, scan, hurt, edits, failures>>

Note ==
    /\ job.step = "note" /\ documents' = SaveDocument(job.path, job.content)
    /\ job' = Resting /\ hurt' = hurt \ {job.path}
    /\ UNCHANGED <<commandVars, backend, chunks, kept, file, scan, edits, failures>>

\* RemoveFile: chunks, then the document.
Erase ==
    /\ job.step = "erase" /\ chunks' = DeleteByFile(job.path)
    /\ job' = [job EXCEPT !.step = "forget"]
    /\ UNCHANGED <<commandVars, backend, documents, kept, file, scan, hurt, edits, failures>>

Forget ==
    /\ job.step = "forget" /\ documents' = DeleteDocument(job.path)
    /\ job' = Resting /\ hurt' = hurt \ {job.path}
    /\ UNCHANGED <<commandVars, backend, chunks, kept, file, scan, edits, failures>>

\* The embedder or a database refuses; calls to the file store do not fail.
Fails ==
    /\ job # Resting /\ (backend = "gob" => job.step = "save")
    /\ failures < MaxFailures /\ failures' = failures + 1
    /\ job' = Resting /\ hurt' = hurt \union {job.path}
    /\ UNCHANGED <<commandVars, backend, chunks, documents, kept, file, scan, edits>>

Persist ==
    /\ backend = "gob" /\ job = Resting /\ kept # Snapshot /\ kept' = Snapshot
    /\ UNCHANGED <<commandVars, backend, chunks, documents, file, job, scan, hurt,
                   edits, failures>>

Restart ==
    /\ failures < MaxFailures /\ failures' = failures + 1
    /\ job' = Resting /\ scan' = NoScan
    /\ IF backend = "gob"
       THEN chunks' = kept.chunks /\ documents' = kept.documents /\ hurt' = kept.hurt
       ELSE hurt' = hurt \union ({job.path} \intersect StoredPath) /\ UNCHANGED <<chunks, documents>>
    /\ UNCHANGED <<commandVars, backend, kept, file, edits>>

\* A command of another process loads the index file, and closing its store
\* writes what it has loaded.
LoadStore ==
    /\ backend = "gob" /\ reader = NoSnapshot /\ reader' = kept
    /\ readers < MaxReaders /\ readers' = readers + 1
    /\ UNCHANGED <<backend, chunks, documents, kept, file, job, scan, hurt, edits, failures>>

CloseStore ==
    /\ reader # NoSnapshot /\ kept' = reader /\ reader' = NoSnapshot
    /\ UNCHANGED <<backend, chunks, documents, file, job, scan, hurt, edits, failures, readers>>

StoreNext ==
    \/ \E p \in StoredPath : EditFile(p) \/ Event(p) \/ Visit(p) \/ RemoveUnseen(p)
    \/ BeginScan \/ EndScan \/ Clear \/ SaveNothing \/ Save \/ Note \/ Erase \/ Forget
    \/ Fails \/ Persist \/ Restart \/ LoadStore \/ CloseStore

StoreSpec == StoreInit /\ [][StoreNext]_storeVars

(***************************************************************************)
(* Search                                                                  *)
(***************************************************************************)

\* The members of S from first to last by a linear order, a set of pairs.
Nth(S, order, k) == CHOOSE x \in S : Cardinality({y \in S : <<y, x>> \in order}) = k
AtMost(S) == {x \in S \X S : x[1] <= x[2]}
Only(list, places) == [k \in 1..Cardinality(places) |-> list[Nth(places, AtMost(places), k)]]

\* Results [chunk, value], the best first; among equals the sort's order is any.
Better(list) ==
    {x \in (DOMAIN list) \X (DOMAIN list) :
        \/ list[x[1]].value > list[x[2]].value
        \/ list[x[1]].value = list[x[2]].value /\ x[1] <= x[2]}
Sorted(list) == [k \in DOMAIN list |-> list[Nth(DOMAIN list, Better(list), k)]]
Listed(set) == CHOOSE list \in [1..Cardinality(set) -> set] : \A x \in set : \E i \in DOMAIN list : list[i] = x
Ranked(set) == Sorted(Listed(set))
Valued(set, value) == {[chunk |-> c, value |-> value[c]] : c \in set}
Cut(list, n) == SubSeq(list, 1, IF n < Len(list) THEN n ELSE Len(list))
Under(prefixed) == IF prefixed THEN {c \in chunks : c.path \in Within} ELSE chunks

\* Qdrant is asked for twice the results and the prefix is looked for in these.
StoreSearch(q, n, prefixed) ==
    LET value == [c \in chunks |-> Score[q][c.text]]
        twice == Cut(Ranked(Valued(chunks, value)), IF prefixed THEN 2 * n ELSE n)
    IN IF backend = "qdrant"
       THEN Cut(Only(twice, {i \in DOMAIN twice : twice[i].chunk \in Under(prefixed)}), n)
       ELSE Cut(Ranked(Valued(Under(prefixed), value)), n)

TextSearch(q, n, prefixed) ==
    LET value == [c \in chunks |-> WordsIn[q][c.text]]
    IN Cut(Ranked({r \in Valued(Under(prefixed), value) : r.value > 0}), n)

SumTo(f, n) == LET sum[i \in 0..n] == IF i = 0 THEN 0 ELSE sum[i - 1] + f[i] IN sum[n]
ProductTo(f, n) == LET prod[i \in 0..n] == IF i = 0 THEN 1 ELSE prod[i - 1] * f[i] IN prod[n]

\* Sums of 1 / (k + rank) over the lists, by chunk id, with their common
\* denominator; Qdrant's answers have no ids.
FusedId(r) == IF backend = "qdrant" THEN <<>> ELSE r.chunk.id
Points(list, x, scale) ==
    SumTo([i \in DOMAIN list |-> IF FusedId(list[i]) = x THEN scale \div (RrfK + i) ELSE 0], Len(list))
Fused(list, other) ==
    LET all == list \o other
        scale == ProductTo([i \in DOMAIN all |-> RrfK + i], Len(all))
        last(x) == CHOOSE i \in DOMAIN all :
            FusedId(all[i]) = x /\ \A j \in DOMAIN all : j > i => FusedId(all[j]) # x
    IN {[chunk |-> all[last(x)].chunk, value |-> Points(list, x, scale) + Points(other, x, scale)] :
           x \in {FusedId(all[i]) : i \in DOMAIN all}}
Fusion(list, other, n) == Cut(Ranked(Fused(list, other)), n)

ApplyBoost(list) ==
    Sorted([i \in DOMAIN list |-> [list[i] EXCEPT !.value = @ * Boost[list[i].chunk.path]]])

DeduplicateByFile(list) ==
    Only(list, {i \in DOMAIN list : \A j \in 1..i - 1 : list[j].chunk.path # list[i].chunk.path})

FetchLimit(n, dedup) == n * (IF dedup THEN 4 ELSE 2)

Fetched(q, n, prefixed, dedup, hybrid) ==
    LET fetch == FetchLimit(n, dedup)
        vector == StoreSearch(q, fetch, prefixed)
    IN IF hybrid THEN Fusion(vector, TextSearch(q, fetch, prefixed), fetch) ELSE vector

Search(q, n, prefixed, dedup, hybrid) ==
    LET boosted == ApplyBoost(Fetched(q, n, prefixed, dedup, hybrid))
    IN Cut(IF dedup THEN DeduplicateByFile(boosted) ELSE boosted, n)

(***************************************************************************)
(* Properties                                                              *)
(***************************************************************************)

\* Between any two calls of the indexer, whatever call failed before and whatever
\* index file was loaded, a search sees all chunks of one content of a file or none;
\* and a document, which keeps its file from being indexed again, is backed by the
\* chunks of its content, but for a file that a failed job has left without.
OneContentPerFile ==
    /\ \A p \in StoredPath :
          {c \in chunks : c.path = p} \in {{}} \union {ChunksFor(p, new) : new \in Contents[p]}
    /\ \A p \in DOMAIN documents :
          p \notin hurt /\ job.path # p =>
              {c \in chunks : c.path = p} = ChunksFor(p, documents[p].content)

Weight(q, c) == Score[q][c.text] * Boost[c.path]
Rivals(q, c, set) == {d \in set \ {c} : Score[q][d.text] >= Score[q][c.text]}

\* Why a chunk is not answered: as many others as are fetched are no less similar
\* (for Qdrant and a prefix also twice as many of whatever path), or all results
\* weigh no less, or one of its own file does that stands for the file.
Outdone(q, c, r, n, prefixed, dedup) ==
    LET fetch == FetchLimit(n, dedup)
    IN \/ Cardinality(Rivals(q, c, Under(prefixed))) >= fetch
       \/ backend = "qdrant" /\ prefixed /\ Cardinality(Rivals(q, c, chunks)) >= 2 * fetch
       \/ Len(r) = n /\ \A i \in DOMAIN r : r[i].value >= Weight(q, c)
       \/ dedup /\ \E i \in DOMAIN r :
                       r[i].chunk.path = c.path /\ r[i].value >= Weight(q, c)

\* The search keeps what it promises of any index: no more than the limit, only
\* what is indexed and asked for, in order, once; as many as there are, with one
\* result per file so long as no file has more chunks than are fetched per result
\* (a longer file may take all that is fetched, and hide the others); and, without
\* the fusion with a text search, the best by boosted similarity of what was fetched.
SearchSound ==
    job = Resting => \A q \in Query, n \in 1..2, prefixed, dedup, hybrid \in BOOLEAN :
        LET r == Search(q, n, prefixed, dedup, hybrid)
            found == {r[i].chunk : i \in DOMAIN r}
            wanted == IF dedup THEN {c.path : c \in Under(prefixed)} ELSE Under(prefixed)
            all == IF Cardinality(wanted) < n THEN Cardinality(wanted) ELSE n
            exhaustive == dedup => \A p \in StoredPath :
                              Cardinality({c \in chunks : c.path = p}) <= FetchLimit(1, dedup)
        IN /\ Len(r) <= n /\ found \subseteq Under(prefixed)
           /\ \A i, j \in DOMAIN r : i < j =>
                 /\ r[i].value >= r[j].value /\ r[i].chunk # r[j].chunk
                 /\ dedup => r[i].chunk.path # r[j].chunk.path
           /\ exhaustive /\ ~(backend = "qdrant" /\ (prefixed \/ hybrid)) => Len(r) = all
           /\ ~hybrid =>
                 /\ \A i \in DOMAIN r : r[i].value = Weight(q, r[i].chunk)
                 /\ \A c \in Under(prefixed) \ found : Outdone(q, c, r, n, prefixed, dedup)

\* A search sees one content of a file, backed by its document, and leaves nothing
\* out but for what is better: of what a file's chunks weigh among those fetched,
\* two or four times the limit by similarity alone (store/*.go, search/*.go).
StoresAreSound == OneContentPerFile /\ SearchSound
================================================================================
