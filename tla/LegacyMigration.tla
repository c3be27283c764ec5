--------------------------- MODULE LegacyMigration ---------------------------
(***************************************************************************)
(* "grepai v2 migrate": the first engine's index, read at once, is written *)
(* document by document into a catalog of its own, while the first engine  *)
(* goes on changing its index.  A migration can be killed between any two  *)
(* transactions and is run again, also under another configuration.        *)
(*                                                                         *)
(* A document is its hash and its chunks in order, each the vector it      *)
(* resolves to or Dangling.  A chunk's identity is its vector under the    *)
(* fingerprint.                                                            *)
(***************************************************************************)
EXTENDS Integers, Sequences, FiniteSets

CONSTANTS
    SourcePath,      \* the files of the index
    Order,           \* and the order they are imported in
    Documents,       \* the documents a file can have: [hash, chunks]
    Fingerprint,     \* the configurations
    NoDocument,      \* model values
    Dangling,
    MaxChanges       \* changes of index and configuration

ASSUME MigrationAssumption ==
    /\ Order \in Seq(SourcePath)
    /\ \A p \in SourcePath : \E i \in 1..Len(Order) : Order[i] = p
    /\ \A i, j \in 1..Len(Order) : Order[i] = Order[j] => i = j
    /\ \A d \in Documents : d.chunks \in Seq({d.chunks[k] : k \in DOMAIN d.chunks})
    /\ NoDocument \notin Documents /\ "none" \notin Fingerprint

VARIABLES
    source,          \* the index.gob: path -> document
    config,          \* the fingerprint DeriveFingerprint gives
    loaded,          \* LegacyIndex of the migration under way
    fingerprint,     \* and its fingerprint
    migration,       \* "idle", "guard", "import", "prune" or "verify"
    next,            \* how many of Order are through
    put,             \* how many of the next document's chunks are through
    committed,
    placements,
    verdict,         \* of the last migration: "none", "reconciled", "mismatch",
                     \* "refused" or "killed"
    active,          \* the active generation's fingerprint, or "none"
    vectors,         \* chunks: <<fingerprint, vector>>
    rows,            \* artifact_chunks: <<artifact, ordinal, vector>>
    views,           \* worktree_files: path -> artifact
    reembedded,      \* history: artifacts committed with two lists of chunks
    changed

sourceVars == <<source, config, changed>>
catalogVars == <<active, vectors, rows, views, reembedded>>
runVars == <<loaded, fingerprint, migration, next, put, committed, placements, verdict>>
migrationVars == <<sourceVars, catalogVars, runVars>>

\* The chunks of a document that resolve, and their ordinals among these.
Usable(d) == {k \in DOMAIN d.chunks : d.chunks[k] # Dangling}
Ordinal(d, k) == Cardinality({j \in Usable(d) : j < k})
Rows(a, d) == {<<a, Ordinal(d, k), d.chunks[k]>> : k \in Usable(d)}

Artifact(p) == <<p, loaded[p].hash, fingerprint>>
Documented(index) == {p \in SourcePath : index[p] # NoDocument}
Resolves(index) == {p \in Documented(index) : Usable(index[p]) # {}}

MigrationInit ==
    /\ source \in [SourcePath -> Documents \cup {NoDocument}] /\ config \in Fingerprint
    /\ loaded = source /\ fingerprint = config /\ migration = "idle"
    /\ next = 0 /\ put = 0 /\ committed = {} /\ placements = 0 /\ verdict = "none"
    /\ active = "none" /\ vectors = {} /\ rows = {} /\ views = <<>>
    /\ reembedded = {} /\ changed = 0

Reindex(p) ==
    /\ changed < MaxChanges /\ changed' = changed + 1
    /\ \E d \in Documents \cup {NoDocument} :
          d # source[p] /\ source' = [source EXCEPT ![p] = d]
    /\ UNCHANGED <<config, catalogVars, runVars>>

Configure ==
    /\ changed < MaxChanges /\ changed' = changed + 1
    /\ config' \in Fingerprint \ {config}
    /\ UNCHANGED <<source, catalogVars, runVars>>

\* LoadIndex: an empty index is an error.
LoadIndex ==
    /\ migration = "idle" /\ Documented(source) # {}
    /\ migration' = "guard" /\ loaded' = source /\ fingerprint' = config
    /\ next' = 0 /\ put' = 0 /\ committed' = {} /\ placements' = 0
    /\ UNCHANGED <<verdict, sourceVars, catalogVars>>

\* A fresh catalog, or the same migration again; EnsureActiveGeneration.
Own ==
    /\ migration = "guard" /\ active \in {"none", fingerprint}
    /\ migration' = "import" /\ active' = fingerprint
    /\ UNCHANGED <<loaded, fingerprint, next, put, committed, placements, verdict,
                   vectors, rows, views, reembedded, sourceVars>>

Refuse ==
    /\ migration = "guard" /\ active \notin {"none", fingerprint}
    /\ migration' = "idle" /\ verdict' = "refused"
    /\ UNCHANGED <<loaded, fingerprint, next, put, committed, placements,
                   sourceVars, catalogVars>>

Here == Order[next + 1]
Importing == migration = "import" /\ next < Len(Order)

\* A file without a document is not in the loop; a document without usable chunks
\* commits no view.
Skip ==
    /\ Importing /\ Here \notin Resolves(loaded) /\ next' = next + 1
    /\ UNCHANGED <<loaded, fingerprint, migration, put, committed, placements, verdict,
                   sourceVars, catalogVars>>

\* A chunk that dangles is passed over.
PutChunkVector ==
    /\ Importing /\ Here \in Resolves(loaded) /\ put < Len(loaded[Here].chunks)
    /\ put' = put + 1
    /\ vectors' = IF put' \in Usable(loaded[Here])
                  THEN vectors \cup {<<fingerprint, loaded[Here].chunks[put']>>} ELSE vectors
    /\ UNCHANGED <<loaded, fingerprint, migration, next, committed, placements, verdict,
                   active, rows, views, reembedded, sourceVars>>

RowsOf(a) == {r \in rows : r[1] = a}

\* INSERT OR IGNORE: an ordinal that is there keeps its chunk.
CommitUpdate ==
    /\ Importing /\ Here \in Resolves(loaded) /\ put = Len(loaded[Here].chunks)
    /\ LET a == Artifact(Here)
           new == Rows(a, loaded[Here])
       IN /\ rows' = rows \cup {r \in new : \A old \in RowsOf(a) : old[2] # r[2]}
          /\ reembedded' = IF RowsOf(a) \in {{}, new} THEN reembedded
                                                     ELSE reembedded \cup {a}
          /\ views' = [p \in DOMAIN views \cup {Here} |-> IF p = Here THEN a ELSE views[p]]
    /\ committed' = committed \cup {Here}
    /\ placements' = placements + Cardinality(Usable(loaded[Here]))
    /\ next' = next + 1 /\ put' = 0
    /\ UNCHANGED <<loaded, fingerprint, migration, verdict, active, vectors, sourceVars>>

Imported ==
    /\ migration = "import" /\ next = Len(Order) /\ migration' = "prune"
    /\ UNCHANGED <<loaded, fingerprint, next, put, committed, placements, verdict,
                   sourceVars, catalogVars>>

KeepsViews ==                                                          \* mutant
    /\ migration = "prune" /\ migration' = "verify"
    /\ UNCHANGED <<loaded, fingerprint, next, put, committed, placements, verdict,
                   sourceVars, catalogVars>>

\* One view that was not committed now goes, or there is none left.
Prune ==
    /\ migration = "prune"
    /\ IF DOMAIN views \subseteq committed
       THEN migration' = "verify" /\ UNCHANGED views
       ELSE /\ \E gone \in DOMAIN views \ committed :
                  views' = [p \in DOMAIN views \ {gone} |-> views[p]]
            /\ UNCHANGED migration
    /\ UNCHANGED <<loaded, fingerprint, next, put, committed, placements, verdict,
                   active, vectors, rows, reembedded, sourceVars>>

\* Reconcile: the documents are read back, the placements are those attempted and
\* as many are expected as references of all documents resolve.
Expected == Cardinality(UNION {{p} \X Usable(loaded[p]) : p \in Documented(loaded)})
Reconcile ==
    /\ migration = "verify" /\ migration' = "idle"
    /\ verdict' = IF Cardinality(DOMAIN views) = Cardinality(Resolves(loaded))
                     /\ placements = Expected
                  THEN "reconciled" ELSE "mismatch"
    /\ UNCHANGED <<loaded, fingerprint, next, put, committed, placements,
                   sourceVars, catalogVars>>

KillMigration ==
    /\ migration # "idle" /\ migration' = "idle" /\ verdict' = "killed"
    /\ UNCHANGED <<loaded, fingerprint, next, put, committed, placements,
                   sourceVars, catalogVars>>

MigrationNext ==
    \/ \E p \in SourcePath : Reindex(p)
    \/ Configure \/ LoadIndex \/ Own \/ Refuse \/ Skip \/ PutChunkVector \/ CommitUpdate
    \/ Imported \/ Prune \/ Reconcile \/ KillMigration

MigrationSpec == MigrationInit /\ [][MigrationNext]_migrationVars

(***************************************************************************)
(* Properties                                                              *)
(***************************************************************************)

Searchable(p) == {r[3] : r \in RowsOf(views[p])}

\* Whatever was killed and run again, the views never mix two fingerprints and each
\* has chunks with vectors to be found by.
CatalogIsWhole ==
    \A p \in DOMAIN views :
        /\ views[p][3] = active /\ RowsOf(views[p]) # {}
        /\ \A v \in Searchable(p) : <<active, v>> \in vectors

\* A migration that comes to its end reconciles, and then the views are those of the
\* documents it read that have a usable chunk, in their version, with all of their
\* chunks -- unless the same version was imported before with other chunks.
ReconciledMirrors ==
    migration = "idle" /\ verdict = "reconciled" =>
        /\ DOMAIN views = Resolves(loaded)
        /\ \A p \in DOMAIN views :
              /\ views[p] = Artifact(p)
              /\ views[p] \notin reembedded =>
                    Searchable(p) = {loaded[p].chunks[k] : k \in Usable(loaded[p])}

\* A run that was not killed or refused never reports a mismatch.
MigrationIsFaithful == CatalogIsWhole /\ ReconciledMirrors /\ verdict # "mismatch"
================================================================================
