----------------------------- MODULE EmbedBatches -----------------------------
(***************************************************************************)
(* The first engine's index pass over many files with a batching embedder: *)
(* the chunks of all files are put into batches, a bounded group of        *)
(* goroutines embeds them with retries, and the results are mapped back to *)
(* the files.  The adaptive rate limiter lives from pass to pass and hears *)
(* of every answer from the goroutines, one atomic counter at a time.      *)
(*                                                                         *)
(* A vector is represented by the text it was made of.                     *)
(***************************************************************************)
EXTENDS Integers, Sequences, FiniteSets

CONSTANTS
    Files,             \* how many files there are, numbered in the order of the scan
    TokensOf,          \* a text's estimated tokens
    FileTexts,         \* the chunk texts a file may have: a set of sequences
    BatchSize, MaxBatchTokens,
    MaxWorkers, MaxAttempts,
    ReductionThreshold, RestorationThreshold,
    MaxPasses          \* bound on index passes

ASSUME BatchAssumption ==
    /\ TokensOf \in [DOMAIN TokensOf -> Nat] /\ FileTexts \subseteq Seq(DOMAIN TokensOf)
    /\ Files \in Nat /\ BatchSize \in Nat \ {0} /\ MaxBatchTokens \in Nat
    /\ MaxWorkers \in Nat \ {0} /\ MaxAttempts \in Nat /\ MaxPasses \in Nat
    /\ ReductionThreshold \in Nat \ {0} /\ RestorationThreshold \in Nat \ {0}

VARIABLES
    phase,             \* "idle" or "embed"
    disk,              \* the chunk texts of each file, as the pass under way has read them
    hash,              \* the content each file's document was saved with
    saved,             \* each file's chunks in the store: text and vector
    batches,           \* the entries of each batch: file, chunk, text
    task,              \* where the goroutine of each batch is
    tries,             \* of each batch
    results,           \* the vectors of each batch
    limit,             \* of the goroutine group
    broken,            \* the group has an error, its context is cancelled
    workers, hits, streak,
    passes

groupVars == <<batches, task, tries, results, limit, broken>>
limiterVars == <<workers, hits, streak>>
batchVars == <<phase, disk, hash, saved, groupVars, limiterVars, passes>>

Scanned == 1..Files
NoResult == <<>>
NoVector == "none"
Nothing == [f \in Scanned |-> <<>>]

BatchInit ==
    /\ phase = "idle" /\ passes = 0
    /\ disk = Nothing /\ hash = Nothing /\ saved = Nothing
    /\ batches = <<>> /\ task = <<>> /\ tries = <<>> /\ results = <<>>
    /\ limit = 0 /\ broken = FALSE
    /\ workers = MaxWorkers /\ hits = 0 /\ streak = 0

(***************************************************************************)
(* A pass                                                                  *)
(***************************************************************************)

\* One after the other into the current batch; a full one is put away first.
AddEntry(builder, entry) ==
    LET tokens == TokensOf[entry.text]
        full   == \/ Len(builder.current) >= BatchSize
                  \/ /\ builder.current # <<>>
                     /\ builder.tokens + tokens > MaxBatchTokens
    IN IF full
       THEN [ready |-> Append(builder.ready, builder.current),
             current |-> <<entry>>, tokens |-> tokens]
       ELSE [builder EXCEPT !.current = Append(@, entry), !.tokens = @ + tokens]

FormBatches(entries) ==
    LET built[i \in 0..Len(entries)] ==
            IF i = 0 THEN [ready |-> <<>>, current |-> <<>>, tokens |-> 0]
            ELSE AddEntry(built[i - 1], entries[i])
        last == built[Len(entries)]
    IN IF last.current = <<>> THEN last.ready ELSE Append(last.ready, last.current)

EntriesOf(f, texts) == [k \in DOMAIN texts |-> [file |-> f, chunk |-> k, text |-> texts[k]]]
AllEntries(files, new) ==
    LET all[f \in 0..Files] ==
            IF f = 0 THEN <<>>
            ELSE IF f \in files THEN all[f - 1] \o EntriesOf(f, new[f]) ELSE all[f - 1]
    IN all[Files]

WithVectors(texts, vectors) == [k \in DOMAIN texts |-> [text |-> texts[k], vector |-> vectors[k]]]

\* The chunks of all changed files go first; then the cache is asked, and files it
\* knows in whole are saved at once.
Scan(new) ==
    LET changed == {f \in Scanned : hash[f] = <<>> \/ new[f] # hash[f]}
        kept    == [f \in Scanned |-> IF f \in changed THEN <<>> ELSE saved[f]]
        known   == UNION {{kept[f][k] : k \in DOMAIN kept[f]} : f \in Scanned}
        vectorOf(text) == (CHOOSE c \in known : c.text = text).vector
        inCache(f) == \A k \in DOMAIN new[f] : \E c \in known : c.text = new[f][k]
        whole   == {f \in changed : new[f] # <<>> /\ inCache(f)}
        rest    == changed \ whole
        entries == AllEntries(rest, new)
    IN /\ phase = "idle" /\ passes < MaxPasses /\ passes' = passes + 1
       /\ hash' = [f \in Scanned |-> IF f \in whole THEN new[f] ELSE hash[f]]
       /\ saved' = [f \in Scanned |->
             IF f \in whole
             THEN WithVectors(new[f], [k \in DOMAIN new[f] |-> vectorOf(new[f][k])])
             ELSE kept[f]]
       /\ batches' = FormBatches(entries)
       /\ IF entries = <<>> THEN phase' = "idle" /\ disk' = Nothing
          ELSE phase' = "embed" /\ disk' = new
       /\ task' = [b \in DOMAIN batches' |-> "queued"]
       /\ tries' = [b \in DOMAIN batches' |-> 0]
       /\ results' = [b \in DOMAIN batches' |-> NoResult]
       /\ limit' = IF entries = <<>> THEN 0 ELSE workers
       /\ broken' = FALSE /\ UNCHANGED limiterVars

Ended == {"done", "gone"}

\* The places in the batches that a file's chunks were put, and what came of them.
Placed(f) ==
    {e \in (DOMAIN batches) \X (1..BatchSize) :
        e[2] \in DOMAIN batches[e[1]] /\ batches[e[1]][e[2]].file = f}
EntryOf(f, k) == CHOOSE e \in Placed(f) : batches[e[1]][e[2]].chunk = k
VectorAt(e) == IF e[2] \in DOMAIN results[e[1]] THEN results[e[1]][e[2]] ELSE NoVector
VectorsOf(f) == [k \in DOMAIN disk[f] |-> VectorAt(EntryOf(f, k))]

\* Wait: an error of any batch leaves every file of the pass without chunks, else
\* each vector goes to the file and chunk its entry names.
Wait ==
    LET embedded == {f \in Scanned : Placed(f) # {}}
    IN /\ phase = "embed" /\ \A b \in DOMAIN task : task[b] \in Ended
       /\ phase' = "idle"
       /\ IF broken THEN UNCHANGED <<hash, saved>>
          ELSE /\ hash' = [f \in Scanned |-> IF f \in embedded THEN disk[f] ELSE hash[f]]
               /\ saved' = [f \in Scanned |->
                     IF f \in embedded THEN WithVectors(disk[f], VectorsOf(f)) ELSE saved[f]]
       /\ disk' = Nothing /\ batches' = <<>> /\ task' = <<>>
       /\ tries' = <<>> /\ results' = <<>> /\ limit' = 0 /\ broken' = FALSE
       /\ UNCHANGED <<limiterVars, passes>>

(***************************************************************************)
(* The goroutines of the group                                             *)
(***************************************************************************)

Running == {b \in DOMAIN task : task[b] \notin Ended \cup {"queued"}}

IsAt(b, place) == phase = "embed" /\ task[b] = place
GoesTo(b, place) == task' = [task EXCEPT ![b] = place]

Rest == <<phase, disk, hash, saved, batches, limit, passes>>

\* The group is filled in the order of the batches, also when it has failed.
Launch(b) ==
    /\ IsAt(b, "queued") /\ Cardinality(Running) < limit
    /\ \A c \in 1..b - 1 : task[c] # "queued"
    /\ GoesTo(b, "ready")
    /\ UNCHANGED <<Rest, tries, results, broken, limiterVars>>

GivesUp(b) == GoesTo(b, "gone") /\ broken' = TRUE /\ UNCHANGED tries

Retries(b) ==
    IF tries[b] < MaxAttempts
    THEN GoesTo(b, "ready") /\ tries' = [tries EXCEPT ![b] = @ + 1] /\ UNCHANGED broken
    ELSE GivesUp(b)

\* A request the embedder serves; OnSuccess starts by forgetting the hits.
Served(b) ==
    /\ IsAt(b, "ready") /\ GoesTo(b, "counting") /\ hits' = 0
    /\ UNCHANGED <<Rest, tries, results, broken, workers, streak>>

DeliversInTurn(b) ==                                                    \* mutant
    /\ GoesTo(b, "done")
    /\ LET next == 1 + Cardinality({c \in DOMAIN results : results[c] # NoResult})
       IN results' = [results EXCEPT ![next] =
              [k \in DOMAIN batches[b] |-> batches[b][k].text]]

Delivers(b) ==
    /\ GoesTo(b, "done")
    /\ results' = [results EXCEPT ![b] = [k \in DOMAIN batches[b] |-> batches[b][k].text]]

CountSuccess(b) ==
    /\ IsAt(b, "counting") /\ streak' = streak + 1
    /\ IF streak' >= RestorationThreshold
       THEN GoesTo(b, "restoring") /\ UNCHANGED results
       ELSE Delivers(b)
    /\ UNCHANGED <<Rest, tries, broken, workers, hits>>

RestoreLimit(b) ==
    /\ IsAt(b, "restoring") /\ Delivers(b) /\ streak' = 0
    /\ workers' = IF workers >= MaxWorkers THEN workers ELSE workers + 1
    /\ UNCHANGED <<Rest, tries, broken, hits>>

\* A 429; OnRateLimitHit starts by forgetting the streak.
Limited(b) ==
    /\ IsAt(b, "ready") /\ GoesTo(b, "limited") /\ streak' = 0
    /\ UNCHANGED <<Rest, tries, results, broken, workers, hits>>

CountHit(b) ==
    /\ IsAt(b, "limited") /\ hits' = hits + 1
    /\ IF hits' >= ReductionThreshold
       THEN GoesTo(b, "reducing") /\ UNCHANGED <<tries, broken>>
       ELSE Retries(b)
    /\ UNCHANGED <<Rest, results, workers, streak>>

Reduce(b) ==
    /\ IsAt(b, "reducing") /\ hits' = 0 /\ Retries(b)
    /\ workers' = IF workers <= 1 THEN workers ELSE workers \div 2
    /\ UNCHANGED <<Rest, results, streak>>

\* A server error is retried and the limiter is not told.
Overloaded(b) ==
    /\ IsAt(b, "ready") /\ Retries(b)
    /\ UNCHANGED <<Rest, results, limiterVars>>

\* Any other error, among them a text beyond the context; or the group has failed.
Refused(b) ==
    /\ IsAt(b, "ready") /\ GivesUp(b)
    /\ UNCHANGED <<Rest, results, limiterVars>>

Works(b) ==
    \/ Launch(b) \/ Served(b) \/ CountSuccess(b) \/ RestoreLimit(b)
    \/ Limited(b) \/ CountHit(b) \/ Reduce(b) \/ Overloaded(b) \/ Refused(b)

BatchNext ==
    \/ \E new \in [Scanned -> FileTexts] : Scan(new)
    \/ Wait
    \/ \E b \in DOMAIN batches : Works(b)

BatchSpec == BatchInit /\ [][BatchNext]_batchVars

(***************************************************************************)
(* Properties                                                              *)
(***************************************************************************)

\* Whatever order the batches end in, whichever of them fail and whatever the
\* cache supplied, a file has all chunks of the content its document names, each
\* with the vector of its own text, or it has none.
VectorsMatch ==
    \A f \in Scanned : saved[f] # <<>> => saved[f] = WithVectors(hash[f], hash[f])

\* The limiter never leaves the range that lets the next group work: a group with
\* the limit 0 would start nothing and never end (rate_limiter.go, "1 <= value <=
\* maxWorkers"), and no group exceeds the limit it was given.
GroupCanWork ==
    /\ workers \in 1..MaxWorkers
    /\ phase = "embed" => limit >= 1 /\ Cardinality(Running) <= limit

\* A pass can go on whatever the limiter was told, and what it saves is right.
PassesAreRight == VectorsMatch /\ GroupCanWork
================================================================================
