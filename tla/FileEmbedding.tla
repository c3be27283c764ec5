----------------------------- MODULE FileEmbedding -----------------------------
(***************************************************************************)
(* Indexing one file in the first engine: its chunks, those the embedding  *)
(* cache knows, the embedding of the others with the splitting of what     *)
(* exceeds the model's context, the merge of the two, and the save.        *)
(*                                                                         *)
(* A text is a range <<first, last>> of the file's units; a vector is      *)
(* represented by the text it was made of.  A chunk's text has Pieces      *)
(* units and ReChunk cuts it at every unit.                                *)
(***************************************************************************)
EXTENDS Integers, Sequences, FiniteSets

CONSTANTS
    Chunks,          \* how many chunks the file has
    Pieces,          \* how many sub-chunks ReChunk makes of one
    Room,            \* how many units of a text may fit, per chunk: subset of 0..Pieces
    Providers        \* subset of {"ollama", "lmstudio", "openai"}

ASSUME FileAssumption ==
    /\ Chunks \in Nat \ {0} /\ Pieces \in Nat \ {0} /\ Room \subseteq 0..Pieces
    /\ Providers \subseteq {"ollama", "lmstudio", "openai"}

VARIABLES
    progress,        \* "idle", "embedding", "saved" or "failed"
    provider,
    room,            \* per chunk: how many units of it the model takes
    cached,          \* the chunks whose text the cache knows
    current,         \* currentChunks: what is still to embed
    done,            \* finalChunks with their vectors
    attempt,
    stored,          \* the store's chunks of the file: id -> text and vector
    document         \* ChunkIDs of its document

indexVars == <<progress, provider, room, cached, current, done, attempt, stored, document>>

maxReChunkAttempts == 3
Index == 0..Chunks - 1

Chunk(i) == [id |-> <<i>>, text |-> <<i * Pieces, i * Pieces + Pieces - 1>>]
Length(text) == text[2] - text[1] + 1
TooLong(c) == Length(c.text) > room[c.text[1] \div Pieces]

NewChunks[i \in 0..Chunks] ==
    IF i = 0 THEN <<>>
    ELSE IF i - 1 \in cached THEN NewChunks[i - 1] ELSE Append(NewChunks[i - 1], Chunk(i - 1))

Embedded(chunks) == [k \in DOMAIN chunks |-> [chunk |-> chunks[k], vector |-> chunks[k].text]]

EmbedInit ==
    /\ progress = "idle" /\ provider \in Providers
    /\ room \in [Index -> Room] /\ cached \in SUBSET Index
    /\ current = <<>> /\ done = <<>> /\ attempt = 0
    /\ stored = <<>> /\ document = <<>>

\* The old chunks go first, whatever comes of the new ones.
BeginFile ==
    /\ progress = "idle" /\ progress' = "embedding"
    /\ current' = NewChunks[Chunks]
    /\ stored' = <<>>
    /\ UNCHANGED <<provider, room, cached, done, attempt, document>>

\* Sub-chunks are numbered within the place their parent has in the list.
ReChunk(parent, parentIndex) ==
    [k \in 1..Length(parent.text) |->
        [id |-> <<parentIndex, k - 1>>,
         text |-> <<parent.text[1] + k - 1, parent.text[1] + k - 1>>]]

\* One too-long text fails the call.  Ollama embeds one text after the other and
\* tells which it was; LM Studio embeds them in one request and says the first.
FailedIndex ==
    IF provider = "lmstudio" THEN 1
    ELSE CHOOSE k \in DOMAIN current :
            TooLong(current[k]) /\ \A j \in 1..k - 1 : ~TooLong(current[j])

AllFit == \A k \in DOMAIN current : ~TooLong(current[k])

EmbedFits ==
    /\ progress = "embedding" /\ current # <<>> /\ AllFit
    /\ done' = done \o Embedded(current) /\ current' = <<>>
    /\ UNCHANGED <<progress, provider, room, cached, attempt, stored, document>>

\* What comes before the failed chunk is embedded at once, its own sub-chunks and
\* what comes after it by the next attempt.
EmbedOverflows ==
    /\ progress = "embedding" /\ ~AllFit /\ provider # "openai"
    /\ attempt + 1 < maxReChunkAttempts /\ attempt' = attempt + 1
    /\ LET failed == FailedIndex
       IN /\ done' = done \o Embedded(SubSeq(current, 1, failed - 1))
          /\ current' = ReChunk(current[failed], failed - 1)
                           \o SubSeq(current, failed + 1, Len(current))
    /\ UNCHANGED <<progress, provider, room, cached, stored, document>>

\* Any other error of a call, or a text too long for the last attempt or for a
\* provider whose answer is not told apart.
EmbedFails ==
    /\ progress = "embedding" /\ current # <<>> /\ progress' = "failed"
    /\ UNCHANGED <<provider, room, cached, current, done, attempt, stored, document>>

CachedOf(i) == [chunk |-> Chunk(i), vector |-> Chunk(i).text]

\* The merge: in the place of each uncached chunk the next embedded one, then
\* those that are left over.
Merging[i \in 0..Chunks] ==
    IF i = 0 THEN [list |-> <<>>, left |-> done]
    ELSE LET so == Merging[i - 1]
         IN IF i - 1 \in cached THEN [so EXCEPT !.list = Append(@, CachedOf(i - 1))]
            ELSE IF so.left = <<>> THEN so
            ELSE [list |-> Append(so.list, Head(so.left)), left |-> Tail(so.left)]

MergedInPlace == Merging[Chunks].list                                   \* mutant

Merged == Merging[Chunks].list \o Merging[Chunks].left

\* SaveChunks keeps one chunk per id, the last of them; SaveDocument lists all ids.
SaveFile ==
    /\ progress = "embedding" /\ current = <<>> /\ progress' = "saved"
    /\ document' = [k \in DOMAIN Merged |-> Merged[k].chunk.id]
    /\ stored' = [id \in {Merged[k].chunk.id : k \in DOMAIN Merged} |->
          LET last == CHOOSE k \in DOMAIN Merged :
                        /\ Merged[k].chunk.id = id
                        /\ \A j \in k + 1..Len(Merged) : Merged[j].chunk.id # id
          IN [text |-> Merged[last].chunk.text, vector |-> Merged[last].vector]]
    /\ UNCHANGED <<provider, room, cached, current, done, attempt>>

EmbedNext == BeginFile \/ EmbedFits \/ EmbedOverflows \/ EmbedFails \/ SaveFile

EmbedSpec == EmbedInit /\ [][EmbedNext]_indexVars

(***************************************************************************)
(* Properties                                                              *)
(***************************************************************************)

Covers(texts) == \A u \in 0..Chunks * Pieces - 1 : \E t \in texts : t[1] <= u /\ u <= t[2]

\* An id two splits have given: each numbered its parts from the place its chunk
\* had in what was left to embed, and two chunks can have had the same place.
Renumbered(k) ==
    /\ Len(Merged[k].chunk.id) = 2
    /\ \E j \in k + 1..Len(Merged) : Merged[j].chunk.id = Merged[k].chunk.id

SavedTexts == {stored[id].text : id \in DOMAIN stored}
RenumberedTexts == {Merged[k].chunk.text : k \in {i \in DOMAIN Merged : Renumbered(i)}}

\* However much was cached and whatever was split, what is stored pairs every chunk
\* with the vector of its own text, and every part of the file is in a stored text:
\* only a sub-chunk whose id a later split gave again may be missing.  (Pairing by
\* position in the merge of IndexFile, and SaveChunks' one chunk per id.)
MergeKeepsTexts ==
    progress = "saved" =>
        /\ \A id \in DOMAIN stored : stored[id].vector = stored[id].text
        /\ Covers(SavedTexts \union RenumberedTexts)
================================================================================
