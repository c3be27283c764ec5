---------------------------- MODULE Stores_proofs ----------------------------
(***************************************************************************)
(* Proofs about what the first engine embeds, stores and finds: a chunk is *)
(* kept with the vector of its own text, however files are cut and batches *)
(* end; and whichever of the three stores there is, whatever call fails    *)
(* and whatever index file is loaded, a search sees one content of a file, *)
(* and answers what it promises.                                           *)
(***************************************************************************)
EXTENDS VectorStores, FileEmbedding, EmbedBatches, FiniteSetTheorems, FunctionTheorems,
        SequenceTheorems, WellFoundedInduction, TLAPS

(***************************************************************************)
(* Numbers and lists.  What a recursive function computes is proved from   *)
(* the least number at which it would not be so.                           *)
(***************************************************************************)
\* A set of natural numbers has a least one; below a limit, a greatest.
LEMMA Smallest ==
    ASSUME NEW T \in SUBSET Nat, T # {}
    PROVE  \E x \in T : \A y \in T : x <= y
  <1> DEFINE R == OpToRel(<, Nat)
  <1>1. IsWellFoundedOn(R, Nat)
    BY NatLessThanWellFounded
  <1>2. \A x, y \in Nat : x < y => <<x, y>> \in R
    BY DEF OpToRel
  <1> HIDE DEF R
  <1>3. PICK x \in T : \A y \in T : ~ (<<y, x>> \in R)
    BY <1>1, WFMin
  <1>4. \A y \in T : ~ (y < x)
    BY <1>2, <1>3
  <1> QED
    BY <1>4

LEMMA Largest ==
    ASSUME NEW T \in SUBSET Nat, T # {}, NEW top \in Nat, \A x \in T : x <= top
    PROVE  \E x \in T : \A y \in T : y <= x
  <1> DEFINE Below == {top - x : x \in T}
  <1>1. Below \in SUBSET Nat /\ Below # {}
    <2>1. \A x \in T : top - x \in Nat
      OBVIOUS
    <2> QED
      BY <2>1
  <1>2. PICK m \in Below : \A y \in Below : m <= y
    BY <1>1, Smallest
  <1>3. PICK x \in T : m = top - x
    BY <1>2
  <1>4. \A y \in T : top - x <= top - y
    BY <1>2, <1>3
  <1> QED
    BY <1>4


LEMMA UpTo ==
    ASSUME NEW n \in Nat
    PROVE  IsFiniteSet(1..n) /\ Cardinality(1..n) = n
  BY FS_Interval

\* What holds at the start of 0..n and is handed on by every number holds up to n.
LEMMA Upwards ==
    ASSUME NEW n \in Nat, NEW T, 0 \in T, \A i \in 1..n : i - 1 \in T => i \in T
    PROVE  \A i \in 0..n : i \in T
  <1> DEFINE Odd == {i \in 0..n : i \notin T}
  <1>1. ASSUME Odd # {}
        PROVE  FALSE
    <2>1. PICK i \in Odd : \A k \in Odd : i <= k
      <3>1. Odd \in SUBSET Nat
        OBVIOUS
      <3> HIDE DEF Odd
      <3> QED
        BY <1>1, <3>1, Smallest
    <2>2. i \in 1..n /\ i - 1 \in 0..n /\ i - 1 \notin Odd
      BY <2>1
    <2> QED
      BY <2>1, <2>2
  <1> QED
    BY <1>1

\* A function that is defined from one number to the next exists.
Runs(g, base, step, m) == g = [i \in 0..m |-> IF i = 0 THEN base ELSE step[i][g[i - 1]]]

LEMMA RunsOn ==
    ASSUME NEW n \in Nat, NEW A, NEW base \in A, NEW step \in [1..n -> [A -> A]],
           NEW m \in 1..n, NEW g \in [0..m - 1 -> A], Runs(g, base, step, m - 1)
    PROVE  \E h \in [0..m -> A] : Runs(h, base, step, m)
  <1> DEFINE h == [i \in 0..m |-> IF i = m THEN step[m][g[m - 1]] ELSE g[i]]
  <1>1. h \in [0..m -> A]
    <2>1. m - 1 \in 0..m - 1 /\ step[m] \in [A -> A]
      OBVIOUS
    <2>2. step[m][g[m - 1]] \in A
      BY <2>1
    <2>3. ASSUME NEW i \in 0..m, i # m
          PROVE  g[i] \in A
      BY <2>3
    <2> QED
      BY <2>2, <2>3
  <1>2. ASSUME NEW i \in 0..m
        PROVE  h[i] = IF i = 0 THEN base ELSE step[i][h[i - 1]]
    <2>1. CASE i = m
      BY <2>1
    <2>2. CASE i # m
      <3>1. i \in 0..m - 1 /\ (i # 0 => i - 1 \in 0..m - 1)
        BY <2>2
      <3>2. g[i] = IF i = 0 THEN base ELSE step[i][g[i - 1]]
        BY <3>1 DEF Runs
      <3> QED
        BY <2>2, <3>1, <3>2
    <2> QED
      BY <2>1, <2>2
  <1> HIDE DEF h
  <1>3. h = [i \in 0..m |-> h[i]]
    BY <1>1
  <1>4. [i \in 0..m |-> h[i]] = [i \in 0..m |-> IF i = 0 THEN base ELSE step[i][h[i - 1]]]
    BY <1>2
  <1>5. Runs(h, base, step, m)
    BY <1>3, <1>4 DEF Runs
  <1> QED
    BY <1>1, <1>5

LEMMA Recursion ==
    ASSUME NEW n \in Nat, NEW A, NEW base \in A, NEW step \in [1..n -> [A -> A]]
    PROVE  \E g \in [0..n -> A] : Runs(g, base, step, n)
  <1> DEFINE T == {m \in 0..n : \E g \in [0..m -> A] : Runs(g, base, step, m)}
  <1>1. 0 \in T
    <2> DEFINE g == [i \in 0..0 |-> base]
    <2>1. g = [i \in 0..0 |-> IF i = 0 THEN base ELSE step[i][g[i - 1]]]
      OBVIOUS
    <2>2. g \in [0..0 -> A]
      OBVIOUS
    <2> HIDE DEF g
    <2>3. Runs(g, base, step, 0)
      BY <2>1 DEF Runs
    <2> QED
      BY <2>2, <2>3
  <1>2. ASSUME NEW m \in 1..n, m - 1 \in T
        PROVE  m \in T
    <2>1. PICK g \in [0..m - 1 -> A] : Runs(g, base, step, m - 1)
      BY <1>2
    <2>2. \E h \in [0..m -> A] : Runs(h, base, step, m)
      BY <2>1, RunsOn
    <2> QED
      BY <2>2
  <1> HIDE DEF T
  <1>3. n \in T
    <2>1. \A i \in 0..n : i \in T
      BY <1>1, <1>2, Upwards
    <2> QED
      BY <2>1
  <1> QED
    BY <1>3 DEF T

----------------------------------------------------------------------------
\* The members of a list.
Members(list) == {list[i] : i \in DOMAIN list}

LEMMA ListIs ==
    ASSUME NEW R, NEW list \in Seq(R)
    PROVE  /\ Len(list) \in Nat /\ DOMAIN list = 1..Len(list)
           /\ \A i \in 1..Len(list) : list[i] \in R
           /\ Members(list) \subseteq R
  BY LenProperties DEF Members

LEMMA OneMore ==
    ASSUME NEW R, NEW list \in Seq(R), NEW x \in R
    PROVE  /\ Append(list, x) \in Seq(R) /\ Append(list, x) # <<>>
           /\ Len(Append(list, x)) = Len(list) + 1
           /\ Members(Append(list, x)) = Members(list) \union {x}
  <1>1. /\ Append(list, x) \in Seq(R) /\ Append(list, x) # <<>>
        /\ Len(Append(list, x)) = Len(list) + 1
        /\ \A i \in 1..Len(list) : Append(list, x)[i] = list[i]
        /\ Append(list, x)[Len(list) + 1] = x
    BY AppendProperties
  <1>2. Len(list) \in Nat /\ DOMAIN list = 1..Len(list)
    BY ListIs
  <1>3. DOMAIN Append(list, x) = 1..Len(list) + 1
    BY <1>1, ListIs
  <1> QED
    BY <1>1, <1>2, <1>3 DEF Members

LEMMA Joined ==
    ASSUME NEW R, NEW list \in Seq(R), NEW other \in Seq(R)
    PROVE  /\ list \o other \in Seq(R)
           /\ Len(list \o other) = Len(list) + Len(other)
           /\ Members(list \o other) = Members(list) \union Members(other)
  <1>1. /\ list \o other \in Seq(R)
        /\ Len(list \o other) = Len(list) + Len(other)
        /\ \A i \in 1..Len(list) + Len(other) : (list \o other)[i] =
              IF i <= Len(list) THEN list[i] ELSE other[i - Len(list)]
    BY ConcatProperties
  <1> DEFINE both == list \o other
             n == Len(list)
             m == Len(other)
  <1>2. n \in Nat /\ m \in Nat /\ DOMAIN list = 1..n /\ DOMAIN other = 1..m
        /\ DOMAIN both = 1..n + m
    BY <1>1, ListIs
  <1>3. \A i \in 1..n + m : both[i] = IF i <= n THEN list[i] ELSE other[i - n]
    BY <1>1
  <1> HIDE DEF both, n, m
  <1>4. Members(both) \subseteq Members(list) \union Members(other)
    BY <1>2, <1>3 DEF Members
  <1>5. Members(list) \subseteq Members(both)
    BY <1>2, <1>3 DEF Members
  <1>6. ASSUME NEW i \in 1..m
        PROVE  other[i] \in Members(both)
    <2>1. n + i \in 1..n + m /\ ~ (n + i <= n) /\ n + i - n = i
      BY <1>2
    <2>2. both[n + i] = other[i]
      BY <1>2, <1>3, <2>1
    <2> QED
      BY <1>2, <2>1, <2>2 DEF Members
  <1>7. Members(other) \subseteq Members(both)
    BY <1>2, <1>6 DEF Members
  <1> QED
    BY <1>1, <1>4, <1>5, <1>7 DEF both

(***************************************************************************)
(* The chunks of one file                                                  *)
(***************************************************************************)
TextPlace == Nat \X Nat
ChunkRecord == [id : Seq(Nat), text : TextPlace]
ChunkVector == [chunk : ChunkRecord, vector : TextPlace]

LEMMA ChunkIs ==
    ASSUME NEW i \in Index
    PROVE  Chunk(i) \in ChunkRecord /\ Chunk(i).id = <<i>>
           /\ Chunk(i).text = <<i * Pieces, i * Pieces + Pieces - 1>>
           /\ i * Pieces \in Nat /\ i * Pieces + Pieces - 1 \in Nat
  <1>1. i \in Nat /\ Pieces \in Nat \ {0}
    BY FileAssumption DEF Index
  <1>2. i * Pieces \in Nat
    BY <1>1
  <1>3. i * Pieces + Pieces - 1 \in Nat
    BY <1>1, <1>2
  <1>4. <<i>> \in Seq(Nat)
    BY <1>1
  <1> QED
    BY <1>2, <1>3, <1>4 DEF Chunk, ChunkRecord, TextPlace

\* Every unit of the file is in one of the chunks it is cut into.
Holds(text, u) == text[1] <= u /\ u <= text[2]

LEMMA UnitInChunk ==
    ASSUME NEW u \in 0..Chunks * Pieces - 1
    PROVE  \E i \in Index : Holds(Chunk(i).text, u)
  <1>0. Chunks \in Nat \ {0} /\ Pieces \in Nat \ {0}
    BY FileAssumption
  <1>1. Chunks * Pieces \in Nat
    BY <1>0
  <1>2. u \in Nat /\ u < Chunks * Pieces
    BY <1>1
  <1> DEFINE T == {i \in Nat : u < (i + 1) * Pieces}
  <1>3. Chunks - 1 \in T
    BY <1>0, <1>2
  <1>4. PICK i \in T : \A j \in T : i <= j
    <2>1. T \in SUBSET Nat /\ T # {}
      BY <1>3
    <2> HIDE DEF T
    <2> QED
      BY <2>1, Smallest
  <1>5. i \in Nat /\ i <= Chunks - 1 /\ u < (i + 1) * Pieces
    BY <1>3, <1>4
  <1>6. i \in Index
    BY <1>0, <1>5 DEF Index
  <1>7. (i + 1) * Pieces = i * Pieces + Pieces
    BY <1>0, <1>5
  <1>8. i * Pieces <= u
    <2>1. CASE i = 0
      BY <1>0, <1>2, <2>1
    <2>2. CASE i # 0
      <3>1. i - 1 \in Nat /\ i - 1 \notin T
        BY <1>4, <1>5, <2>2
      <3>2. ~ (u < (i - 1 + 1) * Pieces)
        BY <3>1
      <3>3. i - 1 + 1 = i
        BY <1>5
      <3>4. i * Pieces \in Nat
        BY <1>0, <1>5
      <3> QED
        BY <1>2, <3>2, <3>3, <3>4
    <2> QED
      BY <2>1, <2>2
  <1> QED
    BY <1>0, <1>2, <1>5, <1>6, <1>7, <1>8, ChunkIs DEF Holds

\* The chunks the cache does not know, in their order.
LEMMA NewChunksAre ==
    ASSUME cached \subseteq Index
    PROVE  /\ NewChunks[Chunks] \in Seq(ChunkRecord)
           /\ Members(NewChunks[Chunks]) = {Chunk(i) : i \in Index \ cached}
  <1>0. Chunks \in Nat
    BY FileAssumption
  <1> DEFINE A == Seq(ChunkRecord)
             step == [i \in 1..Chunks |-> [list \in A |->
                         IF i - 1 \in cached THEN list ELSE Append(list, Chunk(i - 1))]]
             Is(g) == g = [i \in 0..Chunks |->
                IF i = 0 THEN <<>>
                ELSE IF i - 1 \in cached THEN g[i - 1] ELSE Append(g[i - 1], Chunk(i - 1))]
  <1>1. ASSUME NEW i \in 1..Chunks
        PROVE  i - 1 \in Index
    BY <1>0 DEF Index
  <1>2. \E g : Is(g)
    <2>1. step \in [1..Chunks -> [A -> A]]
      <3>1. ASSUME NEW i \in 1..Chunks, NEW list \in A
            PROVE  Append(list, Chunk(i - 1)) \in A
        BY <1>1, ChunkIs, OneMore
      <3> HIDE DEF A
      <3> QED
        BY <3>1
    <2>2. <<>> \in A
      OBVIOUS
    <2> HIDE DEF A, step
    <2>3. PICK g \in [0..Chunks -> A] : Runs(g, <<>>, step, Chunks)
      BY <1>0, <2>1, <2>2, Recursion
    <2>4. ASSUME NEW i \in 1..Chunks
          PROVE  step[i][g[i - 1]] =
                    IF i - 1 \in cached THEN g[i - 1] ELSE Append(g[i - 1], Chunk(i - 1))
      <3>1. i - 1 \in 0..Chunks
        BY <1>0
      <3>2. g[i - 1] \in A
        BY <3>1
      <3> QED
        BY <3>2 DEF step
    <2>5. \A i \in 0..Chunks : i # 0 => i \in 1..Chunks
      BY <1>0
    <2>6. g = [i \in 0..Chunks |-> IF i = 0 THEN <<>> ELSE step[i][g[i - 1]]]
      BY <2>3 DEF Runs
    <2>7. [i \in 0..Chunks |-> IF i = 0 THEN <<>> ELSE step[i][g[i - 1]]]
          = [i \in 0..Chunks |->
                IF i = 0 THEN <<>>
                ELSE IF i - 1 \in cached THEN g[i - 1] ELSE Append(g[i - 1], Chunk(i - 1))]
      BY <2>4, <2>5
    <2>8. Is(g)
      BY <2>6, <2>7
    <2> HIDE DEF Is
    <2> QED
      BY <2>8
  <1>3. Is(NewChunks)
    <2>1. NewChunks = CHOOSE g : Is(g)
      BY DEF NewChunks
    <2> HIDE DEF Is
    <2> QED
      BY <1>2, <2>1
  <1>4. \A i \in 0..Chunks : NewChunks[i] =
           IF i = 0 THEN <<>>
           ELSE IF i - 1 \in cached THEN NewChunks[i - 1] ELSE Append(NewChunks[i - 1], Chunk(i - 1))
    BY <1>3
  <1> HIDE DEF Is, step
  <1> DEFINE T == {i \in 0..Chunks :
                      /\ NewChunks[i] \in A
                      /\ Members(NewChunks[i]) = {Chunk(j) : j \in 0..i - 1 \ cached}}
  <1>5. 0 \in T
    <2>1. NewChunks[0] = <<>>
      BY <1>0, <1>4
    <2>2. Members(<<>>) = {} /\ {Chunk(j) : j \in 0..0 - 1 \ cached} = {}
      BY DEF Members
    <2>3. <<>> \in A
      OBVIOUS
    <2> HIDE DEF A
    <2> QED
      BY <1>0, <2>1, <2>2, <2>3
  <1>6. ASSUME NEW i \in 1..Chunks, i - 1 \in T
        PROVE  i \in T
    <2>1. i \in 0..Chunks /\ i # 0 /\ i - 1 \in Index
      BY <1>0, <1>1
    <2>2. NewChunks[i - 1] \in A
          /\ Members(NewChunks[i - 1]) = {Chunk(j) : j \in 0..i - 1 - 1 \ cached}
      BY <1>6
    <2>3. CASE i - 1 \in cached
      <3>1. NewChunks[i] = NewChunks[i - 1]
        BY <1>4, <2>1, <2>3
      <3>2. 0..i - 1 - 1 \ cached = 0..i - 1 \ cached
        BY <2>1, <2>3
      <3> QED
        BY <2>1, <2>2, <3>1, <3>2
    <2>4. CASE i - 1 \notin cached
      <3>1. NewChunks[i] = Append(NewChunks[i - 1], Chunk(i - 1))
        BY <1>4, <2>1, <2>4
      <3>2. 0..i - 1 \ cached = (0..i - 1 - 1 \ cached) \union {i - 1}
        BY <2>1, <2>4
      <3>3. {Chunk(j) : j \in 0..i - 1 \ cached}
            = {Chunk(j) : j \in 0..i - 1 - 1 \ cached} \union {Chunk(i - 1)}
        BY <3>2
      <3>4. Chunk(i - 1) \in ChunkRecord
        BY <2>1, ChunkIs
      <3>5. NewChunks[i] \in A /\ Members(NewChunks[i])
                                 = Members(NewChunks[i - 1]) \union {Chunk(i - 1)}
        BY <2>2, <3>1, <3>4, OneMore
      <3> QED
        BY <2>1, <2>2, <3>3, <3>5
    <2> QED
      BY <2>3, <2>4
  <1> HIDE DEF T
  <1>7. Chunks \in T
    <2>1. \A i \in 0..Chunks : i \in T
      BY <1>0, <1>5, <1>6, Upwards
    <2> QED
      BY <1>0, <2>1
  <1> QED
    BY <1>7 DEF T, Index

LEMMA FirstAndRest ==
    ASSUME NEW R, NEW list \in Seq(R), list # <<>>
    PROVE  /\ Head(list) \in R /\ Tail(list) \in Seq(R)
           /\ Members(list) = {Head(list)} \union Members(Tail(list))
  <1> DEFINE t == Tail(list)
             n == Len(list)
  <1>1. /\ Head(list) \in R /\ t \in Seq(R) /\ Len(t) = n - 1 /\ Head(list) = list[1]
        /\ \A i \in 1..Len(t) : t[i] = list[i + 1]
    BY HeadTailProperties
  <1>2. n \in Nat \ {0} /\ DOMAIN list = 1..n /\ DOMAIN t = 1..n - 1
    BY <1>1, ListIs, EmptySeq
  <1> HIDE DEF t, n
  <1>3. Members(t) \subseteq Members(list) /\ Head(list) \in Members(list)
    BY <1>1, <1>2 DEF Members
  <1>4. ASSUME NEW i \in 1..n, i # 1
        PROVE  list[i] \in Members(t)
    <2>1. i - 1 \in 1..n - 1 /\ i - 1 + 1 = i
      BY <1>2, <1>4
    <2>2. t[i - 1] = list[i]
      BY <1>1, <1>2, <2>1
    <2> QED
      BY <1>2, <2>1, <2>2 DEF Members
  <1>5. Members(list) \subseteq {Head(list)} \union Members(t)
    BY <1>1, <1>2, <1>4 DEF Members
  <1> QED
    BY <1>1, <1>3, <1>5 DEF t

\* What is merged are the chunks that were embedded and the cached ones, all of them.
LEMMA MergedIs ==
    ASSUME cached \subseteq Index, done \in Seq(ChunkVector)
    PROVE  /\ Merged \in Seq(ChunkVector)
           /\ Members(Merged) = Members(done) \union {CachedOf(i) : i \in cached}
  <1>0. Chunks \in Nat
    BY FileAssumption
  <1> DEFINE R == Seq(ChunkVector)
             A == [list : R, left : R]
             base == [list |-> <<>>, left |-> done]
             MergeAt(i, so) ==
                 IF i - 1 \in cached THEN [so EXCEPT !.list = Append(@, CachedOf(i - 1))]
                 ELSE IF so.left = <<>> THEN so
                 ELSE [list |-> Append(so.list, Head(so.left)), left |-> Tail(so.left)]
             step == [i \in 1..Chunks |-> [so \in A |-> MergeAt(i, so)]]
             Is(g) == g = [i \in 0..Chunks |-> IF i = 0 THEN base ELSE MergeAt(i, g[i - 1])]
             All(so) == Members(so.list) \union Members(so.left)
  <1>1. ASSUME NEW i \in 1..Chunks, NEW so \in A
        PROVE  /\ MergeAt(i, so) \in A
               /\ All(MergeAt(i, so)) =
                     All(so) \union (IF i - 1 \in cached THEN {CachedOf(i - 1)} ELSE {})
    <2>1. so.list \in R /\ so.left \in R
      OBVIOUS
    <2>2. CASE i - 1 \in cached
      <3>1. CachedOf(i - 1) \in ChunkVector
        <4>1. Chunk(i - 1) \in ChunkRecord
          BY <2>2, ChunkIs
        <4> QED
          BY <4>1 DEF CachedOf, ChunkVector, ChunkRecord
      <3>2. MergeAt(i, so) = [list |-> Append(so.list, CachedOf(i - 1)), left |-> so.left]
        BY <2>2
      <3>3. Append(so.list, CachedOf(i - 1)) \in R
            /\ Members(Append(so.list, CachedOf(i - 1))) = Members(so.list) \union {CachedOf(i - 1)}
        BY <2>1, <3>1, OneMore
      <3> HIDE DEF MergeAt, R
      <3> QED
        BY <2>1, <2>2, <3>2, <3>3
    <2>3. CASE i - 1 \notin cached /\ so.left = <<>>
      <3>1. MergeAt(i, so) = so
        BY <2>3
      <3> HIDE DEF MergeAt, A
      <3> QED
        BY <2>3, <3>1
    <2>4. CASE i - 1 \notin cached /\ so.left # <<>>
      <3>1. MergeAt(i, so) = [list |-> Append(so.list, Head(so.left)), left |-> Tail(so.left)]
        BY <2>4
      <3>2. Head(so.left) \in ChunkVector /\ Tail(so.left) \in R
            /\ Members(so.left) = {Head(so.left)} \union Members(Tail(so.left))
        BY <2>1, <2>4, FirstAndRest
      <3>3. Append(so.list, Head(so.left)) \in R
            /\ Members(Append(so.list, Head(so.left))) = Members(so.list) \union {Head(so.left)}
        BY <2>1, <3>2, OneMore
      <3> HIDE DEF MergeAt, R
      <3> QED
        BY <2>4, <3>1, <3>2, <3>3
    <2> QED
      BY <2>2, <2>3, <2>4
  <1>2. base \in A
    BY EmptySeq
  <1> HIDE DEF A
  <1>3. \E g : Is(g)
    <2>1. step \in [1..Chunks -> [A -> A]]
      BY <1>1
    <2> HIDE DEF step, MergeAt, base
    <2>2. PICK g \in [0..Chunks -> A] : Runs(g, base, step, Chunks)
      BY <1>0, <1>2, <2>1, Recursion
    <2>3. ASSUME NEW i \in 1..Chunks
          PROVE  step[i][g[i - 1]] = MergeAt(i, g[i - 1])
      <3>1. i - 1 \in 0..Chunks
        BY <1>0
      <3>2. g[i - 1] \in A
        BY <3>1
      <3> QED
        BY <3>2 DEF step
    <2>4. \A i \in 0..Chunks : i # 0 => i \in 1..Chunks
      BY <1>0
    <2>5. g = [i \in 0..Chunks |-> IF i = 0 THEN base ELSE step[i][g[i - 1]]]
      BY <2>2 DEF Runs
    <2>6. [i \in 0..Chunks |-> IF i = 0 THEN base ELSE step[i][g[i - 1]]]
          = [i \in 0..Chunks |-> IF i = 0 THEN base ELSE MergeAt(i, g[i - 1])]
      BY <2>3, <2>4
    <2>7. Is(g)
      BY <2>5, <2>6
    <2> HIDE DEF Is
    <2> QED
      BY <2>7
  <1>4. Is(Merging)
    <2>1. Merging = CHOOSE g : Is(g)
      BY DEF Merging
    <2> HIDE DEF Is
    <2> QED
      BY <1>3, <2>1
  <1> HIDE DEF MergeAt, base
  <1>5. \A i \in 0..Chunks : Merging[i] = IF i = 0 THEN base ELSE MergeAt(i, Merging[i - 1])
    BY <1>4
  <1> HIDE DEF Is, step
  <1> DEFINE T == {i \in 0..Chunks :
                      /\ Merging[i] \in A
                      /\ All(Merging[i]) = Members(done) \union {CachedOf(j) : j \in 0..i - 1 \intersect cached}}
  <1>6. 0 \in T
    <2>1. Merging[0] = base
      BY <1>0, <1>5
    <2>2. Members(<<>>) = {} /\ {CachedOf(j) : j \in 0..0 - 1 \intersect cached} = {}
      BY DEF Members
    <2>3. All(base) = Members(done)
      BY <2>2 DEF base
    <2> HIDE DEF All
    <2> QED
      BY <1>0, <1>2, <2>1, <2>2, <2>3
  <1> HIDE DEF All
  <1>7. ASSUME NEW i \in 1..Chunks, i - 1 \in T
        PROVE  i \in T
    <2>1. i \in 0..Chunks /\ i # 0
      BY <1>0
    <2>2. Merging[i - 1] \in A
          /\ All(Merging[i - 1]) =
                Members(done) \union {CachedOf(j) : j \in 0..i - 1 - 1 \intersect cached}
      BY <1>7
    <2>3. Merging[i] = MergeAt(i, Merging[i - 1])
      BY <1>5, <2>1
    <2>4. 0..i - 1 \intersect cached = (0..i - 1 - 1 \intersect cached)
             \union (IF i - 1 \in cached THEN {i - 1} ELSE {})
      BY <2>1
    <2>5. {CachedOf(j) : j \in 0..i - 1 \intersect cached}
          = {CachedOf(j) : j \in 0..i - 1 - 1 \intersect cached}
               \union (IF i - 1 \in cached THEN {CachedOf(i - 1)} ELSE {})
      BY <2>4
    <2> QED
      BY <1>1, <2>1, <2>2, <2>3, <2>5
  <1> HIDE DEF T
  <1>8. Chunks \in T
    <2>1. \A i \in 0..Chunks : i \in T
      BY <1>0, <1>6, <1>7, Upwards
    <2> QED
      BY <1>0, <2>1
  <1>9. 0..Chunks - 1 \intersect cached = cached
    BY DEF Index
  <1>10. Merging[Chunks].list \in R /\ Merging[Chunks].left \in R
         /\ Members(Merging[Chunks].list) \union Members(Merging[Chunks].left)
               = Members(done) \union {CachedOf(j) : j \in cached}
    BY <1>8, <1>9 DEF T, A, All
  <1> QED
    BY <1>10, Joined DEF Merged

LEMMA CutInThree ==
    ASSUME NEW R, NEW list \in Seq(R), NEW f \in 1..Len(list)
    PROVE  /\ SubSeq(list, 1, f - 1) \in Seq(R) /\ SubSeq(list, f + 1, Len(list)) \in Seq(R)
           /\ list[f] \in R
           /\ Members(list) = Members(SubSeq(list, 1, f - 1)) \union {list[f]}
                                 \union Members(SubSeq(list, f + 1, Len(list)))
  <1> DEFINE n == Len(list)
             a == SubSeq(list, 1, f - 1)
             b == SubSeq(list, f + 1, n)
  <1>1. n \in Nat /\ DOMAIN list = 1..n /\ list[f] \in R
    BY ListIs
  <1>2. 1 \in 1..n + 1 /\ f - 1 \in 1 - 1..n /\ f + 1 \in 1..n + 1 /\ n \in f + 1 - 1..n
    BY <1>1
  <1>3. a \in Seq(R) /\ Len(a) = f - 1 - 1 + 1 /\ \A i \in 1..f - 1 - 1 + 1 : a[i] = list[1 + i - 1]
    BY <1>2, SubSeqProperties
  <1>4. b \in Seq(R) /\ Len(b) = n - (f + 1) + 1
        /\ \A i \in 1..n - (f + 1) + 1 : b[i] = list[f + 1 + i - 1]
    BY <1>2, SubSeqProperties
  <1>5. DOMAIN a = 1..f - 1 /\ DOMAIN b = 1..n - f
    <2>1. DOMAIN a = 1..Len(a) /\ DOMAIN b = 1..Len(b)
      BY <1>3, <1>4, ListIs
    <2> HIDE DEF a, b, n
    <2> QED
      BY <1>1, <1>3, <1>4, <2>1
  <1> HIDE DEF a, b, n
  <1>6. (\A i \in 1..f - 1 : a[i] = list[i]) /\ (\A i \in 1..n - f : b[i] = list[f + i])
    <2>1. ASSUME NEW i \in 1..f - 1
          PROVE  a[i] = list[i]
      BY <1>1, <1>3
    <2>2. ASSUME NEW i \in 1..n - f
          PROVE  b[i] = list[f + i]
      <3>1. i \in 1..n - (f + 1) + 1 /\ f + 1 + i - 1 = f + i
        BY <1>1, <1>2
      <3> QED
        BY <1>4, <3>1
    <2> QED
      BY <2>1, <2>2
  <1>7. ASSUME NEW i \in 1..n
        PROVE  list[i] \in Members(a) \union {list[f]} \union Members(b)
    <2>1. CASE i < f
      <3>1. i \in 1..f - 1
        BY <1>1, <1>2, <2>1
      <3> QED
        BY <1>5, <1>6, <3>1 DEF Members
    <2>2. CASE i > f
      <3>1. i - f \in 1..n - f /\ f + (i - f) = i
        BY <1>1, <1>2, <2>2
      <3>2. b[i - f] = list[i]
        BY <1>6, <3>1
      <3> QED
        BY <1>5, <3>1, <3>2 DEF Members
    <2> QED
      BY <1>1, <1>2, <2>1, <2>2
  <1>8. (\A i \in 1..n - f : f + i \in 1..n) /\ (\A i \in 1..f - 1 : i \in 1..n)
    BY <1>1, <1>2
  <1>9. Members(a) \subseteq Members(list) /\ Members(b) \subseteq Members(list)
    <2>1. Members(a) \subseteq Members(list)
      BY <1>1, <1>5, <1>6, <1>8 DEF Members
    <2>2. Members(b) \subseteq Members(list)
      BY <1>1, <1>5, <1>6, <1>8 DEF Members
    <2> QED
      BY <2>1, <2>2
  <1>10. Members(list) = Members(a) \union {list[f]} \union Members(b)
    BY <1>1, <1>2, <1>7, <1>9 DEF Members
  <1> QED
    BY <1>1, <1>3, <1>4, <1>10 DEF a, b, n

OwnVectors(all) == \A d \in all : d.vector = d.chunk.text

LEMMA EmbeddedIs ==
    ASSUME NEW list \in Seq(ChunkRecord)
    PROVE  /\ Embedded(list) \in Seq(ChunkVector) /\ OwnVectors(Members(Embedded(list)))
           /\ {d.chunk : d \in Members(Embedded(list))} = Members(list)
  <1> DEFINE e == Embedded(list)
  <1>1. Len(list) \in Nat /\ DOMAIN list = 1..Len(list) /\ \A i \in 1..Len(list) : list[i] \in ChunkRecord
    BY ListIs
  <1>2. ASSUME NEW i \in 1..Len(list)
        PROVE  e[i] = [chunk |-> list[i], vector |-> list[i].text] /\ e[i] \in ChunkVector
    BY <1>1 DEF Embedded, ChunkVector, ChunkRecord
  <1>3. e = [i \in 1..Len(list) |-> e[i]]
    BY <1>1 DEF Embedded
  <1> HIDE DEF e
  <1>4. e \in [1..Len(list) -> ChunkVector] /\ DOMAIN e = 1..Len(list)
    BY <1>2, <1>3
  <1>5. e \in Seq(ChunkVector)
    BY <1>1, <1>4
  <1>6. OwnVectors(Members(e))
    BY <1>2, <1>4 DEF OwnVectors, Members
  <1>7. {d.chunk : d \in Members(e)} = Members(list)
    BY <1>1, <1>2, <1>4 DEF Members
  <1> QED
    BY <1>5, <1>6, <1>7 DEF e

LEMMA ReChunkIs ==
    ASSUME NEW c \in ChunkRecord, NEW place \in Nat
    PROVE  /\ ReChunk(c, place) \in Seq(ChunkRecord)
           /\ \A u \in Nat : Holds(c.text, u) =>
                 \E x \in Members(ReChunk(c, place)) : Holds(x.text, u)
           /\ \A x \in Members(ReChunk(c, place)) : Len(x.id) = 2
  <1> DEFINE n == Length(c.text)
             s == ReChunk(c, place)
             at(k) == [id |-> <<place, k - 1>>, text |-> <<c.text[1] + k - 1, c.text[1] + k - 1>>]
  <1>1. c.text[1] \in Nat /\ c.text[2] \in Nat
    BY DEF ChunkRecord, TextPlace
  <1>2. n \in Int /\ n = c.text[2] - c.text[1] + 1
    BY <1>1 DEF Length
  <1>3. s = [k \in 1..n |-> at(k)]
    BY DEF ReChunk
  <1> HIDE DEF n, s
  <1>4. ASSUME NEW k \in 1..n
        PROVE  at(k) \in ChunkRecord
    <2>1. k - 1 \in Nat /\ c.text[1] + k - 1 \in Nat
      BY <1>1, <1>2
    <2>2. <<place, k - 1>> \in Seq(Nat)
      BY <2>1
    <2> QED
      BY <2>1, <2>2 DEF ChunkRecord, TextPlace
  <1>5. s \in Seq(ChunkRecord)
    <2>1. s \in [1..n -> ChunkRecord]
      <3> HIDE DEF at
      <3> QED
        BY <1>3, <1>4
    <2> DEFINE m == IF n \in Nat THEN n ELSE 0
    <2>2. m \in Nat /\ 1..n = 1..m
      BY <1>2
    <2> HIDE DEF m
    <2>3. s \in [1..m -> ChunkRecord]
      BY <2>1, <2>2
    <2> QED
      BY <2>2, <2>3
  <1>6. ASSUME NEW u \in Nat, Holds(c.text, u)
        PROVE  \E x \in Members(s) : Holds(x.text, u)
    <2> DEFINE k == u - c.text[1] + 1
    <2>1. k \in 1..n /\ c.text[1] + k - 1 = u
      BY <1>1, <1>2, <1>6 DEF Holds
    <2> HIDE DEF k
    <2>2. s[k] = at(k) /\ k \in DOMAIN s
      BY <1>3, <2>1
    <2>3. at(k).text[1] = u /\ at(k).text[2] = u
      BY <2>1
    <2>4. s[k] \in Members(s)
      BY <2>2 DEF Members
    <2> QED
      BY <2>2, <2>3, <2>4 DEF Holds
  <1>7. ASSUME NEW k \in 1..n
        PROVE  Len(s[k].id) = 2
    BY <1>3
  <1> QED
    BY <1>3, <1>5, <1>6, <1>7 DEF s, Members

----------------------------------------------------------------------------
\* Whatever was cached and however often a text was cut, each unit of the file is
\* in a chunk that is cached, embedded or still to embed; and what is embedded has
\* the vector of its own text.
Texts ==
    {Chunk(i).text : i \in cached} \union {c.text : c \in Members(current)}
        \union {d.chunk.text : d \in Members(done)}

\* An id is one number, of a chunk that was not split, or two, of a sub-chunk.
Whole(c) == (Len(c.id) = 1 /\ c = Chunk(c.id[1])) \/ Len(c.id) = 2
AllWhole(S) == \A c \in S : Whole(c)

EmbedInv ==
    /\ cached \subseteq Index /\ provider \in Providers
    /\ current \in Seq(ChunkRecord) /\ done \in Seq(ChunkVector)
    /\ OwnVectors(Members(done))
    /\ AllWhole(Members(current)) /\ AllWhole({d.chunk : d \in Members(done)})
    /\ progress = "idle" => done = <<>>
    /\ progress = "embedding" => Covers(Texts)
    /\ MergeKeepsTexts

LEMMA InitEmbedInv == EmbedInit => EmbedInv
  <1> SUFFICES ASSUME EmbedInit PROVE EmbedInv
    OBVIOUS
  <1>1. cached \subseteq Index /\ provider \in Providers /\ progress = "idle"
        /\ current = <<>> /\ done = <<>>
    BY DEF EmbedInit
  <1>2. <<>> \in Seq(ChunkRecord) /\ <<>> \in Seq(ChunkVector)
    OBVIOUS
  <1>3. OwnVectors(Members(<<>>)) /\ AllWhole(Members(<<>>))
        /\ AllWhole({d.chunk : d \in Members(<<>>)})
    BY DEF OwnVectors, Members, AllWhole
  <1> QED
    BY <1>1, <1>2, <1>3 DEF EmbedInv, MergeKeepsTexts

\* A text that is found in a text of some set is found in those of a larger one.
LEMMA CoversMore ==
    ASSUME NEW S, NEW R, Covers(S),
           \A u \in 0..Chunks * Pieces - 1, t \in S : Holds(t, u) => \E r \in R : Holds(r, u)
    PROVE  Covers(R)
  BY DEF Covers, Holds

LEMMA BeginsFile ==
    ASSUME EmbedInv, BeginFile
    PROVE  EmbedInv'
  <1>1. /\ progress = "idle" /\ progress' = "embedding" /\ current' = NewChunks[Chunks]
        /\ UNCHANGED <<provider, cached, done>>
    BY DEF BeginFile
  <1>2. /\ cached \subseteq Index /\ provider \in Providers /\ done \in Seq(ChunkVector)
        /\ OwnVectors(Members(done)) /\ done = <<>> /\ AllWhole({d.chunk : d \in Members(done)})
    BY <1>1 DEF EmbedInv
  <1>3. current' \in Seq(ChunkRecord) /\ Members(current') = {Chunk(i) : i \in Index \ cached}
    BY <1>1, <1>2, NewChunksAre
  <1>7. AllWhole(Members(current'))
    <2>1. ASSUME NEW i \in Index
          PROVE  Whole(Chunk(i))
      BY DEF Whole, Chunk
    <2> QED
      BY <1>3, <2>1 DEF AllWhole
  <1>8. AllWhole({d.chunk : d \in Members(done')})
    BY <1>1, <1>2
  <1>4. Covers(Texts')
    <2>1. ASSUME NEW u \in 0..Chunks * Pieces - 1
          PROVE  \E t \in Texts' : Holds(t, u)
      <3>1. PICK i \in Index : Holds(Chunk(i).text, u)
        BY UnitInChunk
      <3>2. Texts' = {Chunk(j).text : j \in cached'} \union {c.text : c \in Members(current')}
                        \union {d.chunk.text : d \in Members(done')}
        BY DEF Texts, Chunk
      <3>3. Chunk(i).text \in Texts'
        BY <1>1, <1>3, <3>2
      <3> QED
        BY <3>1, <3>3
    <2> QED
      BY <2>1 DEF Covers, Holds
  <1>5. MergeKeepsTexts'
    BY <1>1 DEF MergeKeepsTexts
  <1>6. UNCHANGED Index
    BY DEF Index
  <1> QED
    BY <1>1, <1>2, <1>3, <1>4, <1>5, <1>6, <1>7, <1>8 DEF EmbedInv

LEMMA EmbedsAll ==
    ASSUME EmbedInv, EmbedFits
    PROVE  EmbedInv'
  <1>1. /\ progress = "embedding" /\ done' = done \o Embedded(current) /\ current' = <<>>
        /\ UNCHANGED <<progress, provider, cached>>
    BY DEF EmbedFits
  <1>2. /\ cached \subseteq Index /\ provider \in Providers /\ done \in Seq(ChunkVector)
        /\ current \in Seq(ChunkRecord) /\ OwnVectors(Members(done)) /\ Covers(Texts)
        /\ AllWhole(Members(current)) /\ AllWhole({d.chunk : d \in Members(done)})
    BY <1>1 DEF EmbedInv
  <1>3. /\ Embedded(current) \in Seq(ChunkVector) /\ OwnVectors(Members(Embedded(current)))
        /\ {d.chunk : d \in Members(Embedded(current))} = Members(current)
    BY <1>2, EmbeddedIs
  <1>4. done' \in Seq(ChunkVector)
        /\ Members(done') = Members(done) \union Members(Embedded(current))
    BY <1>1, <1>2, <1>3, Joined
  <1>5. OwnVectors(Members(done'))
    BY <1>2, <1>3, <1>4 DEF OwnVectors
  <1>6. current' \in Seq(ChunkRecord)
    BY <1>1
  <1>7. Texts \subseteq Texts'
    <2>1. Texts' = {Chunk(j).text : j \in cached'} \union {c.text : c \in Members(current')}
                      \union {d.chunk.text : d \in Members(done')}
      BY DEF Texts, Chunk
    <2>2. ASSUME NEW c \in Members(current)
          PROVE  c.text \in Texts'
      <3>1. PICK d \in Members(Embedded(current)) : c = d.chunk
        BY <1>3
      <3> QED
        BY <1>4, <2>1, <3>1
    <2> QED
      BY <1>1, <1>4, <2>1, <2>2 DEF Texts
  <1>8. Covers(Texts')
    BY <1>2, <1>7, CoversMore
  <1>9. MergeKeepsTexts'
    BY <1>1 DEF MergeKeepsTexts
  <1>10. UNCHANGED Index
    BY DEF Index
  <1>11. AllWhole(Members(current'))
    BY <1>1 DEF AllWhole, Members
  <1>12. AllWhole({d.chunk : d \in Members(done')})
    <2>1. {d.chunk : d \in Members(done')}
             = {d.chunk : d \in Members(done)} \union {d.chunk : d \in Members(Embedded(current))}
      BY <1>4
    <2> QED
      BY <1>2, <1>3, <2>1 DEF AllWhole
  <1> QED
    BY <1>1, <1>2, <1>4, <1>5, <1>6, <1>8, <1>9, <1>10, <1>11, <1>12 DEF EmbedInv

\* The chunk an error names is one of those that were sent.
LEMMA FailedIs ==
    ASSUME current \in Seq(ChunkRecord), ~AllFit
    PROVE  FailedIndex \in 1..Len(current)
  <1>1. Len(current) \in Nat /\ DOMAIN current = 1..Len(current)
    BY ListIs
  <1> DEFINE long == {k \in 1..Len(current) : TooLong(current[k])}
  <1>2. long \in SUBSET Nat /\ long # {}
    BY <1>1 DEF AllFit
  <1>3. PICK k \in long : \A j \in long : k <= j
    <2> HIDE DEF long
    <2> QED
      BY <1>2, Smallest
  <1>4. k \in 1..Len(current) /\ TooLong(current[k]) /\ \A j \in 1..k - 1 : ~TooLong(current[j])
    <2>1. \A j \in 1..k - 1 : j \in 1..Len(current) /\ ~ (k <= j)
      BY <1>1
    <2> QED
      BY <1>3, <2>1
  <1>5. 1 \in 1..Len(current)
    BY <1>1, <1>4
  <1> HIDE DEF long
  <1>6. CASE provider = "lmstudio"
    BY <1>5, <1>6 DEF FailedIndex
  <1>7. CASE provider # "lmstudio"
    <2> DEFINE First(j) == TooLong(current[j]) /\ \A i \in 1..j - 1 : ~TooLong(current[i])
    <2>1. FailedIndex = CHOOSE j \in DOMAIN current : First(j)
      BY <1>7 DEF FailedIndex
    <2>2. k \in DOMAIN current /\ First(k)
      BY <1>1, <1>4
    <2> HIDE DEF First
    <2> QED
      BY <1>1, <2>1, <2>2
  <1> QED
    BY <1>6, <1>7

LEMMA Splits ==
    ASSUME EmbedInv, EmbedOverflows
    PROVE  EmbedInv'
  <1> DEFINE failed == FailedIndex
             before == SubSeq(current, 1, failed - 1)
             after == SubSeq(current, failed + 1, Len(current))
             parts == ReChunk(current[failed], failed - 1)
  <1>1. /\ progress = "embedding" /\ done' = done \o Embedded(before) /\ current' = parts \o after
        /\ UNCHANGED <<progress, provider, cached>> /\ ~AllFit
    BY DEF EmbedOverflows
  <1>2. /\ cached \subseteq Index /\ provider \in Providers /\ done \in Seq(ChunkVector)
        /\ current \in Seq(ChunkRecord) /\ OwnVectors(Members(done)) /\ Covers(Texts)
        /\ AllWhole(Members(current)) /\ AllWhole({d.chunk : d \in Members(done)})
    BY <1>1 DEF EmbedInv
  <1>3. failed \in 1..Len(current) /\ Len(current) \in Nat
    BY <1>1, <1>2, FailedIs, ListIs
  <1> HIDE DEF failed
  <1>4. /\ before \in Seq(ChunkRecord) /\ after \in Seq(ChunkRecord)
        /\ current[failed] \in ChunkRecord
        /\ Members(current) = Members(before) \union {current[failed]} \union Members(after)
    BY <1>2, <1>3, CutInThree
  <1>5. /\ parts \in Seq(ChunkRecord)
        /\ \A u \in Nat : Holds(current[failed].text, u) => \E x \in Members(parts) : Holds(x.text, u)
        /\ \A x \in Members(parts) : Len(x.id) = 2
    <2>1. failed - 1 \in Nat
      BY <1>3
    <2> QED
      BY <1>4, <2>1, ReChunkIs
  <1> HIDE DEF before, after, parts
  <1>6. /\ Embedded(before) \in Seq(ChunkVector) /\ OwnVectors(Members(Embedded(before)))
        /\ {d.chunk : d \in Members(Embedded(before))} = Members(before)
    BY <1>4, EmbeddedIs
  <1>7. done' \in Seq(ChunkVector)
        /\ Members(done') = Members(done) \union Members(Embedded(before))
    BY <1>1, <1>2, <1>6, Joined
  <1>8. current' \in Seq(ChunkRecord) /\ Members(current') = Members(parts) \union Members(after)
    BY <1>1, <1>4, <1>5, Joined
  <1>9. OwnVectors(Members(done'))
    BY <1>2, <1>6, <1>7 DEF OwnVectors
  <1>10. Texts' = {Chunk(j).text : j \in cached'} \union {c.text : c \in Members(current')}
                     \union {d.chunk.text : d \in Members(done')}
    BY DEF Texts, Chunk
  <1>11. ASSUME NEW c \in Members(before) \union Members(after)
         PROVE  c.text \in Texts'
    <2>1. CASE c \in Members(before)
      <3>1. PICK d \in Members(Embedded(before)) : c = d.chunk
        BY <1>6, <2>1
      <3> QED
        BY <1>7, <1>10, <3>1
    <2>2. CASE c \in Members(after)
      BY <1>8, <1>10, <2>2
    <2> QED
      BY <2>1, <2>2
  <1>12. Covers(Texts')
    <2>1. ASSUME NEW u \in 0..Chunks * Pieces - 1, NEW t \in Texts, Holds(t, u)
          PROVE  \E r \in Texts' : Holds(r, u)
      <3>1. CASE t = current[failed].text
        <4>1. u \in Nat
          OBVIOUS
        <4>2. PICK x \in Members(parts) : Holds(x.text, u)
          BY <1>5, <2>1, <3>1, <4>1
        <4> QED
          BY <1>8, <1>10, <4>2
      <3>2. CASE t \in {c.text : c \in Members(before) \union Members(after)}
        BY <1>11, <2>1, <3>2
      <3>3. CASE t \in {Chunk(i).text : i \in cached} \union {d.chunk.text : d \in Members(done)}
        BY <1>1, <1>7, <1>10, <2>1, <3>3
      <3> QED
        BY <1>4, <3>1, <3>2, <3>3 DEF Texts
    <2> QED
      BY <1>2, <2>1, CoversMore
  <1>13. MergeKeepsTexts'
    BY <1>1 DEF MergeKeepsTexts
  <1>14. UNCHANGED Index
    BY DEF Index
  <1>15. AllWhole(Members(parts)) /\ AllWhole(Members(before)) /\ AllWhole(Members(after))
    BY <1>2, <1>4, <1>5 DEF AllWhole, Whole
  <1>16. AllWhole(Members(current'))
    BY <1>8, <1>15 DEF AllWhole
  <1>17. AllWhole({d.chunk : d \in Members(done')})
    <2>1. {d.chunk : d \in Members(done')}
             = {d.chunk : d \in Members(done)} \union {d.chunk : d \in Members(Embedded(before))}
      BY <1>7
    <2> QED
      BY <1>2, <1>6, <1>15, <2>1 DEF AllWhole
  <1> QED
    BY <1>1, <1>2, <1>7, <1>8, <1>9, <1>12, <1>13, <1>14, <1>16, <1>17 DEF EmbedInv

LEMMA SavesMerged ==
    ASSUME EmbedInv, SaveFile
    PROVE  MergeKeepsTexts'
  <1>1. /\ progress = "embedding" /\ current = <<>> /\ UNCHANGED <<cached, done>>
    BY DEF SaveFile
  <1>2. /\ cached \subseteq Index /\ done \in Seq(ChunkVector) /\ current \in Seq(ChunkRecord)
        /\ OwnVectors(Members(done)) /\ Covers(Texts)
        /\ AllWhole({d.chunk : d \in Members(done)})
    BY <1>1 DEF EmbedInv
  <1> DEFINE M == Merged
             n == Len(M)
             Last(id, k) == M[k].chunk.id = id /\ \A j \in k + 1..n : M[j].chunk.id # id
             LastOf(id) == CHOOSE k \in DOMAIN M : Last(id, k)
             ids == {M[k].chunk.id : k \in DOMAIN M}
  <1>3. M \in Seq(ChunkVector) /\ Members(M) = Members(done) \union {CachedOf(i) : i \in cached}
    BY <1>2, MergedIs
  <1>4. n \in Nat /\ DOMAIN M = 1..n
    BY <1>3, ListIs
  <1>5. stored' = [id \in ids |-> [text |-> M[LastOf(id)].chunk.text, vector |-> M[LastOf(id)].vector]]
    BY DEF SaveFile
  <1>6. UNCHANGED Merged
    BY <1>1 DEF Merged, Merging, CachedOf, Chunk
  <1>7. OwnVectors(Members(M))
    BY <1>2, <1>3 DEF OwnVectors, CachedOf
  <1> HIDE DEF M, n
  <1>8. ASSUME NEW id \in ids
        PROVE  Last(id, LastOf(id)) /\ LastOf(id) \in DOMAIN M
    <2> DEFINE those == {k \in 1..n : M[k].chunk.id = id}
    <2>1. those \in SUBSET Nat /\ those # {} /\ \A k \in those : k <= n
      BY <1>4
    <2> HIDE DEF those
    <2>2. PICK k \in those : \A j \in those : j <= k
      BY <1>4, <2>1, Largest
    <2>3. k \in 1..n /\ M[k].chunk.id = id
      BY <2>2 DEF those
    <2>4. \A j \in k + 1..n : M[j].chunk.id # id
      <3>1. \A j \in k + 1..n : j \in 1..n /\ ~ (j <= k)
        BY <1>4, <2>3
      <3> QED
        BY <2>2, <3>1 DEF those
    <2>5. Last(id, k)
      BY <2>3, <2>4
    <2> HIDE DEF Last
    <2> QED
      BY <1>4, <2>3, <2>5
  <1> HIDE DEF LastOf
  <1>11. \A k \in 1..n : Whole(M[k].chunk)
    <2>1. ASSUME NEW d \in Members(M)
          PROVE  Whole(d.chunk)
      <3>1. CASE d \in Members(done)
        BY <1>2, <3>1 DEF AllWhole
      <3>2. CASE d \in {CachedOf(i) : i \in cached}
        BY <3>2 DEF CachedOf, Chunk, Whole
      <3> QED
        BY <1>3, <3>1, <3>2
    <2> QED
      BY <1>4, <2>1 DEF Members
  <1>12. ASSUME NEW k \in 1..n
         PROVE  \/ M[k].chunk.text \in SavedTexts'
                \/ Len(M[k].chunk.id) = 2 /\ \E j \in k + 1..n : M[j].chunk.id = M[k].chunk.id
    <2> DEFINE id == M[k].chunk.id
               l == LastOf(id)
    <2>1. id \in ids /\ l \in 1..n /\ Last(id, l)
      BY <1>4, <1>8
    <2>2. M[l].chunk.text \in SavedTexts'
      BY <1>5, <2>1 DEF SavedTexts
    <2>3. M[l].chunk.id = id /\ (k = l \/ l \in k + 1..n)
      BY <1>4, <2>1
    <2>4. Whole(M[k].chunk) /\ Whole(M[l].chunk)
      BY <1>11, <2>1
    <2> HIDE DEF l
    <2>5. CASE k = l
      BY <2>2, <2>5
    <2>6. CASE l \in k + 1..n
      BY <2>2, <2>3, <2>4, <2>6 DEF Whole
    <2> QED
      BY <2>3, <2>5, <2>6
  <1>9. \A id \in DOMAIN stored' : stored'[id].vector = stored'[id].text
    <2>1. ASSUME NEW id \in ids
          PROVE  M[LastOf(id)].vector = M[LastOf(id)].chunk.text
      BY <1>7, <1>8 DEF OwnVectors, Members
    <2> QED
      BY <1>5, <2>1
  <1>13. Covers({d.chunk.text : d \in Members(M)})
    <2>2. Members(current) = {}
      BY <1>1 DEF Members
    <2>3. ASSUME NEW t \in Texts
          PROVE  t \in {d.chunk.text : d \in Members(M)}
      <3>1. CASE t \in {d.chunk.text : d \in Members(done)}
        BY <1>3, <3>1
      <3>2. CASE t \in {Chunk(i).text : i \in cached}
        <4>1. PICK i \in cached : t = Chunk(i).text
          BY <3>2
        <4>2. CachedOf(i) \in Members(M) /\ CachedOf(i).chunk = Chunk(i)
          BY <1>3 DEF CachedOf
        <4> QED
          BY <4>1, <4>2
      <3> QED
        BY <2>2, <3>1, <3>2 DEF Texts
    <2> QED
      BY <1>2, <2>3, CoversMore
  <1>10. ASSUME NEW d \in Members(M)
         PROVE  d.chunk.text \in SavedTexts' \union RenumberedTexts'
    <2>1. PICK k \in 1..n : d = M[k]
      BY <1>4 DEF Members
    <2>2. CASE Len(M[k].chunk.id) = 2 /\ \E j \in k + 1..n : M[j].chunk.id = M[k].chunk.id
      BY <1>4, <1>6, <2>1, <2>2 DEF RenumberedTexts, Renumbered, M, n
    <2> QED
      BY <1>12, <2>1, <2>2
  <1>14. Covers(SavedTexts' \union RenumberedTexts')
    BY <1>10, <1>13, CoversMore
  <1> QED
    BY <1>9, <1>14 DEF MergeKeepsTexts, Covers

LEMMA EmbedStep == EmbedInv /\ [EmbedNext]_indexVars => EmbedInv'
  <1> SUFFICES ASSUME EmbedInv, [EmbedNext]_indexVars PROVE EmbedInv'
    OBVIOUS
  <1>1. CASE BeginFile
    BY <1>1, BeginsFile
  <1>2. CASE EmbedFits
    BY <1>2, EmbedsAll
  <1>3. CASE EmbedOverflows
    BY <1>3, Splits
  <1>4. CASE EmbedFails
    <2>1. progress' = "failed" /\ UNCHANGED <<provider, cached, current, done>>
      BY <1>4 DEF EmbedFails
    <2> QED
      BY <2>1 DEF EmbedInv, MergeKeepsTexts, Index
  <1>5. CASE SaveFile
    <2>1. progress' = "saved" /\ UNCHANGED <<provider, cached, current, done>>
      BY <1>5 DEF SaveFile
    <2>2. MergeKeepsTexts'
      BY <1>5, SavesMerged
    <2> QED
      BY <2>1, <2>2 DEF EmbedInv, Index
  <1>6. CASE UNCHANGED indexVars
    <2>1. UNCHANGED <<progress, provider, cached, current, done, stored>>
      BY <1>6 DEF indexVars
    <2>2. UNCHANGED <<Merged, Texts>>
      BY <2>1 DEF Merged, Merging, CachedOf, Chunk, Texts
    <2>3. UNCHANGED <<SavedTexts, RenumberedTexts>>
      BY <2>1, <2>2 DEF SavedTexts, RenumberedTexts, Renumbered
    <2> QED
      BY <2>1, <2>2, <2>3 DEF EmbedInv, MergeKeepsTexts, Covers, Index
  <1> QED
    BY <1>1, <1>2, <1>3, <1>4, <1>5, <1>6 DEF EmbedNext

\* However much of a file the cache knew and whatever had to be split to be embedded,
\* what is saved pairs every chunk with the vector of its own text and leaves no part
\* of the file out, but for sub-chunks whose id a later split gave again (indexer.go,
\* embedWithReChunking, the merge of IndexFile and SaveChunks).
THEOREM MergeAlwaysKeepsTexts == EmbedSpec => []MergeKeepsTexts
  <1>1. EmbedInv => MergeKeepsTexts
    BY DEF EmbedInv
  <1> QED
    BY <1>1, InitEmbedInv, EmbedStep, PTL DEF EmbedSpec

(***************************************************************************)
(* The batches of a pass                                                   *)
(***************************************************************************)
TextKind == DOMAIN TokensOf
BatchEntry == [file : Scanned, chunk : Nat \ {0}, text : TextKind]
Builder == [ready : Seq(Seq(BatchEntry)), current : Seq(BatchEntry), tokens : Nat]

\* What the batches of a list hold.
Held(list) == UNION {Members(list[i]) : i \in DOMAIN list}
Sized(list) == \A i \in DOMAIN list : Len(list[i]) <= BatchSize

LEMMA HeldOneMore ==
    ASSUME NEW list \in Seq(Seq(BatchEntry)), NEW x \in Seq(BatchEntry)
    PROVE  /\ Append(list, x) \in Seq(Seq(BatchEntry))
           /\ Held(Append(list, x)) = Held(list) \union Members(x)
           /\ Sized(list) /\ Len(x) <= BatchSize => Sized(Append(list, x))
  <1> DEFINE more == Append(list, x)
             n == Len(list)
  <1>1. more \in Seq(Seq(BatchEntry)) /\ Len(more) = n + 1
        /\ (\A i \in 1..n : more[i] = list[i]) /\ more[n + 1] = x
    BY AppendProperties
  <1>2. n \in Nat /\ DOMAIN list = 1..n /\ DOMAIN more = 1..n + 1
    BY <1>1, ListIs
  <1> HIDE DEF more, n
  <1>3. \A i \in 1..n + 1 : (i \in 1..n /\ more[i] = list[i]) \/ more[i] = x
    <2>1. \A i \in 1..n + 1 : i \in 1..n \/ i = n + 1
      BY <1>2
    <2> QED
      BY <1>1, <2>1
  <1>4. Held(more) = Held(list) \union Members(x)
    <2>1. Held(list) \subseteq Held(more)
      BY <1>1, <1>2 DEF Held
    <2>2. Members(x) \subseteq Held(more)
      BY <1>1, <1>2 DEF Held
    <2>3. Held(more) \subseteq Held(list) \union Members(x)
      BY <1>1, <1>2, <1>3 DEF Held
    <2> QED
      BY <2>1, <2>2, <2>3
  <1>5. Sized(list) /\ Len(x) <= BatchSize => Sized(more)
    BY <1>1, <1>2, <1>3 DEF Sized
  <1> QED
    BY <1>1, <1>4, <1>5 DEF more

Filled(b) == Held(b.ready) \union Members(b.current)
FitsSize(b) == Sized(b.ready) /\ Len(b.current) <= BatchSize

LEMMA AddEntryIs ==
    ASSUME NEW b \in Builder, NEW e \in BatchEntry
    PROVE  /\ AddEntry(b, e) \in Builder
           /\ Filled(AddEntry(b, e)) = Filled(b) \union {e}
           /\ FitsSize(b) => FitsSize(AddEntry(b, e))
  <1> DEFINE n == TokensOf[e.text]
             full == \/ Len(b.current) >= BatchSize
                     \/ b.current # <<>> /\ b.tokens + n > MaxBatchTokens
  <1>1. b.ready \in Seq(Seq(BatchEntry)) /\ b.current \in Seq(BatchEntry) /\ b.tokens \in Nat
    BY DEF Builder
  <1>2. n \in Nat
    BY BatchAssumption DEF BatchEntry, TextKind
  <1>3. Len(b.current) \in Nat /\ BatchSize \in Nat \ {0}
    BY <1>1, ListIs, BatchAssumption
  <1>4. CASE full
    <2>1. AddEntry(b, e) = [ready |-> Append(b.ready, b.current), current |-> <<e>>, tokens |-> n]
      BY <1>4 DEF AddEntry
    <2>2. /\ Append(b.ready, b.current) \in Seq(Seq(BatchEntry))
          /\ Held(Append(b.ready, b.current)) = Held(b.ready) \union Members(b.current)
          /\ Sized(b.ready) /\ Len(b.current) <= BatchSize => Sized(Append(b.ready, b.current))
      BY <1>1, HeldOneMore
    <2>3. <<e>> \in Seq(BatchEntry) /\ Members(<<e>>) = {e} /\ Len(<<e>>) = 1
      BY DEF Members
    <2> HIDE DEF n, full
    <2>4. AddEntry(b, e) \in Builder
      BY <1>2, <2>1, <2>2, <2>3 DEF Builder
    <2>5. Filled(AddEntry(b, e)) = Filled(b) \union {e}
      BY <2>1, <2>2, <2>3 DEF Filled
    <2>6. FitsSize(b) => FitsSize(AddEntry(b, e))
      BY <1>3, <2>1, <2>2, <2>3 DEF FitsSize
    <2> QED
      BY <2>4, <2>5, <2>6
  <1>5. CASE ~full
    <2>1. AddEntry(b, e) = [ready |-> b.ready, current |-> Append(b.current, e), tokens |-> b.tokens + n]
      BY <1>5 DEF AddEntry, Builder
    <2>2. Append(b.current, e) \in Seq(BatchEntry)
          /\ Members(Append(b.current, e)) = Members(b.current) \union {e}
          /\ Len(Append(b.current, e)) = Len(b.current) + 1
      BY <1>1, OneMore
    <2>3. Len(b.current) + 1 <= BatchSize
      BY <1>3, <1>5
    <2>4. b.tokens + n \in Nat
      BY <1>1, <1>2
    <2> HIDE DEF n, full
    <2> QED
      BY <1>1, <2>1, <2>2, <2>3, <2>4 DEF Builder, Filled, FitsSize
  <1> QED
    BY <1>4, <1>5

\* Batches hold the entries they were formed of, no more of them than a batch may.
LEMMA FormBatchesIs ==
    ASSUME NEW entries \in Seq(BatchEntry)
    PROVE  /\ FormBatches(entries) \in Seq(Seq(BatchEntry))
           /\ Held(FormBatches(entries)) = Members(entries)
           /\ Sized(FormBatches(entries))
  <1> DEFINE n == Len(entries)
             base == [ready |-> <<>>, current |-> <<>>, tokens |-> 0]
             step == [i \in 1..n |-> [b \in Builder |-> AddEntry(b, entries[i])]]
             Is(g) == g = [i \in 0..n |-> IF i = 0 THEN base ELSE AddEntry(g[i - 1], entries[i])]
             built == CHOOSE g : Is(g)
             last == built[n]
  <1>1. n \in Nat /\ DOMAIN entries = 1..n /\ \A i \in 1..n : entries[i] \in BatchEntry
    BY ListIs
  <1>2. base \in Builder /\ Filled(base) = {} /\ FitsSize(base)
    <2>1. base.ready = <<>> /\ base.current = <<>> /\ base \in Builder
      BY DEF Builder
    <2>2. Held(<<>>) = {} /\ Members(<<>>) = {} /\ Sized(<<>>) /\ Len(<<>>) = 0
      BY DEF Held, Members, Sized
    <2>3. 0 <= BatchSize
      BY BatchAssumption
    <2> HIDE DEF base
    <2> QED
      BY <2>1, <2>2, <2>3 DEF Filled, FitsSize
  <1> HIDE DEF base
  <1>3. \E g : Is(g)
    <2>1. step \in [1..n -> [Builder -> Builder]]
      BY <1>1, AddEntryIs
    <2> HIDE DEF step, n
    <2>2. PICK g \in [0..n -> Builder] : Runs(g, base, step, n)
      BY <1>1, <1>2, <2>1, Recursion
    <2>3. ASSUME NEW i \in 1..n
          PROVE  step[i][g[i - 1]] = AddEntry(g[i - 1], entries[i])
      <3>1. i - 1 \in 0..n
        BY <1>1
      <3>2. g[i - 1] \in Builder
        BY <3>1
      <3> QED
        BY <3>2 DEF step
    <2>4. \A i \in 0..n : i # 0 => i \in 1..n
      BY <1>1
    <2>5. g = [i \in 0..n |-> IF i = 0 THEN base ELSE step[i][g[i - 1]]]
      BY <2>2 DEF Runs
    <2>6. [i \in 0..n |-> IF i = 0 THEN base ELSE step[i][g[i - 1]]]
          = [i \in 0..n |-> IF i = 0 THEN base ELSE AddEntry(g[i - 1], entries[i])]
      BY <2>3, <2>4
    <2>7. Is(g)
      BY <2>5, <2>6
    <2> HIDE DEF Is
    <2> QED
      BY <2>7
  <1>4. Is(built)
    <2> HIDE DEF Is
    <2> QED
      BY <1>3
  <1>5. FormBatches(entries) = IF last.current = <<>> THEN last.ready ELSE Append(last.ready, last.current)
    BY DEF FormBatches, base
  <1> HIDE DEF built, n
  <1>6. \A i \in 0..n : built[i] = IF i = 0 THEN base ELSE AddEntry(built[i - 1], entries[i])
    BY <1>4
  <1> HIDE DEF Is, step
  <1> DEFINE First(i) == {entries[j] : j \in 1..i}
             T == {i \in 0..n : /\ built[i] \in Builder /\ FitsSize(built[i])
                                /\ Filled(built[i]) = First(i)}
  <1>7. 0 \in T
    <2>1. built[0] = base /\ First(0) = {}
      BY <1>1, <1>6
    <2> HIDE DEF First
    <2>2. built[0] \in Builder /\ FitsSize(built[0]) /\ Filled(built[0]) = First(0)
      BY <1>2, <2>1
    <2> QED
      BY <1>1, <2>2
  <1>8. ASSUME NEW i \in 1..n, i - 1 \in T
        PROVE  i \in T
    <2>1. i \in 0..n /\ i # 0 /\ entries[i] \in BatchEntry
      BY <1>1
    <2>2. built[i] = AddEntry(built[i - 1], entries[i])
      BY <1>6, <2>1
    <2>3. built[i - 1] \in Builder /\ FitsSize(built[i - 1]) /\ Filled(built[i - 1]) = First(i - 1)
      BY <1>8
    <2>4. First(i) = First(i - 1) \union {entries[i]}
      BY <2>1
    <2> HIDE DEF First
    <2>5. built[i] \in Builder /\ FitsSize(built[i])
          /\ Filled(built[i]) = Filled(built[i - 1]) \union {entries[i]}
      BY <2>1, <2>2, <2>3, AddEntryIs
    <2> QED
      BY <2>1, <2>3, <2>4, <2>5
  <1> HIDE DEF T
  <1>9. n \in T
    <2>1. \A i \in 0..n : i \in T
      BY <1>1, <1>7, <1>8, Upwards
    <2> QED
      BY <1>1, <2>1
  <1>10. last \in Builder /\ FitsSize(last) /\ Filled(last) = Members(entries)
    BY <1>1, <1>9 DEF T, Members
  <1> HIDE DEF last
  <1>11. /\ last.ready \in Seq(Seq(BatchEntry)) /\ last.current \in Seq(BatchEntry)
         /\ Sized(last.ready) /\ Len(last.current) <= BatchSize
         /\ Held(last.ready) \union Members(last.current) = Members(entries)
    BY <1>10 DEF Builder, FitsSize, Filled
  <1>12. CASE last.current = <<>>
    <2>1. Members(last.current) = {}
      BY <1>12 DEF Members
    <2> QED
      BY <1>5, <1>11, <1>12, <2>1
  <1>13. CASE last.current # <<>>
    BY <1>5, <1>11, <1>13, HeldOneMore
  <1> QED
    BY <1>12, <1>13

\* The entries of a set of files.
EntrySet(files, new) ==
    {e \in BatchEntry : e.file \in files /\ e.chunk \in DOMAIN new[e.file]
                           /\ e.text = new[e.file][e.chunk]}

LEMMA EntriesOfIs ==
    ASSUME NEW f \in Scanned, NEW new, new[f] \in Seq(TextKind)
    PROVE  /\ EntriesOf(f, new[f]) \in Seq(BatchEntry)
           /\ Members(EntriesOf(f, new[f])) = EntrySet({f}, new)
  <1> DEFINE s == EntriesOf(f, new[f])
             n == Len(new[f])
             at(k) == [file |-> f, chunk |-> k, text |-> new[f][k]]
  <1>1. n \in Nat /\ DOMAIN new[f] = 1..n /\ \A k \in 1..n : new[f][k] \in TextKind
    BY ListIs
  <1>2. s = [k \in 1..n |-> at(k)]
    BY <1>1 DEF EntriesOf
  <1>3. \A k \in 1..n : at(k) \in BatchEntry
    BY <1>1 DEF BatchEntry
  <1> HIDE DEF s, n
  <1>4. DOMAIN s = 1..n /\ \A k \in 1..n : s[k] = at(k)
    BY <1>2
  <1>5. s \in Seq(BatchEntry)
    <2> HIDE DEF at
    <2>1. s \in [1..n -> BatchEntry]
      BY <1>2, <1>3
    <2> QED
      BY <1>1, <2>1
  <1>6. Members(s) \subseteq EntrySet({f}, new)
    BY <1>1, <1>3, <1>4 DEF Members, EntrySet
  <1>7. ASSUME NEW e \in EntrySet({f}, new)
        PROVE  e \in Members(s)
    <2>1. e \in BatchEntry /\ e.file = f /\ e.chunk \in 1..n /\ e.text = new[f][e.chunk]
      BY <1>1 DEF EntrySet
    <2>2. e = at(e.chunk)
      BY <2>1 DEF BatchEntry
    <2> QED
      BY <1>4, <2>1, <2>2 DEF Members
  <1> QED
    BY <1>5, <1>6, <1>7 DEF s

LEMMA AllEntriesIs ==
    ASSUME NEW files \in SUBSET Scanned, NEW new \in [Scanned -> Seq(TextKind)]
    PROVE  /\ AllEntries(files, new) \in Seq(BatchEntry)
           /\ Members(AllEntries(files, new)) = EntrySet(files, new)
  <1> DEFINE A == Seq(BatchEntry)
             More(f, list) == IF f \in files THEN list \o EntriesOf(f, new[f]) ELSE list
             step == [f \in 1..Files |-> [list \in A |-> More(f, list)]]
             Is(g) == g = [f \in 0..Files |-> IF f = 0 THEN <<>> ELSE More(f, g[f - 1])]
             all == CHOOSE g : Is(g)
  <1>0. Files \in Nat
    BY BatchAssumption
  <1>1. ASSUME NEW f \in 1..Files, NEW list \in A
        PROVE  /\ More(f, list) \in A
               /\ Members(More(f, list)) =
                     Members(list) \union (IF f \in files THEN EntrySet({f}, new) ELSE {})
    <2>1. EntriesOf(f, new[f]) \in A /\ Members(EntriesOf(f, new[f])) = EntrySet({f}, new)
      BY EntriesOfIs DEF Scanned
    <2>2. list \o EntriesOf(f, new[f]) \in A
          /\ Members(list \o EntriesOf(f, new[f])) = Members(list) \union Members(EntriesOf(f, new[f]))
      BY <2>1, Joined
    <2> HIDE DEF A
    <2> QED
      BY <2>1, <2>2
  <1>2. <<>> \in A
    OBVIOUS
  <1> HIDE DEF A, More
  <1>3. \E g : Is(g)
    <2>1. step \in [1..Files -> [A -> A]]
      BY <1>1
    <2> HIDE DEF step
    <2>2. PICK g \in [0..Files -> A] : Runs(g, <<>>, step, Files)
      BY <1>0, <1>2, <2>1, Recursion
    <2>3. ASSUME NEW f \in 1..Files
          PROVE  step[f][g[f - 1]] = More(f, g[f - 1])
      <3>1. f - 1 \in 0..Files
        BY <1>0
      <3>2. g[f - 1] \in A
        BY <3>1
      <3> QED
        BY <3>2 DEF step
    <2>4. \A f \in 0..Files : f # 0 => f \in 1..Files
      BY <1>0
    <2>5. g = [f \in 0..Files |-> IF f = 0 THEN <<>> ELSE step[f][g[f - 1]]]
      BY <2>2 DEF Runs
    <2>6. [f \in 0..Files |-> IF f = 0 THEN <<>> ELSE step[f][g[f - 1]]]
          = [f \in 0..Files |-> IF f = 0 THEN <<>> ELSE More(f, g[f - 1])]
      BY <2>3, <2>4
    <2>7. Is(g)
      BY <2>5, <2>6
    <2> HIDE DEF Is
    <2> QED
      BY <2>7
  <1>4. Is(all)
    <2> HIDE DEF Is
    <2> QED
      BY <1>3
  <1>5. AllEntries(files, new) = all[Files]
    BY DEF AllEntries, More
  <1> HIDE DEF all
  <1>6. \A f \in 0..Files : all[f] = IF f = 0 THEN <<>> ELSE More(f, all[f - 1])
    BY <1>4
  <1> HIDE DEF Is, step
  <1> DEFINE T == {f \in 0..Files : all[f] \in A /\ Members(all[f]) = EntrySet(files \intersect 1..f, new)}
  <1>7. 0 \in T
    <2>1. all[0] = <<>> /\ Members(<<>>) = {} /\ files \intersect 1..0 = {}
      BY <1>0, <1>6 DEF Members
    <2>2. EntrySet({}, new) = {}
      BY DEF EntrySet
    <2>3. all[0] \in A /\ Members(all[0]) = EntrySet(files \intersect 1..0, new)
      BY <1>2, <2>1, <2>2
    <2> QED
      BY <1>0, <2>3
  <1>8. ASSUME NEW f \in 1..Files, f - 1 \in T
        PROVE  f \in T
    <2>1. f \in 0..Files /\ f # 0
      BY <1>0
    <2>2. all[f] = More(f, all[f - 1])
      BY <1>6, <2>1
    <2>3. all[f - 1] \in A /\ Members(all[f - 1]) = EntrySet(files \intersect 1..f - 1, new)
      BY <1>8
    <2>4. files \intersect 1..f = (files \intersect 1..f - 1) \union (IF f \in files THEN {f} ELSE {})
      BY <2>1
    <2>5. EntrySet(files \intersect 1..f, new) =
             EntrySet(files \intersect 1..f - 1, new)
                \union (IF f \in files THEN EntrySet({f}, new) ELSE {})
      BY <2>4 DEF EntrySet
    <2> QED
      BY <1>1, <2>1, <2>2, <2>3, <2>5
  <1> HIDE DEF T
  <1>9. Files \in T
    <2>1. \A f \in 0..Files : f \in T
      BY <1>0, <1>7, <1>8, Upwards
    <2> QED
      BY <1>0, <2>1
  <1>10. files \intersect 1..Files = files
    BY DEF Scanned
  <1> QED
    BY <1>5, <1>9, <1>10 DEF T, A

----------------------------------------------------------------------------
\* The pass under way: its batches hold every chunk of some of the files, a batch
\* that is done has the vectors of its own texts, whatever the others do, and no
\* more goroutines run than the group was given.
Working == {"ready", "counting", "restoring", "limited", "reducing"}
TextsOf(b) == [k \in DOMAIN batches[b] |-> batches[b][k].text]

PassInv ==
    /\ disk \in [Scanned -> Seq(TextKind)]
    /\ batches \in Seq(Seq(BatchEntry)) /\ Sized(batches)
    /\ \E files \in SUBSET Scanned : Held(batches) = EntrySet(files, disk)
    /\ task \in [DOMAIN batches -> Working \union Ended \union {"queued"}]
    /\ DOMAIN results = DOMAIN batches
    /\ \A b \in DOMAIN batches : task[b] = "done" => results[b] = TextsOf(b)
    /\ \A b \in DOMAIN batches : task[b] = "gone" => broken
    /\ limit \in Nat \ {0} /\ Cardinality(Running) <= limit

BatchInv ==
    /\ hash \in [Scanned -> Seq(TextKind)]
    /\ VectorsMatch
    /\ workers \in 1..MaxWorkers
    /\ phase = "embed" => PassInv

LEMMA InitBatchInv == BatchInit => BatchInv
  <1> SUFFICES ASSUME BatchInit PROVE BatchInv
    OBVIOUS
  <1>1. phase = "idle" /\ hash = Nothing /\ saved = Nothing /\ workers = MaxWorkers
    BY DEF BatchInit
  <1>2. hash \in [Scanned -> Seq(TextKind)] /\ \A f \in Scanned : saved[f] = <<>>
    BY <1>1 DEF Nothing
  <1>3. workers \in 1..MaxWorkers
    BY <1>1, BatchAssumption
  <1> QED
    BY <1>1, <1>2, <1>3 DEF BatchInv, VectorsMatch

LEMMA InvIsGroupCanWork == BatchInv => GroupCanWork
  BY DEF BatchInv, PassInv, GroupCanWork

LEMMA RunningIs ==
    ASSUME PassInv
    PROVE  /\ Running = {b \in DOMAIN batches : task[b] \in Working}
           /\ IsFiniteSet(Running) /\ Cardinality(Running) \in Nat
  <1>1. DOMAIN batches = 1..Len(batches) /\ Len(batches) \in Nat
    BY ListIs DEF PassInv
  <1>2. Running = {b \in DOMAIN batches : task[b] \in Working}
    BY DEF PassInv, Running, Ended, Working
  <1>3. IsFiniteSet(1..Len(batches))
    BY <1>1, UpTo
  <1>4. IsFiniteSet(Running)
    BY <1>1, <1>2, <1>3, FS_Subset
  <1> QED
    BY <1>2, <1>4, FS_CardinalityType

\* Nobody but a scan changes what was read and what the batches hold.
LEMMA SameBatches ==
    ASSUME PassInv, UNCHANGED <<disk, batches>>
    PROVE  /\ disk' \in [Scanned' -> Seq(TextKind')]
           /\ batches' \in Seq(Seq(BatchEntry')) /\ Sized(batches)'
           /\ \E files \in SUBSET Scanned' : Held(batches)' = EntrySet(files, disk)'
  <1>1. Scanned' = Scanned /\ TextKind' = TextKind /\ BatchEntry' = BatchEntry
    BY DEF Scanned, TextKind, BatchEntry
  <1>2. Sized(batches)' = Sized(batches) /\ Held(batches)' = Held(batches)
    BY DEF Sized, Held, Members
  <1>3. PICK files \in SUBSET Scanned : Held(batches) = EntrySet(files, disk)
    BY DEF PassInv
  <1>4. EntrySet(files, disk)' = EntrySet(files, disk)
    BY DEF EntrySet, BatchEntry, Scanned, TextKind
  <1> QED
    BY <1>1, <1>2, <1>3, <1>4 DEF PassInv

\* A goroutine goes on, or ends.
LEMMA GoesOn ==
    ASSUME PassInv, NEW b \in DOMAIN batches, task[b] \in Working,
           NEW place \in Working \union Ended, task' = [task EXCEPT ![b] = place],
           UNCHANGED <<disk, batches, limit>>,
           IF place = "done" THEN results' = [results EXCEPT ![b] = TextsOf(b)]
                             ELSE UNCHANGED results,
           IF place = "gone" THEN broken' ELSE UNCHANGED broken
    PROVE  PassInv'
  <1>1. /\ task \in [DOMAIN batches -> Working \union Ended \union {"queued"}]
        /\ DOMAIN results = DOMAIN batches
        /\ \A c \in DOMAIN batches : task[c] = "done" => results[c] = TextsOf(c)
        /\ \A c \in DOMAIN batches : task[c] = "gone" => broken
        /\ Cardinality(Running) <= limit /\ limit \in Nat \ {0}
    BY DEF PassInv
  <1>2. task' \in [DOMAIN batches' -> Working \union Ended \union {"queued"}]
    BY <1>1
  <1>3. \A c \in DOMAIN batches : task'[c] = IF c = b THEN place ELSE task[c]
    BY <1>1
  <1>4. DOMAIN results' = DOMAIN batches'
        /\ \A c \in DOMAIN batches' : task'[c] = "done" => results'[c] = TextsOf(c)'
    <2>1. \A c : TextsOf(c)' = TextsOf(c)
      BY DEF TextsOf
    <2>2. CASE place = "done"
      <3>1. \A c \in DOMAIN batches : results'[c] = IF c = b THEN TextsOf(b) ELSE results[c]
        BY <1>1, <2>2
      <3> QED
        BY <1>1, <1>3, <2>1, <2>2, <3>1
    <2>3. CASE place # "done"
      BY <1>1, <1>3, <2>1, <2>3
    <2> QED
      BY <2>2, <2>3
  <1>5. \A c \in DOMAIN batches' : task'[c] = "gone" => broken'
    BY <1>1, <1>3
  <1>6. Running' \subseteq Running
    <2>1. Running' = {c \in DOMAIN batches : task'[c] \notin Ended \cup {"queued"}}
      BY <1>2 DEF Running, Ended
    <2>2. Running = {c \in DOMAIN batches : task[c] \in Working}
      BY RunningIs
    <2>3. \A c \in DOMAIN batches : task'[c] \notin Ended \cup {"queued"} => task[c] \in Working
      <3>1. \A c \in DOMAIN batches : c # b => task'[c] = task[c]
        BY <1>3
      <3> QED
        BY <1>1, <3>1
    <2> QED
      BY <2>1, <2>2, <2>3
  <1>7. Cardinality(Running') <= limit
    <2>1. IsFiniteSet(Running) /\ Cardinality(Running) \in Nat
      BY RunningIs
    <2>2. Cardinality(Running') \in Nat /\ Cardinality(Running') <= Cardinality(Running)
      BY <1>6, <2>1, FS_Subset, FS_CardinalityType
    <2> QED
      BY <1>1, <2>1, <2>2
  <1>8. /\ disk' \in [Scanned' -> Seq(TextKind')]
        /\ batches' \in Seq(Seq(BatchEntry')) /\ Sized(batches)'
        /\ \E files \in SUBSET Scanned' : Held(batches)' = EntrySet(files, disk)'
    BY SameBatches
  <1> QED
    BY <1>1, <1>2, <1>4, <1>5, <1>7, <1>8 DEF PassInv

LEMMA LaunchKeeps ==
    ASSUME PassInv, NEW b \in DOMAIN batches, Launch(b)
    PROVE  PassInv'
  <1>1. /\ task[b] = "queued" /\ Cardinality(Running) < limit
        /\ task' = [task EXCEPT ![b] = "ready"]
        /\ UNCHANGED <<disk, batches, limit, results, broken>>
    BY DEF Launch, IsAt, GoesTo, Rest
  <1>2. /\ task \in [DOMAIN batches -> Working \union Ended \union {"queued"}]
        /\ limit \in Nat \ {0}
    BY DEF PassInv
  <1>3. task' \in [DOMAIN batches -> Working \union Ended \union {"queued"}]
        /\ \A c \in DOMAIN batches : task'[c] = IF c = b THEN "ready" ELSE task[c]
    BY <1>1, <1>2 DEF Working
  <1>4. Running' = Running \union {b} /\ b \notin Running
    BY <1>1, <1>2, <1>3 DEF Running, Ended
  <1>5. Cardinality(Running') = Cardinality(Running) + 1 /\ Cardinality(Running) \in Nat
    <2>1. IsFiniteSet(Running) /\ Cardinality(Running) \in Nat
      BY RunningIs
    <2> QED
      BY <1>4, <2>1, FS_AddElement
  <1>6. Cardinality(Running') <= limit
    BY <1>1, <1>2, <1>5
  <1>7. \A c : TextsOf(c)' = TextsOf(c)
    BY <1>1 DEF TextsOf
  <1>8. /\ \A c \in DOMAIN batches' : task'[c] = "done" => results'[c] = TextsOf(c)'
        /\ \A c \in DOMAIN batches' : task'[c] = "gone" => broken'
    BY <1>1, <1>3, <1>7 DEF PassInv
  <1>9. /\ disk' \in [Scanned' -> Seq(TextKind')]
        /\ batches' \in Seq(Seq(BatchEntry')) /\ Sized(batches)'
        /\ \E files \in SUBSET Scanned' : Held(batches)' = EntrySet(files, disk)'
    BY <1>1, SameBatches
  <1> QED
    BY <1>1, <1>2, <1>3, <1>6, <1>8, <1>9 DEF PassInv

\* What a goroutine does leaves the files alone, and the limiter in its range.
LEMMA WorksOn ==
    ASSUME BatchInv, NEW b \in DOMAIN batches, phase = "embed", Works(b)
    PROVE  PassInv' /\ workers' \in 1..MaxWorkers /\ UNCHANGED <<hash, saved, phase>>
  <1>0. PassInv /\ workers \in 1..MaxWorkers /\ MaxWorkers \in Nat \ {0}
    BY BatchAssumption DEF BatchInv
  <1> USE DEF IsAt, GoesTo, Rest, limiterVars
  <1>1. CASE Launch(b)
    BY <1>0, <1>1, LaunchKeeps DEF Launch
  <1>2. CASE Served(b)
    <2>1. task[b] \in Working /\ "counting" \in Working
      BY <1>2 DEF Served, Working
    <2>2. PassInv'
      BY <1>0, <1>2, <2>1, GoesOn DEF Served
    <2> QED
      BY <1>0, <1>2, <2>2 DEF Served
  <1>3. ASSUME Delivers(b), task[b] \in Working, UNCHANGED <<disk, batches, limit, broken>>
        PROVE  PassInv'
    <2>1. "done" \in Working \union Ended /\ results' = [results EXCEPT ![b] = TextsOf(b)]
          /\ task' = [task EXCEPT ![b] = "done"]
      BY <1>3 DEF Delivers, TextsOf, Ended
    <2> QED
      BY <1>0, <1>3, <2>1, GoesOn
  <1>4. ASSUME Retries(b), task[b] \in Working, UNCHANGED <<disk, batches, limit, results>>
        PROVE  PassInv'
    <2>1. CASE task' = [task EXCEPT ![b] = "ready"] /\ UNCHANGED broken
      <3>1. "ready" \in Working
        BY DEF Working
      <3> QED
        BY <1>0, <1>4, <2>1, <3>1, GoesOn
    <2>2. CASE task' = [task EXCEPT ![b] = "gone"] /\ broken'
      <3>1. "gone" \in Working \union Ended
        BY DEF Ended
      <3> QED
        BY <1>0, <1>4, <2>2, <3>1, GoesOn
    <2> QED
      BY <1>4, <2>1, <2>2 DEF Retries, GivesUp
  <1>5. CASE CountSuccess(b)
    <2>1. task[b] \in Working /\ "restoring" \in Working
      BY <1>5 DEF CountSuccess, Working
    <2>2. CASE task' = [task EXCEPT ![b] = "restoring"] /\ UNCHANGED results
      <3>1. PassInv'
        BY <1>0, <1>5, <2>1, <2>2, GoesOn DEF CountSuccess
      <3> QED
        BY <1>0, <1>5, <3>1 DEF CountSuccess
    <2>3. CASE Delivers(b)
      <3>1. PassInv'
        BY <1>3, <1>5, <2>1, <2>3 DEF CountSuccess
      <3> QED
        BY <1>0, <1>5, <3>1 DEF CountSuccess
    <2> QED
      BY <1>5, <2>2, <2>3 DEF CountSuccess
  <1>6. CASE RestoreLimit(b)
    <2>1. task[b] \in Working
      BY <1>6 DEF RestoreLimit, Working
    <2>2. PassInv'
      BY <1>3, <1>6, <2>1 DEF RestoreLimit
    <2>3. workers' = IF workers >= MaxWorkers THEN workers ELSE workers + 1
      BY <1>6 DEF RestoreLimit
    <2>4. workers' \in 1..MaxWorkers
      BY <1>0, <2>3
    <2> QED
      BY <1>6, <2>2, <2>4 DEF RestoreLimit
  <1>7. CASE Limited(b)
    <2>1. task[b] \in Working /\ "limited" \in Working
      BY <1>7 DEF Limited, Working
    <2>2. PassInv'
      BY <1>0, <1>7, <2>1, GoesOn DEF Limited
    <2> QED
      BY <1>0, <1>7, <2>2 DEF Limited
  <1>8. CASE CountHit(b)
    <2>1. task[b] \in Working /\ "reducing" \in Working
      BY <1>8 DEF CountHit, Working
    <2>2. CASE task' = [task EXCEPT ![b] = "reducing"] /\ UNCHANGED <<tries, broken>>
      <3>1. PassInv'
        BY <1>0, <1>8, <2>1, <2>2, GoesOn DEF CountHit
      <3> QED
        BY <1>0, <1>8, <3>1 DEF CountHit
    <2>3. CASE Retries(b)
      <3>1. PassInv'
        BY <1>4, <1>8, <2>1, <2>3 DEF CountHit
      <3> QED
        BY <1>0, <1>8, <3>1 DEF CountHit
    <2> QED
      BY <1>8, <2>2, <2>3 DEF CountHit
  <1>9. CASE Reduce(b)
    <2>1. task[b] \in Working
      BY <1>9 DEF Reduce, Working
    <2>2. PassInv'
      BY <1>4, <1>9, <2>1 DEF Reduce
    <2>3. workers' = IF workers <= 1 THEN workers ELSE workers \div 2
      BY <1>9 DEF Reduce
    <2>4. workers' \in 1..MaxWorkers
      BY <1>0, <2>3
    <2> QED
      BY <1>9, <2>2, <2>4 DEF Reduce
  <1>10. CASE Overloaded(b)
    <2>1. task[b] \in Working
      BY <1>10 DEF Overloaded, Working
    <2>2. PassInv'
      BY <1>4, <1>10, <2>1 DEF Overloaded
    <2> QED
      BY <1>0, <1>10, <2>2 DEF Overloaded
  <1>11. CASE Refused(b)
    <2>1. task[b] \in Working /\ "gone" \in Working \union Ended
      BY <1>11 DEF Refused, Working, Ended
    <2>2. PassInv'
      BY <1>0, <1>11, <2>1, GoesOn DEF Refused, GivesUp
    <2> QED
      BY <1>0, <1>11, <2>2 DEF Refused
  <1> QED
    BY <1>1, <1>2, <1>5, <1>6, <1>7, <1>8, <1>9, <1>10, <1>11 DEF Works

\* What the batches bring is put where their entries say.
LEMMA WaitKeeps ==
    ASSUME BatchInv, Wait
    PROVE  BatchInv'
  <1> DEFINE embedded == {f \in Scanned : Placed(f) # {}}
  <1>1. /\ phase = "embed" /\ phase' = "idle" /\ UNCHANGED workers
        /\ \A b \in DOMAIN task : task[b] \in Ended
    BY DEF Wait, limiterVars
  <1>2. \/ broken /\ UNCHANGED <<hash, saved>>
        \/ /\ ~broken
           /\ hash' = [f \in Scanned |-> IF f \in embedded THEN disk[f] ELSE hash[f]]
           /\ saved' = [f \in Scanned |->
                IF f \in embedded THEN WithVectors(disk[f], VectorsOf(f)) ELSE saved[f]]
    BY DEF Wait
  <1>3. PassInv /\ hash \in [Scanned -> Seq(TextKind)] /\ VectorsMatch /\ workers \in 1..MaxWorkers
    BY <1>1 DEF BatchInv
  <1>4. CASE broken /\ UNCHANGED <<hash, saved>>
    BY <1>1, <1>3, <1>4 DEF BatchInv, VectorsMatch, Scanned, TextKind, WithVectors
  <1>5. CASE /\ ~broken
             /\ hash' = [f \in Scanned |-> IF f \in embedded THEN disk[f] ELSE hash[f]]
             /\ saved' = [f \in Scanned |->
                  IF f \in embedded THEN WithVectors(disk[f], VectorsOf(f)) ELSE saved[f]]
    <2>1. \A b \in DOMAIN batches : results[b] = TextsOf(b)
      BY <1>1, <1>3, <1>5 DEF PassInv, Ended
    <2>2. disk \in [Scanned -> Seq(TextKind)] /\ batches \in Seq(Seq(BatchEntry)) /\ Sized(batches)
      BY <1>3 DEF PassInv
    <2>3. PICK files \in SUBSET Scanned : Held(batches) = EntrySet(files, disk)
      BY <1>3 DEF PassInv
    <2>4. ASSUME NEW b \in DOMAIN batches
          PROVE  /\ DOMAIN batches[b] = 1..Len(batches[b]) /\ Len(batches[b]) \in Nat
                 /\ Len(batches[b]) <= BatchSize
                 /\ \A k \in DOMAIN batches[b] : batches[b][k] \in EntrySet(files, disk)
      <3>1. batches[b] \in Seq(BatchEntry)
        BY <2>2, ListIs
      <3>2. DOMAIN batches[b] = 1..Len(batches[b]) /\ Len(batches[b]) \in Nat
        BY <3>1, ListIs
      <3>3. \A k \in DOMAIN batches[b] : batches[b][k] \in Held(batches)
        BY DEF Held, Members
      <3> QED
        BY <2>2, <2>3, <3>2, <3>3 DEF Sized
    <2>5. ASSUME NEW f \in embedded
          PROVE  f \in files
      <3>1. PICK e \in Placed(f) : TRUE
        OBVIOUS
      <3>2. PICK b \in DOMAIN batches, k \in 1..BatchSize : e = <<b, k>>
        BY <3>1 DEF Placed
      <3>3. k \in DOMAIN batches[b] /\ batches[b][k].file = f
        BY <3>1, <3>2 DEF Placed
      <3> QED
        BY <2>4, <3>3 DEF EntrySet
    <2>6. ASSUME NEW f \in embedded, NEW k \in DOMAIN disk[f]
          PROVE  VectorAt(EntryOf(f, k)) = disk[f][k]
      <3>1. f \in files /\ f \in Scanned
        BY <2>5
      <3>2. disk[f] \in Seq(TextKind) /\ k \in 1..Len(disk[f]) /\ Len(disk[f]) \in Nat
            /\ disk[f][k] \in TextKind
        BY <2>2, <3>1, ListIs
      <3> DEFINE x == [file |-> f, chunk |-> k, text |-> disk[f][k]]
      <3>3. x \in EntrySet(files, disk)
        BY <3>1, <3>2 DEF EntrySet, BatchEntry
      <3>4. PICK b \in DOMAIN batches : \E i \in DOMAIN batches[b] : batches[b][i] = x
        BY <2>3, <3>3 DEF Held, Members
      <3>5. PICK i \in DOMAIN batches[b] : batches[b][i] = x
        BY <3>4
      <3>6. <<b, i>> \in Placed(f) /\ batches[b][i].chunk = k
        <4>1. i \in 1..BatchSize
          BY <2>4, BatchAssumption
        <4> QED
          BY <3>5, <4>1 DEF Placed
      <3> DEFINE e == EntryOf(f, k)
      <3>7. e \in Placed(f) /\ batches[e[1]][e[2]].chunk = k
        <4>1. \E y \in Placed(f) : batches[y[1]][y[2]].chunk = k
          BY <3>6
        <4> QED
          BY <4>1 DEF EntryOf
      <3> HIDE DEF e
      <3>8. PICK c \in DOMAIN batches, j \in 1..BatchSize : e = <<c, j>>
        BY <3>7 DEF Placed
      <3>9. j \in DOMAIN batches[c] /\ batches[c][j].file = f /\ batches[c][j].chunk = k
        BY <3>7, <3>8 DEF Placed
      <3>10. batches[c][j].text = disk[f][k]
        BY <2>4, <3>9 DEF EntrySet
      <3>11. results[c] = [m \in DOMAIN batches[c] |-> batches[c][m].text]
        BY <2>1 DEF TextsOf
      <3>12. VectorAt(e) = disk[f][k]
        BY <3>8, <3>9, <3>10, <3>11 DEF VectorAt
      <3> QED
        BY <3>12 DEF e
    <2>7. ASSUME NEW f \in embedded
          PROVE  WithVectors(disk[f], VectorsOf(f)) = WithVectors(disk[f], disk[f])
      <3>1. \A k \in DOMAIN disk[f] : VectorsOf(f)[k] = disk[f][k]
        BY <2>6 DEF VectorsOf
      <3> QED
        BY <3>1 DEF WithVectors
    <2> HIDE DEF embedded
    <2>8. hash' \in [Scanned -> Seq(TextKind)]
      BY <1>3, <1>5, <2>2
    <2>9. ASSUME NEW f \in Scanned, saved'[f] # <<>>
          PROVE  saved'[f] = WithVectors(hash'[f], hash'[f])
      <3>1. CASE f \in embedded
        BY <1>5, <2>7, <3>1
      <3>2. CASE f \notin embedded
        BY <1>3, <1>5, <2>9, <3>2 DEF VectorsMatch
      <3> QED
        BY <3>1, <3>2
    <2>10. VectorsMatch'
      BY <2>9 DEF VectorsMatch, Scanned, WithVectors
    <2> QED
      BY <1>1, <1>3, <2>8, <2>10 DEF BatchInv, Scanned, TextKind
  <1> QED
    BY <1>2, <1>4, <1>5

\* A scan: what the cache knows are vectors of their own texts, and the entries of
\* the files it does not know in whole go into batches.
LEMMA ScanKeeps ==
    ASSUME BatchInv, NEW new \in [Scanned -> FileTexts], Scan(new)
    PROVE  BatchInv'
  <1> DEFINE changed == {f \in Scanned : hash[f] = <<>> \/ new[f] # hash[f]}
             stays == [f \in Scanned |-> IF f \in changed THEN <<>> ELSE saved[f]]
             known == UNION {{stays[f][k] : k \in DOMAIN stays[f]} : f \in Scanned}
             vectorOf(text) == (CHOOSE c \in known : c.text = text).vector
             inCache(f) == \A k \in DOMAIN new[f] : \E c \in known : c.text = new[f][k]
             whole == {f \in changed : new[f] # <<>> /\ inCache(f)}
             rest == changed \ whole
             entries == AllEntries(rest, new)
             vectors(f) == [k \in DOMAIN new[f] |-> vectorOf(new[f][k])]
  <1>1. /\ hash' = [f \in Scanned |-> IF f \in whole THEN new[f] ELSE hash[f]]
        /\ saved' = [f \in Scanned |-> IF f \in whole THEN WithVectors(new[f], vectors(f)) ELSE stays[f]]
    BY DEF Scan
  <1>2. /\ batches' = FormBatches(entries)
        /\ IF entries = <<>> THEN phase' = "idle" /\ disk' = Nothing
           ELSE phase' = "embed" /\ disk' = new
        /\ task' = [b \in DOMAIN batches' |-> "queued"]
        /\ results' = [b \in DOMAIN batches' |-> NoResult]
        /\ limit' = IF entries = <<>> THEN 0 ELSE workers
        /\ UNCHANGED workers
    BY DEF Scan, limiterVars
  <1>3. hash \in [Scanned -> Seq(TextKind)] /\ VectorsMatch /\ workers \in 1..MaxWorkers
    BY DEF BatchInv
  <1>4. new \in [Scanned -> Seq(TextKind)]
    BY BatchAssumption DEF TextKind
  <1>5. rest \in SUBSET Scanned
    OBVIOUS
  <1>6. ASSUME NEW c \in known
        PROVE  c.vector = c.text
    <2>1. PICK f \in Scanned : c \in {stays[f][k] : k \in DOMAIN stays[f]}
      OBVIOUS
    <2>2. PICK k \in DOMAIN stays[f] : c = stays[f][k]
      BY <2>1
    <2>3. stays[f] = IF f \in changed THEN <<>> ELSE saved[f]
      OBVIOUS
    <2>4. stays[f] # <<>> /\ stays[f] = saved[f]
      <3>1. DOMAIN <<>> = {}
        OBVIOUS
      <3> HIDE DEF changed, stays
      <3> QED
        BY <2>2, <2>3, <3>1
    <2>5. saved[f] = WithVectors(hash[f], hash[f])
      BY <1>3, <2>4 DEF VectorsMatch
    <2>6. c = saved[f][k] /\ k \in DOMAIN saved[f]
      BY <2>2, <2>4
    <2> QED
      BY <2>5, <2>6 DEF WithVectors
  <1>7. ASSUME NEW f \in whole
        PROVE  WithVectors(new[f], vectors(f)) = WithVectors(new[f], new[f])
    <2>1. inCache(f)
      OBVIOUS
    <2> HIDE DEF known, whole
    <2>2. ASSUME NEW k \in DOMAIN new[f]
          PROVE  vectorOf(new[f][k]) = new[f][k]
      <3>1. \E c \in known : c.text = new[f][k]
        BY <2>1
      <3> DEFINE d == CHOOSE c \in known : c.text = new[f][k]
      <3>2. d \in known /\ d.text = new[f][k]
        BY <3>1
      <3> QED
        BY <1>6, <3>2
    <2>3. \A k \in DOMAIN new[f] : vectors(f)[k] = new[f][k]
      BY <2>2
    <2> HIDE DEF vectors, vectorOf
    <2> QED
      BY <2>3 DEF WithVectors
  <1>8. \A f \in Scanned : f \notin whole => stays[f] = <<>> \/ stays[f] = saved[f]
    OBVIOUS
  <1> HIDE DEF changed, stays, whole, known, vectors, rest
  <1>9. hash' \in [Scanned -> Seq(TextKind)]
    BY <1>1, <1>3, <1>4
  <1>10. VectorsMatch'
    <2>1. ASSUME NEW f \in Scanned, saved'[f] # <<>>
          PROVE  saved'[f] = WithVectors(hash'[f], hash'[f])
      <3>1. CASE f \in whole
        BY <1>1, <1>7, <3>1
      <3>2. CASE f \notin whole
        <4>1. saved'[f] = saved[f] /\ hash'[f] = hash[f]
          BY <1>1, <1>8, <2>1, <3>2
        <4> QED
          BY <1>3, <2>1, <4>1 DEF VectorsMatch
      <3> QED
        BY <3>1, <3>2
    <2> QED
      BY <2>1 DEF VectorsMatch, Scanned, WithVectors
  <1>11. ASSUME phase' = "embed"
         PROVE  PassInv'
    <2>1. entries # <<>> /\ disk' = new /\ limit' = workers
      BY <1>2, <1>11
    <2>2. entries \in Seq(BatchEntry) /\ Members(entries) = EntrySet(rest, new)
      BY <1>4, <1>5, AllEntriesIs
    <2>3. batches' \in Seq(Seq(BatchEntry)) /\ Held(batches') = EntrySet(rest, new) /\ Sized(batches')
      BY <1>2, <2>2, FormBatchesIs
    <2> HIDE DEF entries
    <2>4. task' \in [DOMAIN batches' -> Working \union Ended \union {"queued"}]
          /\ DOMAIN results' = DOMAIN batches' /\ \A b \in DOMAIN batches' : task'[b] = "queued"
      BY <1>2
    <2>5. Running' = {}
      BY <2>4 DEF Running
    <2>6. limit' \in Nat \ {0} /\ Cardinality(Running') <= limit'
      <3>1. limit' \in Nat \ {0}
        BY <1>3, <2>1, BatchAssumption
      <3>2. Cardinality(Running') = 0
        BY <2>5, FS_EmptySet
      <3> QED
        BY <3>1, <3>2
    <2>7. Sized(batches)' /\ Held(batches)' = Held(batches') /\ EntrySet(rest, new) = EntrySet(rest, disk')
      BY <2>1, <2>3 DEF Sized, Held, Members, EntrySet
    <2>8. \E files \in SUBSET Scanned' : Held(batches)' = EntrySet(files, disk)'
      <3>1. EntrySet(rest, disk') = {e \in BatchEntry : e.file \in rest /\ e.chunk \in DOMAIN disk'[e.file]
                                        /\ e.text = disk'[e.file][e.chunk]}
        BY DEF EntrySet
      <3>2. rest \in SUBSET Scanned' /\ Held(batches)' = EntrySet(rest, disk')
        BY <1>5, <2>3, <2>7 DEF Scanned
      <3> QED
        BY <3>1, <3>2 DEF EntrySet, BatchEntry, Scanned, TextKind
    <2> QED
      BY <1>4, <2>1, <2>3, <2>4, <2>6, <2>7, <2>8 DEF PassInv, Scanned, TextKind, BatchEntry
  <1> QED
    BY <1>2, <1>3, <1>9, <1>10, <1>11 DEF BatchInv, Scanned, TextKind

LEMMA BatchStep == BatchInv /\ [BatchNext]_batchVars => BatchInv'
  <1> SUFFICES ASSUME BatchInv, [BatchNext]_batchVars PROVE BatchInv'
    OBVIOUS
  <1>1. ASSUME NEW new \in [Scanned -> FileTexts], Scan(new)
        PROVE  BatchInv'
    BY <1>1, ScanKeeps
  <1>2. CASE Wait
    BY <1>2, WaitKeeps
  <1>3. ASSUME NEW b \in DOMAIN batches, Works(b)
        PROVE  BatchInv'
    <2>1. phase = "embed"
      BY <1>3 DEF Works, Launch, Served, CountSuccess, RestoreLimit, Limited, CountHit, Reduce,
                  Overloaded, Refused, IsAt
    <2>2. PassInv' /\ workers' \in 1..MaxWorkers /\ UNCHANGED <<hash, saved, phase>>
      BY <1>3, <2>1, WorksOn
    <2> QED
      BY <2>2 DEF BatchInv, VectorsMatch, Scanned, TextKind, WithVectors
  <1>4. CASE UNCHANGED batchVars
    <2>1. UNCHANGED <<phase, disk, hash, saved, batches, task, results, limit, broken, workers>>
      BY <1>4 DEF batchVars, groupVars, limiterVars
    <2>2. PassInv' = PassInv
      BY <2>1 DEF PassInv, Scanned, TextKind, BatchEntry, Sized, Held, Members, EntrySet, TextsOf,
                  Running
    <2> QED
      BY <2>1, <2>2 DEF BatchInv, VectorsMatch, Scanned, TextKind, WithVectors
  <1> QED
    BY <1>1, <1>2, <1>3, <1>4 DEF BatchNext

\* Whatever order the batches end in, whichever fail and whatever the cache knows, a
\* file has the vectors of its own texts, or none (indexer.go, batch.go, openai.go).
THEOREM VectorsAlwaysMatch == BatchSpec => []VectorsMatch
  <1>1. BatchInv => VectorsMatch
    BY DEF BatchInv
  <1> QED
    BY <1>1, InitBatchInv, BatchStep, PTL DEF BatchSpec

\* The limiter, one atomic access at a time by goroutines of one pass after the
\* other, never leaves the range that lets the next group work (rate_limiter.go).
THEOREM GroupCanAlwaysWork == BatchSpec => []GroupCanWork
  BY InitBatchInv, BatchStep, InvIsGroupCanWork, PTL DEF BatchSpec

\* So a pass ends, or goes on, with right vectors and with somebody to go on.
THEOREM PassesAlwaysRight == BatchSpec => []PassesAreRight
  BY VectorsAlwaysMatch, GroupCanAlwaysWork, PTL DEF PassesAreRight

(***************************************************************************)
(* The chunks of a file                                                    *)
(***************************************************************************)

ChunksIn(all, p) == {c \in all : c.path = p}
ContentOf(p) == Contents[p]
ChunkType == [id : StoredPath \X Nat, path : StoredPath, text : Text]

\* A chunk is called by its file, and belongs to one of its contents.
WellNamed(all) ==
    /\ all \subseteq ChunkType
    /\ \A c \in all : c.id[1] = c.path
    /\ IsFiniteSet(all)

\* What the index knows of a file that no job is at: its chunks are those of one
\* content, that of the document unless a job has failed.
WholeFile(all, docs, failed, p) ==
    /\ ChunksIn(all, p) \in {{}} \union {ChunksFor(p, new) : new \in Contents[p]}
    /\ p \in DOMAIN docs \ failed => ChunksIn(all, p) = ChunksFor(p, docs[p].content)

\* The file store finds the chunks of a file by its document.
InDocument(all, docs, p) ==
    /\ p \in DOMAIN docs => docs[p].ids = {<<p, i>> : i \in DOMAIN docs[p].content}
    /\ p \notin DOMAIN docs => ChunksIn(all, p) = {}
    /\ p \in DOMAIN docs => ChunksIn(all, p) \in {{}, ChunksFor(p, docs[p].content)}

\* An index that can be loaded.
Loadable(s) ==
    /\ WellNamed(s.chunks) /\ DOMAIN s.documents \subseteq StoredPath
    /\ \A p \in StoredPath : /\ WholeFile(s.chunks, s.documents, s.hurt, p)
                             /\ InDocument(s.chunks, s.documents, p)

StoreTypes ==
    /\ backend \in Backends
    /\ DOMAIN file = StoredPath
    /\ \A p \in StoredPath : file[p] \in Contents[p] \union {NoFile}
    /\ WellNamed(chunks) /\ DOMAIN documents \subseteq StoredPath
    /\ backend = "qdrant" => DOMAIN documents = {}
    /\ \/ job = Resting
       \/ /\ job \in [step : {"clear", "save", "note"}, path : StoredPath,
                      content : UNION {Contents[p] : p \in StoredPath}]
          /\ job.content \in Contents[job.path]
       \/ job \in [step : {"erase", "forget"}, path : StoredPath, content : {NoFile}]

\* Between two jobs every file is whole; a job finds its file as it was, or has
\* emptied it, or has written it.
JobInv ==
    /\ \A p \in StoredPath \ {job.path} : /\ WholeFile(chunks, documents, hurt, p)
                                          /\ backend = "gob" => InDocument(chunks, documents, p)
    /\ job.step \in {"clear", "erase"} =>
          /\ WholeFile(chunks, documents, hurt, job.path)
          /\ backend = "gob" => InDocument(chunks, documents, job.path)
    /\ job.step \in {"save", "forget"} => ChunksIn(chunks, job.path) = {}
    /\ job.step = "note" => ChunksIn(chunks, job.path) = ChunksFor(job.path, job.content)
    /\ backend = "gob" /\ job.path \in DOMAIN documents =>
          documents[job.path].ids = {<<job.path, i>> : i \in DOMAIN documents[job.path].content}

FilesInv == backend = "gob" => Loadable(kept) /\ (reader # NoSnapshot => Loadable(reader))

StoreInv == StoreTypes /\ JobInv /\ FilesInv /\ (backend # "gob" => reader = NoSnapshot)

----------------------------------------------------------------------------
LEMMA FileChunks ==
    ASSUME NEW p \in StoredPath, NEW new \in Contents[p]
    PROVE  /\ WellNamed(ChunksFor(p, new))
           /\ \A c \in ChunksFor(p, new) : c.path = p
           /\ new \in Seq(Text)
  <1>1. new \in Seq(Text)
    BY StoreAssumption
  <1>2. DOMAIN new = 1..Len(new) /\ Len(new) \in Nat /\ \A i \in DOMAIN new : new[i] \in Text
    BY <1>1
  <1>3. IsFiniteSet(DOMAIN new)
    <2>1. IsFiniteSet(1..Len(new))
      BY <1>2, UpTo
    <2> QED
      BY <1>2, <2>1
  <1>4. IsFiniteSet(ChunksFor(p, new))
    <2> DEFINE f == [i \in DOMAIN new |-> [id |-> <<p, i>>, path |-> p, text |-> new[i]]]
    <2>1. f \in Surjection(DOMAIN new, ChunksFor(p, new))
      BY DEF ChunksFor, Surjection
    <2> QED
      BY <1>3, <2>1, FS_Surjection
  <1>5. ChunksFor(p, new) \subseteq ChunkType
    BY <1>2 DEF ChunksFor, ChunkType
  <1> QED
    BY <1>1, <1>4, <1>5 DEF ChunksFor, WellNamed

LEMMA Unhurt ==
    ASSUME StoreInv, NEW p \in StoredPath
    PROVE  ChunksIn(chunks, p) \in {{}} \union {ChunksFor(p, new) : new \in Contents[p]}
  <1>1. CASE p # job.path
    BY <1>1 DEF StoreInv, JobInv, WholeFile
  <1>2. CASE p = job.path
    <2>1. job # Resting
      BY <1>2, StoreAssumption DEF Resting
    <2>2. job.step \in {"clear", "save", "note", "erase", "forget"}
          /\ (job.step = "note" => job.content \in Contents[job.path])
      BY <2>1 DEF StoreInv, StoreTypes
    <2> QED
      BY <1>2, <2>2 DEF StoreInv, JobInv, WholeFile
  <1> QED
    BY <1>1, <1>2

LEMMA InvIsOneContent == StoreInv => OneContentPerFile
  <1> SUFFICES ASSUME StoreInv
               PROVE  OneContentPerFile
    OBVIOUS
  <1>1. \A p \in StoredPath :
          {c \in chunks : c.path = p} \in {{}} \union {ChunksFor(p, new) : new \in Contents[p]}
    BY Unhurt DEF ChunksIn
  <1>2. ASSUME NEW p \in DOMAIN documents, p \notin hurt, job.path # p
        PROVE  {c \in chunks : c.path = p} = ChunksFor(p, documents[p].content)
    BY <1>2 DEF StoreInv, StoreTypes, JobInv, WholeFile, ChunksIn
  <1> QED
    BY <1>1, <1>2 DEF OneContentPerFile

LEMMA InitStoreInv == StoreInit => StoreInv
  <1> SUFFICES ASSUME StoreInit
               PROVE  StoreInv
    OBVIOUS
  <1>1. WellNamed({}) /\ DOMAIN <<>> = {}
    BY FS_EmptySet DEF WellNamed
  <1>2. \A p \in StoredPath : WholeFile({}, <<>>, {}, p) /\ InDocument({}, <<>>, p)
    BY <1>1 DEF WholeFile, InDocument, ChunksIn
  <1>3. StoreTypes
    <2>1. \A p \in StoredPath : file[p] = NoFile
      BY DEF StoreInit
    <2>2. DOMAIN file = StoredPath
      BY DEF StoreInit
    <2> QED
      BY <1>1, <2>1, <2>2 DEF StoreInit, StoreTypes
  <1>4. JobInv
    BY <1>1, <1>2, StoreAssumption DEF StoreInit, JobInv, Resting
  <1>5. Loadable(kept)
    BY <1>1, <1>2 DEF StoreInit, Snapshot, Loadable
  <1> QED
    BY <1>3, <1>4, <1>5 DEF StoreInit, StoreInv, FilesInv

----------------------------------------------------------------------------
\* What the stores' operations do to each file.
LEMMA DeleteEffect ==
    ASSUME StoreInv, job.step \in {"clear", "erase"}
    PROVE  /\ WellNamed(DeleteByFile(job.path))
           /\ \A q \in StoredPath : ChunksIn(DeleteByFile(job.path), q)
                                     = IF q = job.path THEN {} ELSE ChunksIn(chunks, q)
  <1> DEFINE p == job.path
  <1>1. p \in StoredPath
    BY DEF StoreInv, StoreTypes, Resting
  <1>2. DeleteByFile(p) \subseteq chunks
    BY DEF DeleteByFile
  <1>3. WellNamed(DeleteByFile(p))
    BY <1>2, FS_Subset DEF StoreInv, StoreTypes, WellNamed
  <1>4. CASE backend # "gob"
    BY <1>1, <1>3, <1>4 DEF DeleteByFile, ChunksIn
  <1>5. CASE backend = "gob"
    <2>1. InDocument(chunks, documents, p)
      BY <1>5 DEF StoreInv, JobInv
    <2>2. CASE p \notin DOMAIN documents
      <3>1. DeleteByFile(p) = chunks
        BY <1>5, <2>2 DEF DeleteByFile
      <3> QED
        BY <1>3, <2>1, <2>2, <3>1 DEF InDocument
    <2>3. CASE p \in DOMAIN documents
      <3>1. DeleteByFile(p) = {c \in chunks : c.id \notin documents[p].ids}
        BY <1>5, <2>3 DEF DeleteByFile
      <3>2. ASSUME NEW c \in chunks
            PROVE  c.id \in documents[p].ids <=> c.path = p
        <4>1. CASE c.path = p
          <5>1. c \in ChunksFor(p, documents[p].content)
            BY <2>1, <2>3, <4>1 DEF InDocument, ChunksIn
          <5> QED
            BY <2>1, <2>3, <4>1, <5>1 DEF InDocument, ChunksFor
        <4>2. CASE c.path # p
          <5>1. c.id[1] = c.path
            BY DEF StoreInv, StoreTypes, WellNamed
          <5> QED
            BY <2>1, <2>3, <4>2, <5>1 DEF InDocument
        <4> QED
          BY <4>1, <4>2
      <3> QED
        BY <1>3, <3>1, <3>2 DEF ChunksIn
    <2> QED
      BY <2>2, <2>3
  <1> QED
    BY <1>4, <1>5

LEMMA SaveEffect ==
    ASSUME StoreInv, NEW p \in StoredPath, NEW new \in Contents[p], ChunksIn(chunks, p) = {}
    PROVE  LET all == SaveChunks(ChunksFor(p, new))
           IN  /\ WellNamed(all)
               /\ \A q \in StoredPath :
                     ChunksIn(all, q) = IF q = p THEN ChunksFor(p, new) ELSE ChunksIn(chunks, q)
  <1> DEFINE add == ChunksFor(p, new)
             all == SaveChunks(add)
  <1>1. WellNamed(add) /\ WellNamed(chunks) /\ \A n \in add : n.path = p
    BY FileChunks DEF StoreInv, StoreTypes
  <1>2. all \subseteq chunks \union add
    BY DEF SaveChunks
  <1>3. WellNamed(all)
    BY <1>1, <1>2, FS_Union, FS_Subset DEF WellNamed
  <1>4. ASSUME NEW c \in chunks
        PROVE  c.path # p /\ \A n \in add : c.id # n.id
    <2>1. c.path # p
      BY DEF ChunksIn
    <2>2. c.id[1] = c.path /\ \A n \in add : n.id[1] = p
      BY <1>1 DEF WellNamed
    <2> QED
      BY <2>1, <2>2
  <1>5. all = chunks \union add
    BY <1>4 DEF SaveChunks
  <1>6. ASSUME NEW q \in StoredPath
        PROVE  ChunksIn(all, q) = IF q = p THEN add ELSE ChunksIn(chunks, q)
    BY <1>1, <1>4, <1>5 DEF ChunksIn
  <1> QED
    BY <1>3, <1>6

\* A file that keeps its chunks and its document, and is hurt if it was.
LEMMA FileStays ==
    ASSUME NEW p, NEW all, NEW docs, NEW failed, NEW all2, NEW docs2, NEW failed2,
           ChunksIn(all2, p) = ChunksIn(all, p),
           p \in DOMAIN docs2 <=> p \in DOMAIN docs, docs2[p] = docs[p],
           p \in failed => p \in failed2
    PROVE  /\ WholeFile(all, docs, failed, p) => WholeFile(all2, docs2, failed2, p)
           /\ InDocument(all, docs, p) => InDocument(all2, docs2, p)
  BY DEF WholeFile, InDocument

----------------------------------------------------------------------------
\* Steps.
LEMMA AtRest ==
    ASSUME StoreInv, job = Resting
    PROVE  /\ \A p \in StoredPath : /\ WholeFile(chunks, documents, hurt, p)
                                    /\ backend = "gob" => InDocument(chunks, documents, p)
           /\ backend = "gob" => Loadable(Snapshot)
  <1>1. job.path \notin StoredPath
    BY StoreAssumption DEF Resting
  <1>2. \A p \in StoredPath : /\ WholeFile(chunks, documents, hurt, p)
                              /\ backend = "gob" => InDocument(chunks, documents, p)
    BY <1>1 DEF StoreInv, JobInv
  <1>3. Snapshot.chunks = chunks /\ Snapshot.documents = documents /\ Snapshot.hurt = hurt
    BY DEF Snapshot
  <1>4. WellNamed(chunks) /\ DOMAIN documents \subseteq StoredPath
    BY DEF StoreInv, StoreTypes
  <1> QED
    BY <1>2, <1>3, <1>4 DEF Loadable

Starts(p) == job = Resting /\ job' = JobFor(p)
Erases(p) == job = Resting /\ job' = [step |-> "erase", path |-> p, content |-> NoFile]

\* A job is taken up.
LEMMA TakesUp ==
    ASSUME StoreInv, NEW p \in StoredPath, Starts(p) \/ Erases(p),
           UNCHANGED <<backend, chunks, documents, kept, reader, file, hurt>>
    PROVE  StoreInv'
  <1>1. /\ job'.path = p /\ job'.step \in {"clear", "erase"}
        /\ \/ /\ job' \in [step : {"clear", "save", "note"}, path : StoredPath,
                            content : UNION {Contents[q] : q \in StoredPath}]
              /\ job'.content \in Contents[job'.path]
           \/ job' \in [step : {"erase", "forget"}, path : StoredPath, content : {NoFile}]
    <2>1. file[p] \in Contents[p] \union {NoFile}
      BY DEF StoreInv, StoreTypes
    <2> QED
      BY <2>1 DEF Starts, Erases, JobFor
  <1>2. StoreTypes'
    BY <1>1 DEF StoreInv, StoreTypes, WellNamed
  <1>3. JobInv'
    <2>1. \A q \in StoredPath : /\ WholeFile(chunks, documents, hurt, q)
                                /\ backend = "gob" => InDocument(chunks, documents, q)
      BY AtRest DEF Starts, Erases
    <2>2. \A q \in StoredPath : /\ WholeFile(chunks, documents, hurt, q)'
                                /\ (backend = "gob" => InDocument(chunks, documents, q))'
      BY <2>1 DEF WholeFile, InDocument, ChunksIn
    <2>3. job'.path \in StoredPath
      BY <1>1
    <2>4. (backend = "gob" /\ job.path \in DOMAIN documents =>
             documents[job.path].ids = {<<job.path, i>> : i \in DOMAIN documents[job.path].content})'
      BY <2>1, <2>3 DEF InDocument
    <2> QED
      BY <1>1, <2>2, <2>3, <2>4 DEF JobInv
  <1> QED
    BY <1>2, <1>3 DEF StoreInv, FilesInv, Loadable, WellNamed

\* A job is given up, or ends with no chunks to save; its file counts as hurt.
LEMMA AbandonsJob ==
    ASSUME StoreInv, job' = Resting, hurt' = hurt \union ({job.path} \intersect StoredPath),
           backend = "gob" => job = Resting \/ job.step = "save",
           UNCHANGED <<backend, chunks, documents, kept, reader, file>>
    PROVE  StoreInv'
  <1>1. StoreTypes'
    BY DEF StoreInv, StoreTypes, WellNamed
  <1>2. ASSUME NEW p \in StoredPath
        PROVE  WholeFile(chunks, documents, hurt', p)
    <2>1. CASE p = job.path
      <3>1. p \in hurt'
        BY <2>1
      <3> QED
        BY <3>1, Unhurt DEF WholeFile
    <2>2. CASE p # job.path
      <3>1. WholeFile(chunks, documents, hurt, p)
        BY <2>2 DEF StoreInv, JobInv
      <3> QED
        BY <3>1 DEF WholeFile
    <2> QED
      BY <2>1, <2>2
  <1>3. ASSUME NEW p \in StoredPath, backend = "gob"
        PROVE  InDocument(chunks, documents, p)
    <2>1. CASE p = job.path
      <3>1. job.step = "save"
        BY <1>3, <2>1, StoreAssumption DEF Resting
      <3> QED
        BY <1>3, <2>1, <3>1 DEF StoreInv, JobInv, InDocument
    <2>2. CASE p # job.path
      BY <1>3, <2>2 DEF StoreInv, JobInv
    <2> QED
      BY <2>1, <2>2
  <1>4. JobInv'
    <2>1. job'.path \notin StoredPath /\ job'.step = "none" /\ DOMAIN documents \subseteq StoredPath
      BY StoreAssumption DEF Resting, StoreInv, StoreTypes
    <2> QED
      BY <1>2, <1>3, <2>1 DEF JobInv, WholeFile, InDocument
  <1> QED
    BY <1>1, <1>4 DEF StoreInv, FilesInv, Loadable, WellNamed

\* A step that leaves the job, its file and its store alone, or only edits a file.
LEMMA Aside ==
    ASSUME StoreInv, UNCHANGED <<backend, chunks, documents, job, hurt>>,
           DOMAIN file' = StoredPath,
           \A p \in StoredPath : file'[p] \in Contents[p] \union {NoFile},
           FilesInv', backend # "gob" => reader' = NoSnapshot
    PROVE  StoreInv'
  <1>1. StoreTypes'
    BY DEF StoreInv, StoreTypes, WellNamed
  <1>2. JobInv'
    BY DEF StoreInv, JobInv, WholeFile, InDocument, ChunksIn
  <1>3. NoSnapshot' = NoSnapshot
    BY DEF NoSnapshot
  <1> QED
    BY <1>1, <1>2, <1>3 DEF StoreInv

\* A job empties its file.
LEMMA Empties ==
    ASSUME StoreInv, Clear \/ Erase
    PROVE  StoreInv'
  <1> DEFINE p == job.path
  <1>1. /\ job.step \in {"clear", "erase"} /\ p \in StoredPath
        /\ job' = [job EXCEPT !.step = IF job.step = "clear" THEN "save" ELSE "forget"]
        /\ job'.path = p /\ job'.step \in {"save", "forget"}
        /\ chunks' = DeleteByFile(p)
        /\ UNCHANGED <<backend, documents, kept, reader, file, hurt>>
    <2>1. job # Resting
      BY DEF Clear, Erase, Resting
    <2> QED
      BY <2>1 DEF Clear, Erase, StoreInv, StoreTypes, commandVars
  <1>2. /\ WellNamed(chunks')
        /\ \A q \in StoredPath :
              ChunksIn(chunks', q) = IF q = p THEN {} ELSE ChunksIn(chunks, q)
    BY <1>1, DeleteEffect
  <1>3. StoreTypes'
    BY <1>1, <1>2 DEF StoreInv, StoreTypes, Resting, WellNamed
  <1>4. ASSUME NEW q \in StoredPath \ {p}
        PROVE  /\ WholeFile(chunks', documents', hurt', q)
               /\ backend = "gob" => InDocument(chunks', documents', q)
    <2>1. /\ WholeFile(chunks, documents, hurt, q)
          /\ backend = "gob" => InDocument(chunks, documents, q)
      BY DEF StoreInv, JobInv
    <2> QED
      BY <1>1, <1>2, <2>1 DEF WholeFile, InDocument
  <1>5. backend = "gob" /\ p \in DOMAIN documents =>
            documents[p].ids = {<<p, i>> : i \in DOMAIN documents[p].content}
    BY DEF StoreInv, JobInv
  <1>6. JobInv'
    BY <1>1, <1>2, <1>4, <1>5 DEF JobInv
  <1> QED
    BY <1>1, <1>3, <1>6 DEF StoreInv, FilesInv, Loadable, WellNamed, NoSnapshot, WholeFile, InDocument, ChunksIn

\* A job writes the chunks of its file.
LEMMA Writes ==
    ASSUME StoreInv, Save
    PROVE  StoreInv'
  <1> DEFINE p == job.path
             new == job.content
  <1>1. job # Resting
    BY DEF Save, Resting
  <1>2. p \in StoredPath /\ new \in Contents[p] /\ ChunksIn(chunks, p) = {}
    BY <1>1 DEF Save, StoreInv, StoreTypes, JobInv
  <1>3. /\ job' = [job EXCEPT !.step = "note"]
        /\ job'.path = p /\ job'.step = "note" /\ job'.content = new
        /\ chunks' = SaveChunks(ChunksFor(p, new))
        /\ UNCHANGED <<backend, documents, kept, reader, file, hurt>>
    BY <1>1 DEF Save, StoreInv, StoreTypes, commandVars
  <1>4. /\ WellNamed(chunks')
        /\ \A q \in StoredPath :
              ChunksIn(chunks', q) = IF q = p THEN ChunksFor(p, new) ELSE ChunksIn(chunks, q)
    BY <1>2, <1>3, SaveEffect
  <1>5. StoreTypes'
    BY <1>1, <1>2, <1>3, <1>4 DEF Save, StoreInv, StoreTypes, WellNamed
  <1>6. ASSUME NEW q \in StoredPath \ {p}
        PROVE  /\ WholeFile(chunks', documents', hurt', q)
               /\ backend = "gob" => InDocument(chunks', documents', q)
    <2>1. /\ WholeFile(chunks, documents, hurt, q)
          /\ backend = "gob" => InDocument(chunks, documents, q)
      BY DEF StoreInv, JobInv
    <2> QED
      BY <1>3, <1>4, <2>1 DEF WholeFile, InDocument
  <1>7. backend = "gob" /\ p \in DOMAIN documents =>
            documents[p].ids = {<<p, i>> : i \in DOMAIN documents[p].content}
    BY DEF StoreInv, JobInv
  <1>8. JobInv'
    BY <1>2, <1>3, <1>4, <1>6, <1>7 DEF JobInv
  <1> QED
    BY <1>3, <1>5, <1>8 DEF StoreInv, FilesInv, Loadable, WellNamed, NoSnapshot, WholeFile, InDocument, ChunksIn

\* A job ends with its file's document written, or removed.
LEMMA EndsJob ==
    ASSUME StoreInv, Note \/ Forget
    PROVE  StoreInv'
  <1> DEFINE p == job.path
             new == job.content
  <1>1. job # Resting
    BY DEF Note, Forget, Resting
  <1>2. /\ p \in StoredPath /\ job.step \in {"note", "forget"}
        /\ job' = Resting /\ hurt' = hurt \ {p}
        /\ UNCHANGED <<backend, chunks, kept, reader, file>>
    BY <1>1 DEF Note, Forget, StoreInv, StoreTypes, commandVars
  <1>3. /\ DOMAIN documents' \subseteq StoredPath
        /\ backend = "qdrant" => DOMAIN documents' = {}
        /\ \A q \in StoredPath \ {p} :
              /\ q \in DOMAIN documents' <=> q \in DOMAIN documents
              /\ q \in DOMAIN documents => documents'[q] = documents[q]
    BY <1>2 DEF StoreInv, StoreTypes, Note, Forget, SaveDocument, DeleteDocument, With, Without
  <1>4. StoreTypes'
    BY <1>2, <1>3 DEF StoreInv, StoreTypes, WellNamed
  <1>5. ASSUME NEW q \in StoredPath \ {p}
        PROVE  /\ WholeFile(chunks, documents', hurt', q)
               /\ backend = "gob" => InDocument(chunks, documents', q)
    <2>1. /\ WholeFile(chunks, documents, hurt, q)
          /\ backend = "gob" => InDocument(chunks, documents, q)
      BY DEF StoreInv, JobInv
    <2> QED
      BY <1>2, <1>3, <2>1 DEF WholeFile, InDocument
  <1>6. /\ WholeFile(chunks, documents', hurt', p)
        /\ backend = "gob" => InDocument(chunks, documents', p)
    <2>1. CASE job.step = "note"
      <3>1. new \in Contents[p] /\ ChunksIn(chunks, p) = ChunksFor(p, new)
        BY <1>1, <2>1 DEF StoreInv, StoreTypes, JobInv
      <3>2. documents' = SaveDocument(p, new)
        BY <2>1 DEF Note, Forget
      <3>3. CASE backend = "qdrant"
        BY <1>3, <3>1, <3>3 DEF WholeFile
      <3>4. CASE backend # "qdrant"
        <4>1. p \in DOMAIN documents'
              /\ documents'[p] = [content |-> new, ids |-> {<<p, i>> : i \in DOMAIN new}]
          BY <3>2, <3>4 DEF SaveDocument, With
        <4> QED
          BY <3>1, <4>1 DEF WholeFile, InDocument
      <3> QED
        BY <3>3, <3>4
    <2>2. CASE job.step = "forget"
      <3>1. ChunksIn(chunks, p) = {}
        BY <2>2 DEF StoreInv, JobInv
      <3>2. p \notin DOMAIN documents'
        BY <1>3, <2>2 DEF Note, Forget, DeleteDocument, Without
      <3> QED
        BY <3>1, <3>2 DEF WholeFile, InDocument
    <2> QED
      BY <1>2, <2>1, <2>2
  <1>7. JobInv'
    <2>1. job'.path \notin StoredPath /\ job'.step = "none"
      BY <1>2, StoreAssumption DEF Resting
    <2>2. \A q \in StoredPath : /\ WholeFile(chunks', documents', hurt', q)
                                /\ backend' = "gob" => InDocument(chunks', documents', q)
      BY <1>2, <1>5, <1>6
    <2> QED
      BY <1>3, <2>1, <2>2 DEF JobInv
  <1> QED
    BY <1>2, <1>4, <1>7 DEF StoreInv, FilesInv, Loadable, WellNamed, NoSnapshot, WholeFile, InDocument, ChunksIn

\* The daemon is stopped and started; the file store loads its index file.
LEMMA StartsAgain ==
    ASSUME StoreInv, Restart
    PROVE  StoreInv'
  <1>1. CASE backend # "gob"
    BY <1>1, AbandonsJob DEF Restart, commandVars
  <1>2. CASE backend = "gob"
    <2>1. /\ job' = Resting /\ chunks' = kept.chunks /\ documents' = kept.documents
          /\ hurt' = kept.hurt /\ UNCHANGED <<backend, kept, reader, file>>
          /\ Loadable(kept)
      BY <1>2 DEF Restart, commandVars, StoreInv, FilesInv
    <2>2. StoreTypes'
      BY <1>2, <2>1 DEF StoreInv, StoreTypes, Loadable, WellNamed
    <2>3. JobInv'
      <3>1. job'.path \notin StoredPath /\ job'.step = "none"
            /\ DOMAIN documents' \subseteq StoredPath
        BY <2>1, StoreAssumption DEF Resting, Loadable
      <3>2. \A q \in StoredPath : /\ WholeFile(chunks', documents', hurt', q)
                                  /\ InDocument(chunks', documents', q)
        BY <2>1 DEF Loadable
      <3> QED
        BY <1>2, <3>1, <3>2 DEF JobInv
    <2> QED
      BY <1>2, <2>1, <2>2, <2>3
         DEF StoreInv, FilesInv, Loadable, WellNamed, NoSnapshot, WholeFile, InDocument, ChunksIn
  <1> QED
    BY <1>1, <1>2

\* Steps of the indexer's scan, of an editor and of a command: none of them writes
\* to the store.
LEMMA WritesNothing ==
    ASSUME StoreInv,
           \/ \E p \in StoredPath : EditFile(p) \/ Event(p) \/ Visit(p) \/ RemoveUnseen(p)
           \/ BeginScan \/ EndScan \/ Persist \/ LoadStore \/ CloseStore
    PROVE  StoreInv'
  <1> USE DEF commandVars
  <1>1. (UNCHANGED <<kept, reader, backend>> => FilesInv' /\ (backend # "gob" => reader' = NoSnapshot))
        /\ NoSnapshot' = NoSnapshot
    BY DEF StoreInv, FilesInv, Loadable, WellNamed, WholeFile, InDocument, ChunksIn, NoSnapshot
  <1>2. DOMAIN file = StoredPath /\ \A p \in StoredPath : file[p] \in Contents[p] \union {NoFile}
    BY DEF StoreInv, StoreTypes
  <1>3. ASSUME NEW p \in StoredPath, EditFile(p)
        PROVE  StoreInv'
    <2>1. PICK new \in Contents[p] \union {NoFile} : file' = [file EXCEPT ![p] = new]
      BY <1>3 DEF EditFile
    <2>2. DOMAIN file' = StoredPath /\ \A q \in StoredPath : file'[q] \in Contents[q] \union {NoFile}
      BY <1>2, <2>1
    <2>3. UNCHANGED <<backend, chunks, documents, job, hurt, kept, reader>>
      BY <1>3 DEF EditFile
    <2> QED
      BY <1>1, <2>2, <2>3, Aside
  <1>4. ASSUME NEW p \in StoredPath, Event(p) \/ RemoveUnseen(p)
        PROVE  StoreInv'
    <2>1. /\ Starts(p) \/ Erases(p)
          /\ UNCHANGED <<backend, chunks, documents, kept, reader, file, hurt>>
      BY <1>4 DEF Event, RemoveUnseen, Starts, Erases
    <2> QED
      BY <2>1, TakesUp
  <1>5. ASSUME NEW p \in StoredPath, Visit(p)
        PROVE  StoreInv'
    <2>1. UNCHANGED <<backend, chunks, documents, kept, reader, file, hurt>> /\ job = Resting
      BY <1>5 DEF Visit
    <2>2. CASE job' = Resting
      BY <1>1, <1>2, <2>1, <2>2, Aside
    <2>3. CASE job' # Resting
      <3>1. Starts(p)
        BY <1>5, <2>3 DEF Visit, Starts
      <3> QED
        BY <2>1, <3>1, TakesUp
    <2> QED
      BY <2>2, <2>3
  <1>6. CASE BeginScan \/ EndScan
    BY <1>1, <1>2, <1>6, Aside DEF BeginScan, EndScan
  <1>7. CASE Persist \/ LoadStore \/ CloseStore
    <2>1. UNCHANGED <<backend, chunks, documents, job, hurt, file>>
      BY <1>7 DEF Persist, LoadStore, CloseStore
    <2>2. backend = "gob"
      BY <1>7 DEF Persist, LoadStore, CloseStore, StoreInv
    <2>3. Loadable(kept) /\ (reader # NoSnapshot => Loadable(reader))
      BY <2>2 DEF StoreInv, FilesInv
    <2>4. Persist => Loadable(Snapshot)
      BY AtRest DEF Persist
    <2>5. Loadable(kept') /\ (reader' # NoSnapshot => Loadable(reader'))
      BY <1>7, <2>3, <2>4 DEF Persist, LoadStore, CloseStore
    <2>6. FilesInv'
      BY <1>1, <2>5 DEF FilesInv, Loadable, WellNamed, WholeFile, InDocument, ChunksIn
    <2> QED
      BY <1>2, <2>1, <2>2, <2>6, Aside
  <1> QED
    BY <1>3, <1>4, <1>5, <1>6, <1>7

LEMMA StoreStep == StoreInv /\ [StoreNext]_storeVars => StoreInv'
  <1> SUFFICES ASSUME StoreInv, [StoreNext]_storeVars
               PROVE  StoreInv'
    OBVIOUS
  <1>1. CASE SaveNothing \/ Fails
    <2>1. job # Resting
      BY <1>1 DEF SaveNothing, Fails, Resting
    <2>2. job.path \in StoredPath
      BY <2>1 DEF StoreInv, StoreTypes
    <2> QED
      BY <1>1, <2>2, AbandonsJob DEF SaveNothing, Fails, commandVars
  <1>2. CASE UNCHANGED storeVars
    BY <1>2 DEF storeVars, StoreInv, StoreTypes, JobInv, FilesInv, Loadable, WellNamed,
                WholeFile, InDocument, ChunksIn, NoSnapshot
  <1> QED
    BY <1>1, <1>2, Empties, Writes, EndsJob, StartsAgain, WritesNothing DEF StoreNext

----------------------------------------------------------------------------
(***************************************************************************)
(* Order.  A finite set with a linear order has a first member, a second   *)
(* one and so on to a last: there are as many below a member as its place. *)
(***************************************************************************)
Linear(S, order) ==
    /\ \A x \in S : <<x, x>> \in order
    /\ \A x, y \in S : <<x, y>> \in order \/ <<y, x>> \in order
    /\ \A x, y \in S : <<x, y>> \in order /\ <<y, x>> \in order => x = y
    /\ \A x, y, z \in S : <<x, y>> \in order /\ <<y, z>> \in order => <<x, z>> \in order

LEMMA NthIs ==
    ASSUME NEW S, NEW order, IsFiniteSet(S), Linear(S, order)
    PROVE  /\ Cardinality(S) \in Nat
           /\ [k \in 1..Cardinality(S) |-> Nth(S, order, k)] \in Bijection(1..Cardinality(S), S)
           /\ \A k \in 1..Cardinality(S) : Nth(S, order, k) \in S
           /\ \A x \in S : \E k \in 1..Cardinality(S) : Nth(S, order, k) = x
           /\ \A k, l \in 1..Cardinality(S) :
                 k < l => /\ Nth(S, order, k) # Nth(S, order, l)
                          /\ <<Nth(S, order, k), Nth(S, order, l)>> \in order
  <1> DEFINE n == Cardinality(S)
             below(x) == {y \in S : <<y, x>> \in order}
             place(x) == Cardinality(below(x))
             rank == [x \in S |-> place(x)]
             nth(k) == Nth(S, order, k)
  <1>1. n \in Nat
    BY FS_CardinalityType
  <1>2. ASSUME NEW x \in S
        PROVE  /\ IsFiniteSet(below(x)) /\ place(x) \in 1..n /\ x \in below(x)
    <2>1. below(x) \in SUBSET S /\ x \in below(x)
      BY DEF Linear
    <2>2. IsFiniteSet(below(x)) /\ place(x) <= n
      BY <2>1, FS_Subset
    <2>3. place(x) \in Nat /\ place(x) # 0
      BY <2>1, <2>2, FS_CardinalityType, FS_EmptySet
    <2> QED
      BY <1>1, <2>1, <2>2, <2>3
  <1>3. ASSUME NEW x \in S, NEW y \in S, x # y, <<x, y>> \in order
        PROVE  place(x) < place(y)
    <2>1. below(x) \in SUBSET below(y) /\ y \in below(y) /\ y \notin below(x)
      BY <1>3, <1>2 DEF Linear
    <2>2. place(x) <= place(y) /\ place(x) # place(y)
      BY <1>2, <2>1, FS_Subset
    <2> HIDE DEF below
    <2> QED
      BY <1>2, <2>2
  <1> HIDE DEF place, below, n
  <1>4. ASSUME NEW x \in S, NEW y \in S, place(x) = place(y)
        PROVE  x = y
    <2>1. <<x, y>> \in order \/ <<y, x>> \in order
      BY DEF Linear
    <2> QED
      BY <1>2, <1>3, <1>4, <2>1
  <1>5. rank \in Injection(S, 1..n)
    <2>1. rank \in [S -> 1..n]
      BY <1>2
    <2> QED
      BY <1>4, <2>1, Fun_IsInj
  <1>6. rank \in Surjection(S, 1..n)
    <2>1. IsFiniteSet(1..n) /\ Cardinality(1..n) = n
      BY <1>1, UpTo
    <2> QED
      BY <1>5, <2>1, FS_Injection DEF n
  <1>7. ASSUME NEW k \in 1..n
        PROVE  nth(k) \in S /\ place(nth(k)) = k
    <2>1. \E x \in S : place(x) = k
      <3>1. \E x \in S : rank[x] = k
        BY <1>6 DEF Surjection
      <3> QED
        BY <3>1
    <2> QED
      BY <2>1 DEF Nth, place, below
  <1> HIDE DEF nth
  <1>8. ASSUME NEW x \in S
        PROVE  \E k \in 1..n : nth(k) = x
    BY <1>2, <1>4, <1>7
  <1>9. ASSUME NEW k \in 1..n, NEW l \in 1..n, k < l
        PROVE  nth(k) # nth(l) /\ <<nth(k), nth(l)>> \in order
    <2>1. nth(k) \in S /\ nth(l) \in S /\ nth(k) # nth(l)
      BY <1>7, <1>9
    <2>2. CASE <<nth(l), nth(k)>> \in order
      <3>1. place(nth(l)) < place(nth(k))
        BY <1>3, <2>1, <2>2
      <3> QED
        BY <1>7, <1>9, <3>1
    <2> QED
      BY <2>1, <2>2 DEF Linear
  <1>10. [k \in 1..n |-> nth(k)] \in Bijection(1..n, S)
    <2> DEFINE f == [k \in 1..n |-> nth(k)]
    <2>1. f \in [1..n -> S] /\ \A k, l \in 1..n : f[k] = f[l] => k = l
      BY <1>7
    <2>2. \A x \in S : \E k \in 1..n : f[k] = x
      BY <1>8
    <2> QED
      BY <2>1, <2>2, Fun_IsBij
  <1> QED
    BY <1>1, <1>7, <1>8, <1>9, <1>10 DEF n, nth

----------------------------------------------------------------------------
(***************************************************************************)
(* Lists of results.                                                       *)
(***************************************************************************)
Result(C) == [chunk : C, value : Int]
Descends(list) == \A i, j \in DOMAIN list : i < j => list[i].value >= list[j].value
Once(list) == \A i, j \in DOMAIN list : i < j => list[i].chunk # list[j].chunk
ChunksOf(list) == {list[i].chunk : i \in DOMAIN list}
Least(m, n) == IF m < n THEN m ELSE n

LEMMA AtMostIsLinear ==
    ASSUME NEW S \in SUBSET Int
    PROVE  Linear(S, AtMost(S))
  BY DEF Linear, AtMost

LEMMA BetterIsLinear ==
    ASSUME NEW C, NEW list \in Seq(Result(C))
    PROVE  Linear(DOMAIN list, Better(list))
  <1>1. \A i \in DOMAIN list : i \in Int /\ list[i].value \in Int
    <2>1. Len(list) \in Nat /\ DOMAIN list = 1..Len(list) /\ \A i \in 1..Len(list) : list[i] \in Result(C)
      BY ListIs
    <2>2. \A x \in Result(C) : x.value \in Int
      BY DEF Result
    <2> QED
      BY <2>1, <2>2
  <1>2. \A i, j \in DOMAIN list : <<i, j>> \in Better(list) <=>
            \/ list[i].value > list[j].value
            \/ list[i].value = list[j].value /\ i <= j
    BY DEF Better
  <1> QED
    BY <1>1, <1>2 DEF Linear

LEMMA SortedIs ==
    ASSUME NEW C, NEW list \in Seq(Result(C))
    PROVE  /\ Sorted(list) \in Seq(Result(C)) /\ Len(Sorted(list)) = Len(list)
           /\ Descends(Sorted(list)) /\ ChunksOf(Sorted(list)) = ChunksOf(list)
           /\ Members(Sorted(list)) = Members(list)
           /\ Once(list) => Once(Sorted(list))
  <1> DEFINE n == Len(list)
             nth(k) == Nth(DOMAIN list, Better(list), k)
             s == Sorted(list)
  <1>0. n \in Nat /\ DOMAIN list = 1..n
    BY LenProperties
  <1>1. IsFiniteSet(DOMAIN list) /\ Cardinality(DOMAIN list) = n
    BY <1>0, UpTo
  <1>2. /\ \A k \in 1..n : nth(k) \in 1..n
        /\ \A i \in 1..n : \E k \in 1..n : nth(k) = i
        /\ \A k, l \in 1..n : k < l => nth(k) # nth(l) /\ <<nth(k), nth(l)>> \in Better(list)
    <2>1. Linear(DOMAIN list, Better(list))
      BY BetterIsLinear
    <2> QED
      <3> DEFINE S == DOMAIN list
                 order == Better(list)
      <3>1. IsFiniteSet(S) /\ Linear(S, order) /\ Cardinality(S) = n /\ S = 1..n
        BY <1>0, <1>1, <2>1
      <3>2. \A k : nth(k) = Nth(S, order, k)
        OBVIOUS
      <3> HIDE DEF S, order, nth, n
      <3>3. /\ \A k \in 1..Cardinality(S) : Nth(S, order, k) \in S
            /\ \A x \in S : \E k \in 1..Cardinality(S) : Nth(S, order, k) = x
            /\ \A k, l \in 1..Cardinality(S) :
                  k < l => /\ Nth(S, order, k) # Nth(S, order, l)
                           /\ <<Nth(S, order, k), Nth(S, order, l)>> \in order
        BY <3>1, NthIs
      <3> QED
        BY <3>1, <3>2, <3>3, Zenon DEF order
  <1>3. s = [k \in 1..n |-> list[nth(k)]]
    BY <1>0 DEF Sorted
  <1> HIDE DEF nth, s
  <1>4. \A i \in 1..n : list[i] \in Result(C)
    BY <1>0, ElementOfSeq
  <1>5. s \in [1..n -> Result(C)]
    BY <1>2, <1>3, <1>4
  <1>6. s \in Seq(Result(C)) /\ Len(s) = n /\ DOMAIN s = 1..n
    BY <1>0, <1>5
  <1>7. Descends(s)
    <2>1. \A k, l \in 1..n : k < l => list[nth(k)].value >= list[nth(l)].value
      <3>1. \A i, j \in 1..n : <<i, j>> \in Better(list) => list[i].value >= list[j].value
        <4>1. \A i \in 1..n : list[i].value \in Int
          BY <1>4 DEF Result
        <4> QED
          BY <1>0, <4>1 DEF Better
      <3> QED
        BY <1>2, <3>1
    <2> QED
      BY <1>3, <1>6, <2>1 DEF Descends
  <1>8. ChunksOf(s) = ChunksOf(list)
    <2>1. \A i \in 1..n : \E k \in 1..n : s[k] = list[i]
      BY <1>2, <1>3
    <2>2. \A k \in 1..n : \E i \in 1..n : s[k] = list[i]
      BY <1>2, <1>3
    <2> QED
      <3>1. ChunksOf(s) = {s[k].chunk : k \in 1..n} /\ ChunksOf(list) = {list[i].chunk : i \in 1..n}
        BY <1>0, <1>6 DEF ChunksOf
      <3> HIDE DEF n
      <3>2. \A c \in {s[k].chunk : k \in 1..n} : c \in {list[i].chunk : i \in 1..n}
        BY <2>2
      <3>3. \A c \in {list[i].chunk : i \in 1..n} : c \in {s[k].chunk : k \in 1..n}
        BY <2>1
      <3> QED
        BY <3>1, <3>2, <3>3
  <1>10. Members(s) = Members(list)
    <2>1. \A i \in 1..n : \E k \in 1..n : s[k] = list[i]
      BY <1>2, <1>3
    <2>2. \A k \in 1..n : \E i \in 1..n : s[k] = list[i]
      BY <1>2, <1>3
    <2>3. Members(s) = {s[k] : k \in 1..n} /\ Members(list) = {list[i] : i \in 1..n}
      BY <1>0, <1>6 DEF Members
    <2> HIDE DEF n
    <2>4. \A x \in {s[k] : k \in 1..n} : x \in {list[i] : i \in 1..n}
      BY <2>2
    <2>5. \A x \in {list[i] : i \in 1..n} : x \in {s[k] : k \in 1..n}
      BY <2>1
    <2> QED
      BY <2>3, <2>4, <2>5
  <1>9. ASSUME Once(list)
        PROVE  Once(s)
    <2>1. ASSUME NEW i \in 1..n, NEW j \in 1..n, i # j
          PROVE  list[i].chunk # list[j].chunk
      BY <1>0, <1>9, <2>1 DEF Once
    <2>2. ASSUME NEW k \in 1..n, NEW l \in 1..n, k < l
          PROVE  s[k].chunk # s[l].chunk
      <3>1. nth(k) \in 1..n /\ nth(l) \in 1..n /\ nth(k) # nth(l)
        BY <1>2, <2>2
      <3> QED
        BY <1>3, <2>1, <3>1
    <2> QED
      BY <1>6, <2>2 DEF Once
  <1> QED
    BY <1>6, <1>7, <1>8, <1>9, <1>10 DEF s

\* A part of a list, in the list's order.
LEMMA OnlyIs ==
    ASSUME NEW R, NEW list \in Seq(R), NEW places \in SUBSET DOMAIN list
    PROVE  /\ Only(list, places) \in Seq(R) /\ Len(Only(list, places)) = Cardinality(places)
           /\ Cardinality(places) \in 0..Len(list)
           /\ \E e \in [1..Cardinality(places) -> places] :
                /\ \A k \in 1..Cardinality(places) : Only(list, places)[k] = list[e[k]]
                /\ \A k, l \in 1..Cardinality(places) : k < l => e[k] < e[l]
                /\ \A i \in places : \E k \in 1..Cardinality(places) : e[k] = i
  <1> DEFINE n == Cardinality(places)
             nth(k) == Nth(places, AtMost(places), k)
             o == Only(list, places)
  <1>0. Len(list) \in Nat /\ DOMAIN list = 1..Len(list)
    BY LenProperties
  <1>1. /\ Len(list) \in Nat /\ DOMAIN list = 1..Len(list)
        /\ IsFiniteSet(1..Len(list)) /\ Cardinality(1..Len(list)) = Len(list)
    BY <1>0, UpTo
  <1>2. places \in SUBSET (1..Len(list)) /\ places \in SUBSET Int
    BY <1>1
  <1>3. IsFiniteSet(places) /\ n \in 0..Len(list)
    <2>1. IsFiniteSet(places) /\ n <= Len(list)
      BY <1>1, <1>2, FS_Subset
    <2> QED
      BY <1>1, <2>1, FS_CardinalityType
  <1>4. /\ \A k \in 1..n : nth(k) \in places
        /\ \A i \in places : \E k \in 1..n : nth(k) = i
        /\ \A k, l \in 1..n : k < l => nth(k) # nth(l) /\ <<nth(k), nth(l)>> \in AtMost(places)
    BY <1>2, <1>3, AtMostIsLinear, NthIs
  <1>5. o = [k \in 1..n |-> list[nth(k)]]
    BY DEF Only
  <1> HIDE DEF nth, o, n
  <1>6. \A i \in places : list[i] \in R /\ i \in Int
    BY <1>1, <1>2, ElementOfSeq
  <1>7. o \in [1..n -> R]
    BY <1>4, <1>5, <1>6
  <1>8. o \in Seq(R) /\ Len(o) = n /\ DOMAIN o = 1..n
    BY <1>3, <1>7
  <1> DEFINE e == [k \in 1..n |-> nth(k)]
  <1>9. /\ e \in [1..n -> places]
        /\ \A k \in 1..n : o[k] = list[e[k]]
        /\ \A i \in places : \E k \in 1..n : e[k] = i
    BY <1>4, <1>5
  <1>10. \A k, l \in 1..n : k < l => e[k] < e[l]
    <2>1. \A i, j \in places : <<i, j>> \in AtMost(places) => i <= j
      BY DEF AtMost
    <2>2. ASSUME NEW k \in 1..n, NEW l \in 1..n, k < l
          PROVE  nth(k) < nth(l)
      <3>1. /\ nth(k) \in places /\ nth(l) \in places /\ nth(k) # nth(l)
            /\ <<nth(k), nth(l)>> \in AtMost(places)
        BY <1>4, <2>2
      <3>2. nth(k) <= nth(l) /\ nth(k) \in Int /\ nth(l) \in Int
        BY <1>6, <2>1, <3>1
      <3> QED
        BY <3>1, <3>2
    <2> QED
      BY <2>2
  <1> HIDE DEF e
  <1> QED
    BY <1>3, <1>8, <1>9, <1>10 DEF n, o

LEMMA CutIs ==
    ASSUME NEW R, NEW list \in Seq(R), NEW n \in Nat
    PROVE  /\ Cut(list, n) \in Seq(R) /\ Len(Cut(list, n)) = Least(n, Len(list))
           /\ DOMAIN Cut(list, n) = 1..Least(n, Len(list))
           /\ Least(n, Len(list)) \in Nat
           /\ \A i \in 1..Least(n, Len(list)) : Cut(list, n)[i] = list[i] /\ i \in DOMAIN list
  <1>1. Len(list) \in Nat /\ DOMAIN list = 1..Len(list)
    BY LenProperties
  <1> DEFINE m == Least(n, Len(list))
  <1>2. m \in 0..Len(list)
    BY <1>1 DEF Least
  <1>3. Cut(list, n) = SubSeq(list, 1, m)
    BY DEF Cut, Least
  <1>4. \A i \in 1..m : i \in DOMAIN list /\ list[i] \in R
    BY <1>1, <1>2, ElementOfSeq
  <1> HIDE DEF m
  <1>5. /\ SubSeq(list, 1, m) \in Seq(R) /\ Len(SubSeq(list, 1, m)) = m
        /\ \A i \in 1..m : SubSeq(list, 1, m)[i] = list[i]
    BY <1>1, <1>2, <1>4, SubSeqProperties
  <1>6. DOMAIN SubSeq(list, 1, m) = 1..m
    BY <1>5, LenProperties
  <1> QED
    BY <1>1, <1>2, <1>3, <1>4, <1>5, <1>6 DEF m

LEMMA ListedIs ==
    ASSUME NEW set, IsFiniteSet(set)
    PROVE  /\ Cardinality(set) \in Nat
           /\ Listed(set) \in [1..Cardinality(set) -> set]
           /\ \A x \in set : \E i \in 1..Cardinality(set) : Listed(set)[i] = x
           /\ \A i, j \in 1..Cardinality(set) : Listed(set)[i] = Listed(set)[j] => i = j
  <1> DEFINE n == Cardinality(set)
             all(list) == \A x \in set : \E i \in DOMAIN list : list[i] = x
  <1>1. n \in Nat /\ ExistsBijection(1..n, set)
    BY FS_CardinalityType
  <1>2. PICK b \in Bijection(1..n, set) : TRUE
    BY <1>1 DEF ExistsBijection
  <1>3. b \in [1..n -> set] /\ all(b)
    BY <1>2 DEF Bijection, Injection, Surjection
  <1> DEFINE list == Listed(set)
  <1>4. list \in [1..n -> set] /\ all(list)
    BY <1>3 DEF Listed
  <1> HIDE DEF list
  <1>5. list \in Surjection(1..n, set)
    BY <1>4 DEF Surjection
  <1>6. IsFiniteSet(1..n) /\ Cardinality(1..n) = n
    BY <1>1, UpTo
  <1>7. list \in Injection(1..n, set)
    BY <1>5, <1>6, FS_Surjection
  <1>8. \A i, j \in 1..n : list[i] = list[j] => i = j
    BY <1>7, Fun_InjectionProperties
  <1> QED
    BY <1>1, <1>4, <1>8 DEF list

LEMMA RankedIs ==
    ASSUME NEW C, NEW set \in SUBSET Result(C), IsFiniteSet(set),
           \A x, y \in set : x.chunk = y.chunk => x = y
    PROVE  /\ Ranked(set) \in Seq(Result(C)) /\ Len(Ranked(set)) = Cardinality(set)
           /\ Cardinality(set) \in Nat
           /\ ChunksOf(Ranked(set)) = {x.chunk : x \in set} /\ Once(Ranked(set))
           /\ Members(Ranked(set)) = set /\ Descends(Ranked(set))
  <1> DEFINE n == Cardinality(set)
             list == Listed(set)
  <1>1. /\ n \in Nat /\ list \in [1..n -> set]
        /\ \A x \in set : \E i \in 1..n : list[i] = x
        /\ \A i, j \in 1..n : list[i] = list[j] => i = j
    BY ListedIs
  <1> HIDE DEF n, list
  <1>2. list \in Seq(Result(C)) /\ Len(list) = n /\ DOMAIN list = 1..n
    BY <1>1
  <1>3. ChunksOf(list) = {x.chunk : x \in set}
    BY <1>1, <1>2 DEF ChunksOf
  <1>4. Once(list)
    BY <1>1, <1>2 DEF Once
  <1>5. Members(list) = set
    BY <1>1, <1>2 DEF Members
  <1> QED
    BY <1>1, <1>2, <1>3, <1>4, <1>5, SortedIs DEF Ranked, n, list

----------------------------------------------------------------------------
\* Sums and products of a list's numbers are numbers.
LEMMA SumType ==
    ASSUME NEW n \in Nat, NEW f, \A i \in 1..n : f[i] \in Int
    PROVE  SumTo(f, n) \in Int
  <1> DEFINE step == [i \in 1..n |-> [x \in Int |-> x + f[i]]]
             Is(g) == g = [i \in 0..n |-> IF i = 0 THEN 0 ELSE g[i - 1] + f[i]]
             sum == CHOOSE g : Is(g)
  <1>1. step \in [1..n -> [Int -> Int]]
    OBVIOUS
  <1> HIDE DEF step
  <1>2. PICK g \in [0..n -> Int] : Runs(g, 0, step, n)
    <2>1. 0 \in Int
      OBVIOUS
    <2> QED
      BY <1>1, <2>1, Recursion
  <1>3. Is(g)
    <2>1. \A i \in 1..n : g[i - 1] \in Int
      OBVIOUS
    <2>2. \A i \in 1..n : step[i][g[i - 1]] = g[i - 1] + f[i]
      BY <2>1 DEF step
    <2>3. \A i \in 0..n : i # 0 => i \in 1..n
      OBVIOUS
    <2>4. [i \in 0..n |-> IF i = 0 THEN 0 ELSE step[i][g[i - 1]]]
          = [i \in 0..n |-> IF i = 0 THEN 0 ELSE g[i - 1] + f[i]]
      BY <2>2, <2>3
    <2> QED
      BY <1>2, <2>4 DEF Runs
  <1>4. Is(sum)
    <2> HIDE DEF Is
    <2> QED
      BY <1>3
  <1>5. SumTo(f, n) = sum[n]
    BY DEF SumTo
  <1> HIDE DEF sum
  <1>6. \A i \in 0..n : sum[i] = IF i = 0 THEN 0 ELSE sum[i - 1] + f[i]
    BY <1>4
  <1> HIDE DEF Is
  <1> DEFINE T == {i \in 0..n : sum[i] \in Int}
  <1>7. 0 \in T
    BY <1>6
  <1>8. ASSUME NEW i \in 1..n, i - 1 \in T
        PROVE  i \in T
    <2>1. i \in 0..n /\ i # 0 /\ sum[i - 1] \in Int /\ f[i] \in Int
      BY <1>8
    <2> QED
      BY <1>6, <2>1
  <1> HIDE DEF T
  <1>9. \A i \in 0..n : i \in T
    BY <1>7, <1>8, Upwards
  <1> QED
    BY <1>5, <1>9 DEF T

LEMMA ProductType ==
    ASSUME NEW n \in Nat, NEW f, \A i \in 1..n : f[i] \in Int
    PROVE  ProductTo(f, n) \in Int
  <1> DEFINE step == [i \in 1..n |-> [x \in Int |-> x * f[i]]]
             Is(g) == g = [i \in 0..n |-> IF i = 0 THEN 1 ELSE g[i - 1] * f[i]]
             prod == CHOOSE g : Is(g)
  <1>1. step \in [1..n -> [Int -> Int]]
    OBVIOUS
  <1> HIDE DEF step
  <1>2. PICK g \in [0..n -> Int] : Runs(g, 1, step, n)
    <2>1. 1 \in Int
      OBVIOUS
    <2> QED
      BY <1>1, <2>1, Recursion
  <1>3. Is(g)
    <2>1. \A i \in 1..n : g[i - 1] \in Int
      OBVIOUS
    <2>2. \A i \in 1..n : step[i][g[i - 1]] = g[i - 1] * f[i]
      BY <2>1 DEF step
    <2>3. \A i \in 0..n : i # 0 => i \in 1..n
      OBVIOUS
    <2>4. [i \in 0..n |-> IF i = 0 THEN 1 ELSE step[i][g[i - 1]]]
          = [i \in 0..n |-> IF i = 0 THEN 1 ELSE g[i - 1] * f[i]]
      BY <2>2, <2>3
    <2> QED
      BY <1>2, <2>4 DEF Runs
  <1>4. Is(prod)
    <2> HIDE DEF Is
    <2> QED
      BY <1>3
  <1>5. ProductTo(f, n) = prod[n]
    BY DEF ProductTo
  <1> HIDE DEF prod
  <1>6. \A i \in 0..n : prod[i] = IF i = 0 THEN 1 ELSE prod[i - 1] * f[i]
    BY <1>4
  <1> HIDE DEF Is
  <1> DEFINE T == {i \in 0..n : prod[i] \in Int}
  <1>7. 0 \in T
    BY <1>6
  <1>8. ASSUME NEW i \in 1..n, i - 1 \in T
        PROVE  i \in T
    <2>1. i \in 0..n /\ i # 0 /\ prod[i - 1] \in Int /\ f[i] \in Int
      BY <1>8
    <2> QED
      BY <1>6, <2>1
  <1> HIDE DEF T
  <1>9. \A i \in 0..n : i \in T
    BY <1>7, <1>8, Upwards
  <1> QED
    BY <1>5, <1>9 DEF T

----------------------------------------------------------------------------
\* What is cut from a list, or left out of it, keeps its order and its being told once.
LEMMA SeqWithin ==
    ASSUME NEW A, NEW B, NEW list \in Seq(A), \A i \in 1..Len(list) : list[i] \in B
    PROVE  list \in Seq(B)
  <1>1. Len(list) \in Nat /\ list \in [1..Len(list) -> A]
    BY LenProperties
  <1>2. list \in [1..Len(list) -> B]
    BY <1>1
  <1> QED
    BY <1>1, <1>2

LEMMA CutListKeeps ==
    ASSUME NEW C, NEW list \in Seq(Result(C)), NEW n \in Nat
    PROVE  /\ Cut(list, n) \in Seq(Result(C))
           /\ Len(Cut(list, n)) = Least(n, Len(list)) /\ Len(Cut(list, n)) <= n
           /\ Once(list) => Once(Cut(list, n))
           /\ Descends(list) => Descends(Cut(list, n))
  <1> DEFINE cut == Cut(list, n)
             m == Least(n, Len(list))
  <1>1. /\ cut \in Seq(Result(C)) /\ Len(cut) = m /\ DOMAIN cut = 1..m /\ m \in Nat
        /\ \A i \in 1..m : cut[i] = list[i] /\ i \in DOMAIN list
    BY CutIs
  <1>2. m <= n
    <2>1. Len(list) \in Nat
      BY ListIs
    <2> QED
      BY <2>1 DEF Least
  <1> HIDE DEF cut, m
  <1>3. Once(list) => Once(cut)
    BY <1>1 DEF Once
  <1>4. Descends(list) => Descends(cut)
    BY <1>1 DEF Descends
  <1> QED
    BY <1>1, <1>2, <1>3, <1>4 DEF cut, m

LEMMA OnlyKeeps ==
    ASSUME NEW C, NEW list \in Seq(Result(C)), NEW places \in SUBSET DOMAIN list
    PROVE  /\ Only(list, places) \in Seq(Result(C))
           /\ Len(Only(list, places)) = Cardinality(places)
           /\ ChunksOf(Only(list, places)) = {list[i].chunk : i \in places}
           /\ Once(list) => Once(Only(list, places))
           /\ Descends(list) => Descends(Only(list, places))
  <1> DEFINE o == Only(list, places)
             n == Cardinality(places)
  <1>1. PICK e \in [1..n -> places] :
            /\ \A k \in 1..n : o[k] = list[e[k]]
            /\ \A k, l \in 1..n : k < l => e[k] < e[l]
            /\ \A i \in places : \E k \in 1..n : e[k] = i
    BY OnlyIs
  <1>2. o \in Seq(Result(C)) /\ Len(o) = n
    BY OnlyIs
  <1> HIDE DEF o, n
  <1>3. DOMAIN o = 1..n
    BY <1>2, ListIs
  <1>4. \A k \in 1..n : e[k] \in places /\ e[k] \in DOMAIN list
    BY <1>1
  <1>5. Once(list) => Once(o)
    BY <1>1, <1>3, <1>4 DEF Once
  <1>6. Descends(list) => Descends(o)
    BY <1>1, <1>3, <1>4 DEF Descends
  <1>7. ChunksOf(o) = {list[i].chunk : i \in places}
    <2>1. ChunksOf(o) = {o[k].chunk : k \in 1..n}
      BY <1>3 DEF ChunksOf
    <2>2. \A c \in {o[k].chunk : k \in 1..n} : c \in {list[i].chunk : i \in places}
      BY <1>1, <1>4
    <2>3. \A c \in {list[i].chunk : i \in places} : c \in {o[k].chunk : k \in 1..n}
      BY <1>1
    <2> QED
      BY <2>1, <2>2, <2>3
  <1> QED
    BY <1>2, <1>5, <1>6, <1>7 DEF o, n

----------------------------------------------------------------------------
(***************************************************************************)
(* Search.  What each of its stages makes of the chunks of the index.      *)
(***************************************************************************)
LEMMA ValuedIs ==
    ASSUME NEW set, IsFiniteSet(set), NEW value, \A c \in set : value[c] \in Int
    PROVE  /\ Valued(set, value) \in SUBSET Result(set)
           /\ IsFiniteSet(Valued(set, value)) /\ Cardinality(Valued(set, value)) = Cardinality(set)
           /\ \A x, y \in Valued(set, value) : x.chunk = y.chunk => x = y
           /\ \A c \in set : \E x \in Valued(set, value) : x.chunk = c
  <1> DEFINE f == [c \in set |-> [chunk |-> c, value |-> value[c]]]
  <1>1. f \in Surjection(set, Valued(set, value))
    BY DEF Valued, Surjection
  <1>2. f \in Injection(set, Valued(set, value))
    <2>1. f \in [set -> Valued(set, value)]
      BY DEF Valued
    <2>2. \A c \in set : f[c].chunk = c
      OBVIOUS
    <2> HIDE DEF f
    <2>3. \A c, d \in set : f[c] = f[d] => c = d
      BY <2>2
    <2> QED
      BY <2>1, <2>3, Fun_IsInj
  <1> HIDE DEF f
  <1>3. IsFiniteSet(Valued(set, value)) /\ Cardinality(Valued(set, value)) = Cardinality(set)
    BY <1>1, <1>2, FS_Surjection
  <1>4. Valued(set, value) \in SUBSET Result(set)
    BY DEF Valued, Result
  <1>5. \A x \in Valued(set, value) : x = [chunk |-> x.chunk, value |-> value[x.chunk]]
    BY DEF Valued
  <1>6. \A c \in set : [chunk |-> c, value |-> value[c]] \in Valued(set, value)
    BY DEF Valued
  <1>7. ASSUME NEW x \in Valued(set, value), NEW y \in Valued(set, value), x.chunk = y.chunk
        PROVE  x = y
    BY <1>5, <1>7
  <1> QED
    BY <1>3, <1>4, <1>6, <1>7

\* What the index answers from, at rest: chunks called by their ids.
LEMMA Indexed ==
    ASSUME StoreInv, job = Resting, NEW prefixed \in BOOLEAN
    PROVE  /\ IsFiniteSet(chunks) /\ IsFiniteSet(Under(prefixed))
           /\ Under(prefixed) \in SUBSET chunks
           /\ \A c \in chunks : c.path \in StoredPath /\ c.text \in Text
           /\ \A c, d \in chunks : c.id = d.id => c = d
  <1>1. WellNamed(chunks)
    BY DEF StoreInv, StoreTypes
  <1>2. Under(prefixed) \in SUBSET chunks
    BY DEF Under
  <1>3. ASSUME NEW c \in chunks, NEW d \in chunks, c.id = d.id
        PROVE  c = d
    <2> DEFINE p == c.path
    <2>1. c.id[1] = p /\ d.id[1] = d.path /\ p \in StoredPath
      BY <1>1 DEF WellNamed, ChunkType
    <2>2. c \in ChunksIn(chunks, p) /\ d \in ChunksIn(chunks, p)
      BY <1>3, <2>1 DEF ChunksIn
    <2>3. PICK new \in Contents[p] : ChunksIn(chunks, p) = ChunksFor(p, new)
      BY <2>1, <2>2, Unhurt
    <2> QED
      BY <1>3, <2>2, <2>3 DEF ChunksFor
  <1>4. \A c \in chunks : c.path \in StoredPath /\ c.text \in Text
    BY <1>1 DEF WellNamed, ChunkType
  <1> QED
    BY <1>1, <1>2, <1>3, <1>4, FS_Subset DEF WellNamed

\* A ranking of chunks by a value, cut.
LEMMA RankedChunks ==
    ASSUME NEW set, IsFiniteSet(set), NEW value, \A c \in set : value[c] \in Int, NEW n \in Nat
    PROVE  LET list == Cut(Ranked(Valued(set, value)), n)
           IN  /\ list \in Seq(Result(set)) /\ Once(list)
               /\ Len(list) = Least(n, Cardinality(set)) /\ Len(list) <= n
  <1> DEFINE all == Valued(set, value)
  <1>1. /\ all \in SUBSET Result(set) /\ IsFiniteSet(all) /\ Cardinality(all) = Cardinality(set)
        /\ \A x, y \in all : x.chunk = y.chunk => x = y
    BY ValuedIs
  <1> HIDE DEF all
  <1>2. Ranked(all) \in Seq(Result(set)) /\ Len(Ranked(all)) = Cardinality(set) /\ Once(Ranked(all))
    BY <1>1, RankedIs
  <1> QED
    BY <1>2, CutListKeeps DEF all

Answers(list, prefixed, n) ==
    /\ list \in Seq(Result(Under(prefixed))) /\ Once(list)
    /\ Len(list) \in Nat /\ Len(list) <= n

LEMMA StoreSearchIs ==
    ASSUME StoreInv, job = Resting, NEW q \in Query, NEW n \in Nat, NEW prefixed \in BOOLEAN
    PROVE  /\ Answers(StoreSearch(q, n, prefixed), prefixed, n)
           /\ ~(backend = "qdrant" /\ prefixed) =>
                 Len(StoreSearch(q, n, prefixed)) = Least(n, Cardinality(Under(prefixed)))
  <1> DEFINE value == [c \in chunks |-> Score[q][c.text]]
             under == Under(prefixed)
  <1>1. /\ IsFiniteSet(chunks) /\ IsFiniteSet(under) /\ under \in SUBSET chunks
        /\ \A c \in chunks : value[c] \in Int
    BY Indexed, StoreAssumption
  <1>2. CASE backend # "qdrant"
    <2>1. StoreSearch(q, n, prefixed) = Cut(Ranked(Valued(under, value)), n)
      BY <1>2 DEF StoreSearch
    <2> HIDE DEF value
    <2>2. \A c \in under : value[c] \in Int
      BY <1>1
    <2> DEFINE list == Cut(Ranked(Valued(under, value)), n)
    <2>3. /\ list \in Seq(Result(under)) /\ Once(list)
          /\ Len(list) = Least(n, Cardinality(under)) /\ Len(list) <= n
      BY <1>1, <2>2, RankedChunks
    <2> HIDE DEF list
    <2> QED
      BY <2>1, <2>3, ListIs DEF Answers, list
  <1>3. CASE backend = "qdrant"
    <2> DEFINE m == IF prefixed THEN 2 * n ELSE n
               twice == Cut(Ranked(Valued(chunks, value)), m)
               places == {i \in DOMAIN twice : twice[i].chunk \in under}
               some == Only(twice, places)
    <2>1. StoreSearch(q, n, prefixed) = Cut(some, n)
      BY <1>3 DEF StoreSearch
    <2> HIDE DEF value
    <2>2. m \in Nat
      OBVIOUS
    <2>3. /\ twice \in Seq(Result(chunks)) /\ Once(twice)
          /\ Len(twice) = Least(m, Cardinality(chunks))
      BY <1>1, <2>2, RankedChunks
    <2> HIDE DEF twice
    <2>4. places \in SUBSET DOMAIN twice
      OBVIOUS
    <2>5. /\ some \in Seq(Result(chunks)) /\ Len(some) = Cardinality(places) /\ Once(some)
          /\ ChunksOf(some) = {twice[i].chunk : i \in places}
      BY <2>3, <2>4, OnlyKeeps
    <2>6. some \in Seq(Result(under))
      <3>1. DOMAIN some = 1..Len(some) /\ \A i \in 1..Len(some) : some[i] \in Result(chunks)
        BY <2>5, ListIs
      <3>2. \A c \in ChunksOf(some) : c \in under
        BY <2>5
      <3> HIDE DEF some
      <3>3. \A i \in 1..Len(some) : some[i] \in Result(under)
        BY <3>1, <3>2 DEF ChunksOf, Result
      <3> QED
        BY <2>5, <3>3, SeqWithin
    <2>7. /\ Cut(some, n) \in Seq(Result(under)) /\ Once(Cut(some, n))
          /\ Len(Cut(some, n)) = Least(n, Len(some)) /\ Len(Cut(some, n)) <= n
      BY <2>5, <2>6, CutListKeeps
    <2>8. ASSUME ~prefixed
          PROVE  Len(Cut(some, n)) = Least(n, Cardinality(under))
      <3>1. under = chunks /\ m = n
        BY <2>8 DEF Under
      <3>2. DOMAIN twice = 1..Len(twice) /\ Len(twice) \in Nat
            /\ \A i \in 1..Len(twice) : twice[i] \in Result(chunks)
        BY <2>3, ListIs
      <3>3. \A i \in 1..Len(twice) : twice[i].chunk \in chunks
        BY <3>2 DEF Result
      <3>4. places = 1..Len(twice)
        BY <3>1, <3>2, <3>3
      <3>5. Len(some) = Len(twice)
        BY <2>5, <3>2, <3>4, UpTo
      <3>6. Cardinality(chunks) \in Nat
        BY <1>1, FS_CardinalityType
      <3> QED
        BY <2>3, <2>7, <3>1, <3>5, <3>6 DEF Least
    <2> QED
      BY <1>3, <2>1, <2>7, <2>8, ListIs DEF Answers
  <1> QED
    BY <1>2, <1>3

LEMMA TextSearchIs ==
    ASSUME StoreInv, job = Resting, NEW q \in Query, NEW n \in Nat, NEW prefixed \in BOOLEAN
    PROVE  Answers(TextSearch(q, n, prefixed), prefixed, n)
  <1> DEFINE value == [c \in chunks |-> WordsIn[q][c.text]]
             under == Under(prefixed)
             all == Valued(under, value)
             some == {r \in all : r.value > 0}
  <1>1. /\ IsFiniteSet(under) /\ under \in SUBSET chunks
        /\ \A c \in chunks : value[c] \in Int
    BY Indexed, StoreAssumption
  <1>2. TextSearch(q, n, prefixed) = Cut(Ranked(some), n)
    BY DEF TextSearch
  <1> HIDE DEF value
  <1>3. /\ all \in SUBSET Result(under) /\ IsFiniteSet(all)
        /\ \A x, y \in all : x.chunk = y.chunk => x = y
    <2>1. \A c \in under : value[c] \in Int
      BY <1>1
    <2> QED
      BY <1>1, <2>1, ValuedIs
  <1> HIDE DEF all
  <1>4. some \in SUBSET all
    OBVIOUS
  <1>5. /\ some \in SUBSET Result(under) /\ IsFiniteSet(some)
        /\ \A x, y \in some : x.chunk = y.chunk => x = y
    BY <1>3, <1>4, FS_Subset
  <1> HIDE DEF some
  <1>6. Ranked(some) \in Seq(Result(under)) /\ Once(Ranked(some))
    BY <1>5, RankedIs
  <1> QED
    BY <1>2, <1>6, CutListKeeps, ListIs DEF Answers

\* Two lists, fused: one result for each id, with the sum of its points.
LEMMA PointsType ==
    ASSUME NEW C, NEW list \in Seq(Result(C)), NEW x, NEW scale \in Int
    PROVE  Points(list, x, scale) \in Int
  <1> DEFINE f == [i \in DOMAIN list |->
                     IF FusedId(list[i]) = x THEN scale \div (RrfK + i) ELSE 0]
  <1>1. Len(list) \in Nat /\ DOMAIN list = 1..Len(list)
    BY ListIs
  <1>2. ASSUME NEW i \in 1..Len(list)
        PROVE  f[i] \in Int
    <2>1. RrfK + i \in Nat \ {0}
      BY <1>1, StoreAssumption
    <2>2. scale \div (RrfK + i) \in Int
      BY <2>1
    <2> QED
      BY <1>1, <2>2
  <1> HIDE DEF f
  <1>3. SumTo(f, Len(list)) \in Int
    BY <1>1, <1>2, SumType
  <1> QED
    BY <1>3 DEF Points, f

LEMMA ScaleType ==
    ASSUME NEW C, NEW list \in Seq(Result(C))
    PROVE  ProductTo([i \in DOMAIN list |-> RrfK + i], Len(list)) \in Int
  <1> DEFINE f == [i \in DOMAIN list |-> RrfK + i]
  <1>1. Len(list) \in Nat /\ DOMAIN list = 1..Len(list)
    BY ListIs
  <1>2. \A i \in 1..Len(list) : f[i] \in Int
    BY <1>1, StoreAssumption
  <1> HIDE DEF f
  <1>3. ProductTo(f, Len(list)) \in Int
    BY <1>1, <1>2, ProductType
  <1> QED
    BY <1>3 DEF f

IdsIn(list) == {FusedId(list[i]) : i \in DOMAIN list}

LEMMA FusedIs ==
    ASSUME NEW C, NEW list \in Seq(Result(C)), NEW other \in Seq(Result(C))
    PROVE  /\ Fused(list, other) \in SUBSET Result(C) /\ IsFiniteSet(Fused(list, other))
           /\ \A r, s \in Fused(list, other) : r.chunk = s.chunk => r = s
           /\ \A i \in DOMAIN list : \E r \in Fused(list, other) : FusedId(r) = FusedId(list[i])
  <1> DEFINE all == list \o other
             scale == ProductTo([i \in DOMAIN all |-> RrfK + i], Len(all))
             Last(x, i) == FusedId(all[i]) = x /\ \A j \in DOMAIN all : j > i => FusedId(all[j]) # x
             last(x) == CHOOSE i \in DOMAIN all : Last(x, i)
             value(x) == Points(list, x, scale) + Points(other, x, scale)
             fused == {[chunk |-> all[last(x)].chunk, value |-> value(x)] : x \in IdsIn(all)}
  <1>1. Fused(list, other) = fused
    BY DEF Fused, IdsIn
  <1>2. /\ all \in Seq(Result(C)) /\ Len(all) = Len(list) + Len(other)
        /\ \A i \in 1..Len(list) : all[i] = list[i]
        /\ Len(list) \in Nat /\ Len(other) \in Nat
    BY ConcatProperties, ListIs
  <1> HIDE DEF all
  <1>3. DOMAIN all = 1..Len(all) /\ Len(all) \in Nat /\ \A i \in DOMAIN all : all[i] \in Result(C)
    BY <1>2, ListIs
  <1>4. scale \in Int
    BY <1>2, ScaleType
  <1> HIDE DEF scale
  <1>5. \A x : value(x) \in Int
    BY <1>4, PointsType
  <1>6. ASSUME NEW x \in IdsIn(all)
        PROVE  last(x) \in DOMAIN all /\ FusedId(all[last(x)]) = x
    <2> DEFINE T == {i \in DOMAIN all : FusedId(all[i]) = x}
    <2>1. T \in SUBSET Nat /\ T # {} /\ \A i \in T : i <= Len(all)
      BY <1>3 DEF IdsIn
    <2> HIDE DEF T
    <2>2. PICK i \in T : \A j \in T : j <= i
      BY <1>3, <2>1, Largest
    <2>3. Last(x, i) /\ i \in DOMAIN all
      <3>1. i \in DOMAIN all /\ FusedId(all[i]) = x
        BY DEF T
      <3>2. ASSUME NEW j \in DOMAIN all, j > i
            PROVE  FusedId(all[j]) # x
        <4>1. SUFFICES ASSUME FusedId(all[j]) = x
                       PROVE  FALSE
          OBVIOUS
        <4>2. j \in T
          BY <4>1 DEF T
        <4> QED
          BY <1>3, <2>2, <3>1, <3>2, <4>2
      <3> QED
        BY <3>1, <3>2
    <2> QED
      BY <2>3
  <1> HIDE DEF last, value
  <1>7. ASSUME NEW x \in IdsIn(all)
        PROVE  LET r == [chunk |-> all[last(x)].chunk, value |-> value(x)]
               IN  r \in Result(C) /\ FusedId(r) = x
    BY <1>3, <1>5, <1>6 DEF Result, FusedId
  <1>8. fused \in SUBSET Result(C)
    BY <1>7
  <1>9. ASSUME NEW r \in fused, NEW s \in fused, r.chunk = s.chunk
        PROVE  r = s
    <2>1. PICK x \in IdsIn(all) : r = [chunk |-> all[last(x)].chunk, value |-> value(x)]
      OBVIOUS
    <2>2. PICK y \in IdsIn(all) : s = [chunk |-> all[last(y)].chunk, value |-> value(y)]
      OBVIOUS
    <2>3. FusedId(r) = x /\ FusedId(s) = y
      BY <1>7, <2>1, <2>2
    <2>4. FusedId(r) = FusedId(s)
      BY <1>9 DEF FusedId
    <2> QED
      BY <2>1, <2>2, <2>3, <2>4
  <1>10. IsFiniteSet(fused)
    <2>1. IsFiniteSet(DOMAIN all)
      BY <1>3, UpTo
    <2> DEFINE f == [i \in DOMAIN all |->
                       [chunk |-> all[last(FusedId(all[i]))].chunk, value |-> value(FusedId(all[i]))]]
    <2>2. f \in Surjection(DOMAIN all, fused)
      BY DEF Surjection, IdsIn
    <2> HIDE DEF f
    <2> QED
      BY <2>1, <2>2, FS_Surjection
  <1>11. ASSUME NEW i \in DOMAIN list
         PROVE  \E r \in fused : FusedId(r) = FusedId(list[i])
    <2>1. i \in DOMAIN all /\ all[i] = list[i]
      <3>1. i \in 1..Len(list)
        BY ListIs
      <3> QED
        BY <1>2, <1>3, <3>1
    <2>2. FusedId(list[i]) \in IdsIn(all)
      BY <2>1 DEF IdsIn
    <2> QED
      BY <1>7, <2>2
  <1> QED
    BY <1>1, <1>8, <1>9, <1>10, <1>11

LEMMA FusionIs ==
    ASSUME StoreInv, job = Resting, NEW prefixed \in BOOLEAN, NEW n \in Nat,
           NEW list, NEW other, Answers(list, prefixed, n), Answers(other, prefixed, n)
    PROVE  /\ Answers(Fusion(list, other, n), prefixed, n)
           /\ backend # "qdrant" /\ Len(list) = Least(n, Cardinality(Under(prefixed))) =>
                 Len(Fusion(list, other, n)) = Least(n, Cardinality(Under(prefixed)))
  <1> DEFINE under == Under(prefixed)
             fused == Fused(list, other)
  <1>1. list \in Seq(Result(under)) /\ Once(list) /\ other \in Seq(Result(under))
    BY DEF Answers
  <1>2. /\ fused \in SUBSET Result(under) /\ IsFiniteSet(fused)
        /\ \A r, s \in fused : r.chunk = s.chunk => r = s
        /\ \A i \in DOMAIN list : \E r \in fused : FusedId(r) = FusedId(list[i])
    BY <1>1, FusedIs
  <1>3. Fusion(list, other, n) = Cut(Ranked(fused), n)
    BY DEF Fusion
  <1> HIDE DEF fused
  <1>4. /\ Ranked(fused) \in Seq(Result(under)) /\ Once(Ranked(fused))
        /\ Len(Ranked(fused)) = Cardinality(fused) /\ Cardinality(fused) \in Nat
    BY <1>2, RankedIs
  <1>5. /\ Cut(Ranked(fused), n) \in Seq(Result(under)) /\ Once(Cut(Ranked(fused), n))
        /\ Len(Cut(Ranked(fused), n)) = Least(n, Cardinality(fused))
        /\ Len(Cut(Ranked(fused), n)) <= n
    BY <1>4, CutListKeeps
  <1>6. Answers(Cut(Ranked(fused), n), prefixed, n)
    BY <1>5, ListIs DEF Answers
  <1>7. ASSUME backend # "qdrant", Len(list) = Least(n, Cardinality(under))
        PROVE  Least(n, Cardinality(fused)) = Least(n, Cardinality(under))
    <2>1. /\ IsFiniteSet(under) /\ under \in SUBSET chunks
          /\ \A c, d \in chunks : c.id = d.id => c = d
      BY Indexed
    <2>2. \A r \in Result(under) : r.chunk \in under /\ FusedId(r) = r.chunk.id
      BY <1>7 DEF Result, FusedId
    <2>3. Cardinality(fused) <= Cardinality(under)
      <3> DEFINE f == [r \in fused |-> r.chunk]
      <3>1. f \in [fused -> under] /\ \A r, s \in fused : f[r] = f[s] => r = s
        BY <1>2, <2>2
      <3>2. f \in Injection(fused, under)
        BY <3>1, Fun_IsInj
      <3> HIDE DEF f
      <3> QED
        BY <2>1, <3>2, FS_Injection
    <2>4. Len(list) <= Cardinality(fused)
      <3>1. /\ Len(list) \in Nat /\ DOMAIN list = 1..Len(list)
            /\ \A i \in 1..Len(list) : list[i] \in Result(under)
        BY <1>1, ListIs
      <3> DEFINE Of(i, r) == r \in fused /\ FusedId(r) = FusedId(list[i])
                 f == [i \in 1..Len(list) |-> CHOOSE r \in fused : Of(i, r)]
      <3>2. \A i \in 1..Len(list) : f[i] \in fused /\ FusedId(f[i]) = list[i].chunk.id
        <4>1. \A i \in 1..Len(list) : Of(i, f[i])
          BY <1>2, <3>1
        <4> QED
          BY <2>2, <3>1, <4>1
      <3> HIDE DEF f
      <3>3. ASSUME NEW i \in 1..Len(list), NEW j \in 1..Len(list), i # j
            PROVE  list[i].chunk.id # list[j].chunk.id
        <4>1. list[i].chunk # list[j].chunk
          BY <1>1, <3>1, <3>3 DEF Once
        <4>2. list[i].chunk \in chunks /\ list[j].chunk \in chunks
          BY <2>1, <2>2, <3>1
        <4> QED
          BY <2>1, <4>1, <4>2
      <3>4. \A i, j \in 1..Len(list) : f[i] = f[j] => i = j
        BY <3>2, <3>3
      <3>5. f \in [1..Len(list) -> fused]
        BY <3>2 DEF f
      <3>6. f \in Injection(1..Len(list), fused)
        BY <3>4, <3>5, Fun_IsInj
      <3>7. Cardinality(1..Len(list)) = Len(list)
        BY <3>1, UpTo
      <3>8. Cardinality(1..Len(list)) <= Cardinality(fused)
        BY <1>2, <3>6, FS_Injection
      <3> QED
        BY <3>7, <3>8
    <2>5. Cardinality(under) \in Nat
      BY <2>1, FS_CardinalityType
    <2> QED
      BY <1>4, <1>7, <2>3, <2>4, <2>5 DEF Least
  <1> QED
    BY <1>3, <1>5, <1>6, <1>7

LEMMA FetchedIs ==
    ASSUME StoreInv, job = Resting, NEW q \in Query, NEW n \in Nat,
           NEW prefixed \in BOOLEAN, NEW dedup \in BOOLEAN, NEW hybrid \in BOOLEAN
    PROVE  LET fetch == FetchLimit(n, dedup)
               list == Fetched(q, n, prefixed, dedup, hybrid)
           IN  /\ fetch \in Nat /\ Answers(list, prefixed, fetch)
               /\ ~(backend = "qdrant" /\ (prefixed \/ hybrid)) =>
                     Len(list) = Least(fetch, Cardinality(Under(prefixed)))
  <1> DEFINE fetch == FetchLimit(n, dedup)
             list == StoreSearch(q, fetch, prefixed)
             other == TextSearch(q, fetch, prefixed)
  <1>1. fetch \in Nat
    BY DEF FetchLimit
  <1>2. Fetched(q, n, prefixed, dedup, hybrid) = IF hybrid THEN Fusion(list, other, fetch) ELSE list
    BY DEF Fetched
  <1> HIDE DEF fetch
  <1>3. /\ Answers(list, prefixed, fetch)
        /\ ~(backend = "qdrant" /\ prefixed) => Len(list) = Least(fetch, Cardinality(Under(prefixed)))
    BY <1>1, StoreSearchIs
  <1>4. Answers(other, prefixed, fetch)
    BY <1>1, TextSearchIs
  <1> HIDE DEF list, other
  <1>5. /\ Answers(Fusion(list, other, fetch), prefixed, fetch)
        /\ backend # "qdrant" /\ Len(list) = Least(fetch, Cardinality(Under(prefixed))) =>
              Len(Fusion(list, other, fetch)) = Least(fetch, Cardinality(Under(prefixed)))
    BY <1>1, <1>3, <1>4, FusionIs
  <1> QED
    BY <1>1, <1>2, <1>3, <1>5 DEF fetch

\* Weighing the results anew changes their order, and neither which they are nor how
\* many.
LEMMA BoostedIs ==
    ASSUME StoreInv, job = Resting, NEW prefixed \in BOOLEAN, NEW n \in Nat,
           NEW list, Answers(list, prefixed, n)
    PROVE  /\ Answers(ApplyBoost(list), prefixed, n) /\ Descends(ApplyBoost(list))
           /\ Len(ApplyBoost(list)) = Len(list)
  <1> DEFINE under == Under(prefixed)
             new == [i \in DOMAIN list |-> [list[i] EXCEPT !.value = @ * Boost[list[i].chunk.path]]]
  <1>1. /\ list \in Seq(Result(under)) /\ Once(list) /\ Len(list) \in Nat /\ Len(list) <= n
        /\ DOMAIN list = 1..Len(list) /\ \A i \in 1..Len(list) : list[i] \in Result(under)
    BY ListIs DEF Answers
  <1>2. ASSUME NEW i \in 1..Len(list)
        PROVE  new[i] \in Result(under) /\ new[i].chunk = list[i].chunk
    <2>1. list[i].chunk \in under /\ list[i].value \in Int /\ list[i] \in Result(under)
      BY <1>1 DEF Result
    <2>2. Boost[list[i].chunk.path] \in Int
      BY <2>1, Indexed, StoreAssumption
    <2>3. list[i].value * Boost[list[i].chunk.path] \in Int
      BY <2>1, <2>2
    <2>4. new[i] = [list[i] EXCEPT !.value = list[i].value * Boost[list[i].chunk.path]]
      BY <1>1
    <2> QED
      BY <2>1, <2>3, <2>4 DEF Result
  <1>3. DOMAIN new = 1..Len(list)
    BY <1>1
  <1>4. ApplyBoost(list) = Sorted(new)
    BY DEF ApplyBoost
  <1> HIDE DEF new
  <1>5. new \in Seq(Result(under)) /\ Len(new) = Len(list)
    <2>1. new = [i \in 1..Len(list) |-> new[i]]
      BY <1>3 DEF new
    <2>2. new \in [1..Len(list) -> Result(under)]
      BY <1>2, <2>1
    <2> QED
      BY <1>1, <2>2
  <1>6. Once(new)
    BY <1>1, <1>2, <1>3 DEF Once
  <1> QED
    BY <1>1, <1>4, <1>5, <1>6, SortedIs DEF Answers

PathsOf(set) == {c.path : c \in set}

LEMMA ChunksCount ==
    ASSUME NEW C, NEW list \in Seq(Result(C)), Once(list)
    PROVE  /\ IsFiniteSet(ChunksOf(list)) /\ Cardinality(ChunksOf(list)) = Len(list)
           /\ ChunksOf(list) \in SUBSET C
  <1> DEFINE f == [i \in DOMAIN list |-> list[i].chunk]
  <1>1. /\ Len(list) \in Nat /\ DOMAIN list = 1..Len(list)
        /\ \A i \in 1..Len(list) : list[i] \in Result(C)
    BY ListIs
  <1>2. f \in Surjection(DOMAIN list, ChunksOf(list))
    BY DEF Surjection, ChunksOf
  <1>3. \A i, j \in DOMAIN list : f[i] = f[j] => i = j
    BY <1>1 DEF Once
  <1> HIDE DEF f
  <1>4. f \in Injection(DOMAIN list, ChunksOf(list))
    <2>1. f \in [DOMAIN list -> ChunksOf(list)]
      BY <1>2 DEF Surjection
    <2> QED
      BY <1>3, <2>1, Fun_IsInj
  <1>5. IsFiniteSet(DOMAIN list) /\ Cardinality(DOMAIN list) = Len(list)
    BY <1>1, UpTo
  <1>6. ChunksOf(list) \in SUBSET C
    BY <1>1 DEF ChunksOf, Result
  <1> QED
    BY <1>2, <1>4, <1>5, <1>6, FS_Surjection

\* So many chunks, of so many at most a file, are of so many files at least.
LEMMA FewPerFile ==
    ASSUME NEW set, IsFiniteSet(set), NEW k \in Nat,
           \A p \in PathsOf(set) : Cardinality({c \in set : c.path = p}) <= k
    PROVE  /\ IsFiniteSet(PathsOf(set)) /\ Cardinality(PathsOf(set)) \in Nat
           /\ Cardinality(set) <= Cardinality(PathsOf(set)) * k
  <1> DEFINE paths == PathsOf(set)
             of(p) == {c \in set : c.path = p}
  <1>1. IsFiniteSet(paths) /\ Cardinality(paths) \in Nat
    <2> DEFINE f == [c \in set |-> c.path]
    <2>1. f \in Surjection(set, paths)
      BY DEF Surjection, PathsOf
    <2> HIDE DEF f
    <2> QED
      BY <2>1, FS_Surjection, FS_CardinalityType
  <1>2. ASSUME NEW c \in set
        PROVE  c.path \in paths /\ \E i \in 1..k : Listed(of(c.path))[i] = c
    <2> DEFINE p == c.path
    <2>1. p \in paths /\ c \in of(p) /\ of(p) \in SUBSET set
      BY DEF PathsOf
    <2>2. IsFiniteSet(of(p)) /\ Cardinality(of(p)) <= k
      BY <2>1, FS_Subset
    <2> HIDE DEF of
    <2>3. PICK i \in 1..Cardinality(of(p)) : Listed(of(p))[i] = c
      BY <2>1, <2>2, ListedIs
    <2>4. Cardinality(of(p)) \in Nat
      BY <2>2, FS_CardinalityType
    <2>5. i \in 1..k
      BY <2>2, <2>3, <2>4
    <2> QED
      BY <2>1, <2>3, <2>5
  <1> HIDE DEF of, paths
  <1> DEFINE f == [c \in set |-> <<c.path, CHOOSE i \in 1..k : Listed(of(c.path))[i] = c>>]
  <1>3. ASSUME NEW c \in set
        PROVE  f[c] \in paths \X (1..k) /\ f[c][1] = c.path /\ Listed(of(c.path))[f[c][2]] = c
    BY <1>2
  <1>4. f \in [set -> paths \X (1..k)]
    BY <1>3
  <1> HIDE DEF f
  <1>5. \A c, d \in set : f[c] = f[d] => c = d
    BY <1>3
  <1>6. f \in Injection(set, paths \X (1..k))
    BY <1>4, <1>5, Fun_IsInj
  <1>7. /\ IsFiniteSet(paths \X (1..k))
        /\ Cardinality(paths \X (1..k)) = Cardinality(paths) * k
    <2>1. IsFiniteSet(1..k) /\ Cardinality(1..k) = k
      BY UpTo
    <2> QED
      BY <1>1, <2>1, FS_Product
  <1>8. Cardinality(set) <= Cardinality(paths \X (1..k))
    BY <1>6, <1>7, FS_Injection
  <1> QED
    BY <1>1, <1>7, <1>8 DEF paths

\* One result for each file that has one, its best.
LEMMA DedupIs ==
    ASSUME NEW prefixed \in BOOLEAN, NEW n \in Nat,
           NEW list, Answers(list, prefixed, n), Descends(list)
    PROVE  LET one == DeduplicateByFile(list)
           IN  /\ one \in Seq(Result(Under(prefixed))) /\ Once(one) /\ Descends(one)
               /\ \A k, l \in DOMAIN one : k < l => one[k].chunk.path # one[l].chunk.path
               /\ Len(one) = Cardinality(PathsOf(ChunksOf(list)))
  <1> DEFINE under == Under(prefixed)
             path(i) == list[i].chunk.path
             firsts == {i \in DOMAIN list : \A j \in 1..i - 1 : path(j) # path(i)}
             one == Only(list, firsts)
             paths == {path(i) : i \in DOMAIN list}
  <1>1. /\ list \in Seq(Result(under)) /\ Once(list) /\ Len(list) \in Nat
        /\ DOMAIN list = 1..Len(list)
    BY ListIs DEF Answers
  <1>2. DeduplicateByFile(list) = one
    BY DEF DeduplicateByFile
  <1>3. paths = PathsOf(ChunksOf(list))
    BY DEF PathsOf, ChunksOf
  <1>4. firsts \in SUBSET DOMAIN list
    OBVIOUS
  <1>5. \A i, j \in firsts : i < j => path(i) # path(j)
    BY <1>1
  <1>6. ASSUME NEW i \in DOMAIN list
        PROVE  \E j \in firsts : path(j) = path(i)
    <2> DEFINE T == {j \in DOMAIN list : path(j) = path(i)}
    <2>1. T \in SUBSET Nat /\ T # {}
      BY <1>1
    <2> HIDE DEF T
    <2>2. PICK j \in T : \A k \in T : j <= k
      BY <2>1, Smallest
    <2>3. j \in DOMAIN list /\ path(j) = path(i)
      BY DEF T
    <2>4. ASSUME NEW k \in 1..j - 1
          PROVE  path(k) # path(j)
      <3>1. k \in DOMAIN list /\ k < j
        BY <1>1, <2>3
      <3>2. k \notin T
        BY <1>1, <2>2, <2>3, <3>1
      <3> QED
        BY <2>3, <3>1, <3>2 DEF T
    <2> QED
      BY <2>3, <2>4
  <1> HIDE DEF firsts, path
  <1>7. IsFiniteSet(firsts)
    BY <1>1, <1>4, UpTo, FS_Subset
  <1>8. Cardinality(paths) = Cardinality(firsts)
    <2> DEFINE f == [i \in firsts |-> path(i)]
    <2>1. f \in Surjection(firsts, paths)
      BY <1>4, <1>6 DEF Surjection
    <2>2. \A i, j \in firsts : f[i] = f[j] => i = j
      BY <1>1, <1>4, <1>5
    <2> HIDE DEF f, paths
    <2>3. f \in Injection(firsts, paths)
      <3>1. f \in [firsts -> paths]
        BY <2>1 DEF Surjection
      <3> QED
        BY <2>2, <3>1, Fun_IsInj
    <2> QED
      BY <1>7, <2>1, <2>3, FS_Surjection
  <1>9. PICK e \in [1..Cardinality(firsts) -> firsts] :
            /\ \A k \in 1..Cardinality(firsts) : one[k] = list[e[k]]
            /\ \A k, l \in 1..Cardinality(firsts) : k < l => e[k] < e[l]
    BY <1>1, <1>4, OnlyIs
  <1>10. /\ one \in Seq(Result(under)) /\ Len(one) = Cardinality(firsts)
         /\ Once(one) /\ Descends(one)
    BY <1>1, <1>4, OnlyKeeps
  <1> HIDE DEF one, paths
  <1>11. DOMAIN one = 1..Cardinality(firsts)
    BY <1>10, ListIs
  <1>12. ASSUME NEW k \in DOMAIN one, NEW l \in DOMAIN one, k < l
         PROVE  one[k].chunk.path # one[l].chunk.path
    <2>1. e[k] \in firsts /\ e[l] \in firsts /\ e[k] < e[l]
      BY <1>9, <1>11, <1>12
    <2>2. one[k] = list[e[k]] /\ one[l] = list[e[l]]
      BY <1>9, <1>11
    <2> QED
      BY <1>5, <2>1, <2>2 DEF path
  <1> QED
    BY <1>2, <1>3, <1>8, <1>10, <1>12

\* With one result for each file there are as many as asked for, or as there are
\* files: either all chunks were fetched, or so many that they are of as many files.
LEMMA EnoughFiles ==
    ASSUME StoreInv, job = Resting, NEW prefixed \in BOOLEAN, NEW n \in Nat, NEW k \in Nat \ {0},
           NEW list \in Seq(Result(Under(prefixed))), Once(list),
           Len(list) = Least(n * k, Cardinality(Under(prefixed))),
           \A p \in StoredPath : Cardinality({c \in chunks : c.path = p}) <= k
    PROVE  /\ Cardinality(PathsOf(Under(prefixed))) \in Nat
           /\ Least(n, Cardinality(PathsOf(ChunksOf(list))))
                = Least(n, Cardinality(PathsOf(Under(prefixed))))
  <1> DEFINE under == Under(prefixed)
             got == ChunksOf(list)
             U == Cardinality(under)
             D == Cardinality(PathsOf(got))
             W == Cardinality(PathsOf(under))
  <1>1. /\ IsFiniteSet(chunks) /\ IsFiniteSet(under) /\ under \in SUBSET chunks
        /\ \A c \in chunks : c.path \in StoredPath
    BY Indexed
  <1>2. IsFiniteSet(got) /\ Cardinality(got) = Len(list) /\ got \in SUBSET under
    BY ChunksCount
  <1>3. ASSUME NEW set \in SUBSET chunks
        PROVE  /\ IsFiniteSet(set) /\ IsFiniteSet(PathsOf(set)) /\ Cardinality(PathsOf(set)) \in Nat
               /\ Cardinality(set) <= Cardinality(PathsOf(set)) * k
    <2>1. IsFiniteSet(set)
      BY <1>1, FS_Subset
    <2>2. ASSUME NEW p \in PathsOf(set)
          PROVE  Cardinality({c \in set : c.path = p}) <= k
      <3> DEFINE some == {c \in set : c.path = p}
                 all == {c \in chunks : c.path = p}
      <3>1. p \in StoredPath
        BY <1>1 DEF PathsOf
      <3>2. Cardinality(all) <= k /\ some \in SUBSET all /\ all \in SUBSET chunks
        BY <3>1
      <3> HIDE DEF some, all
      <3>3. /\ IsFiniteSet(all) /\ IsFiniteSet(some) /\ Cardinality(some) <= Cardinality(all)
            /\ Cardinality(some) \in Nat /\ Cardinality(all) \in Nat
        BY <1>1, <3>2, FS_Subset, FS_CardinalityType
      <3>4. Cardinality(some) <= k
        BY <3>2, <3>3
      <3> QED
        BY <3>4 DEF some
    <2> QED
      BY <2>1, <2>2, FewPerFile
  <1>4. U \in Nat /\ D \in Nat /\ W \in Nat /\ IsFiniteSet(PathsOf(under))
    BY <1>1, <1>2, <1>3, FS_CardinalityType
  <1>5. D <= W
    <2>1. PathsOf(got) \in SUBSET PathsOf(under)
      BY <1>2 DEF PathsOf
    <2> QED
      BY <1>4, <2>1, FS_Subset
  <1>6. CASE U < n * k
    <2>1. Cardinality(got) = U
      BY <1>2, <1>4, <1>6 DEF Least
    <2>2. got = under
      BY <1>1, <1>2, <2>1, FS_Subset
    <2> QED
      BY <1>4, <2>2
  <1>7. CASE n * k <= U
    <2>1. Cardinality(got) = n * k
      BY <1>2, <1>4, <1>7 DEF Least
    <2>2. n * k <= D * k
      BY <1>1, <1>2, <1>3, <2>1
    <2>3. n <= D
      BY <1>4, <2>2
    <2> HIDE DEF D, W
    <2> QED
      BY <1>4, <1>5, <2>3 DEF Least, D, W
  <1> QED
    BY <1>4, <1>6, <1>7

----------------------------------------------------------------------------
(***************************************************************************)
(* What is left out.  A list in order and cut leaves out what its members  *)
(* are no less than, and only when it is full.                             *)
(***************************************************************************)
Leads(list, n, v) == Len(list) = n /\ \A i \in DOMAIN list : list[i].value >= v

LEMMA MembersWeigh ==
    ASSUME NEW C, NEW list \in Seq(Result(C))
    PROVE  /\ \A x \in Members(list) : x.value \in Int
           /\ \A i \in DOMAIN list : list[i].value \in Int
  <1>1. DOMAIN list = 1..Len(list) /\ \A i \in 1..Len(list) : list[i] \in Result(C)
    BY ListIs
  <1>2. \A i \in DOMAIN list : list[i].value \in Int
    BY <1>1 DEF Result
  <1> QED
    BY <1>2 DEF Members

LEMMA CutLeaves ==
    ASSUME NEW C, NEW list \in Seq(Result(C)), Descends(list), NEW n \in Nat
    PROVE  /\ Members(Cut(list, n)) \in SUBSET Members(list)
           /\ \A x \in Members(list) \ Members(Cut(list, n)) : Leads(Cut(list, n), n, x.value)
  <1> DEFINE cut == Cut(list, n)
             m == Least(n, Len(list))
  <1>1. /\ Len(list) \in Nat /\ DOMAIN list = 1..Len(list)
        /\ \A i \in 1..Len(list) : list[i] \in Result(C)
    BY ListIs
  <1>2. /\ Len(cut) = m /\ DOMAIN cut = 1..m
        /\ \A i \in 1..m : cut[i] = list[i] /\ i \in DOMAIN list
    BY CutIs
  <1> HIDE DEF cut, m
  <1>3. Members(cut) \in SUBSET Members(list)
    BY <1>2 DEF Members
  <1>4. ASSUME NEW x \in Members(list) \ Members(cut)
        PROVE  Leads(cut, n, x.value)
    <2>1. PICK k \in 1..Len(list) : x = list[k]
      BY <1>1 DEF Members
    <2>2. k \notin 1..m
      BY <1>2, <1>4, <2>1 DEF Members
    <2>3. m = n /\ n < k
      <3>1. k \in Nat /\ 1 <= k /\ k <= Len(list) /\ m \in Int
        BY <1>1 DEF m, Least
      <3>2. m < k
        BY <2>2, <3>1
      <3>3. m = IF n < Len(list) THEN n ELSE Len(list)
        BY DEF m, Least
      <3> DEFINE l == Len(list)
      <3>4. l \in Nat /\ k <= l /\ (m = IF n < l THEN n ELSE l) /\ n \in Nat
        BY <1>1, <3>1, <3>3
      <3> HIDE DEF l
      <3>5. n < l
        BY <3>1, <3>2, <3>4
      <3>6. m = n
        BY <3>4, <3>5
      <3> QED
        BY <3>2, <3>6
    <2>4. ASSUME NEW i \in 1..n
          PROVE  cut[i].value >= x.value
      <3>1. i \in DOMAIN list /\ k \in DOMAIN list /\ i < k /\ cut[i] = list[i]
        BY <1>1, <1>2, <2>1, <2>3
      <3> QED
        BY <2>1, <3>1 DEF Descends
    <2> QED
      BY <1>2, <2>3, <2>4 DEF Leads
  <1> QED
    BY <1>3, <1>4 DEF cut

\* A full list of what is no less similar than a chunk has as many rivals of it.
LEMMA LeadersAreRivals ==
    ASSUME NEW q \in Query, NEW c, NEW set, IsFiniteSet(set), NEW n \in Nat,
           NEW list \in Seq(Result(set)), Once(list),
           \A x \in Members(list) : x.value = Score[q][x.chunk.text],
           Leads(list, n, Score[q][c.text]), c \notin ChunksOf(list)
    PROVE  Cardinality(Rivals(q, c, set)) >= n
  <1>1. /\ Len(list) = n /\ DOMAIN list = 1..n /\ \A i \in 1..n : list[i] \in Result(set)
        /\ \A i \in 1..n : list[i].value >= Score[q][c.text]
    BY ListIs DEF Leads
  <1>2. /\ IsFiniteSet(ChunksOf(list)) /\ Cardinality(ChunksOf(list)) = n
        /\ ChunksOf(list) \in SUBSET set
    BY <1>1, ChunksCount
  <1>3. ASSUME NEW i \in 1..n
        PROVE  list[i].chunk \in Rivals(q, c, set)
    <2>1. list[i] \in Members(list) /\ list[i].chunk \in ChunksOf(list)
      BY <1>1 DEF Members, ChunksOf
    <2>2. list[i].value = Score[q][list[i].chunk.text] /\ list[i].chunk \in set \ {c}
      BY <1>2, <2>1
    <2> QED
      BY <1>1, <2>2 DEF Rivals
  <1>4. ChunksOf(list) \in SUBSET Rivals(q, c, set)
    BY <1>1, <1>3 DEF ChunksOf
  <1>5. IsFiniteSet(Rivals(q, c, set))
    <2>1. Rivals(q, c, set) \in SUBSET set
      BY DEF Rivals
    <2> QED
      BY <2>1, FS_Subset
  <1>6. Cardinality(ChunksOf(list)) <= Cardinality(Rivals(q, c, set))
    BY <1>4, <1>5, FS_Subset
  <1> QED
    BY <1>2, <1>5, <1>6, FS_CardinalityType

Similar(q, list) == \A x \in Members(list) : x.value = Score[q][x.chunk.text]

\* A ranking by similarity, and what its cut leaves out.
LEMMA RankedLeaves ==
    ASSUME NEW q \in Query, NEW set, IsFiniteSet(set), NEW all, NEW n \in Nat,
           all = {[chunk |-> c, value |-> Score[q][c.text]] : c \in set},
           \A c \in set : Score[q][c.text] \in Int
    PROVE  LET list == Cut(Ranked(all), n)
           IN  /\ Ranked(all) \in Seq(Result(set)) /\ Once(Ranked(all)) /\ Descends(Ranked(all))
               /\ list \in Seq(Result(set)) /\ Once(list) /\ Descends(list) /\ Similar(q, list)
               /\ \A c \in set \ ChunksOf(list) : Cardinality(Rivals(q, c, set)) >= n
  <1> DEFINE value == [c \in set |-> Score[q][c.text]]
             list == Cut(Ranked(all), n)
  <1>1. all = Valued(set, value)
    BY DEF Valued
  <1>2. /\ all \in SUBSET Result(set) /\ IsFiniteSet(all)
        /\ \A x, y \in all : x.chunk = y.chunk => x = y
    <2>1. \A c \in set : value[c] \in Int
      OBVIOUS
    <2> HIDE DEF value
    <2> QED
      BY <1>1, <2>1, ValuedIs
  <1> HIDE DEF value
  <1>3. /\ Ranked(all) \in Seq(Result(set)) /\ Once(Ranked(all)) /\ Descends(Ranked(all))
        /\ Members(Ranked(all)) = all
    BY <1>2, RankedIs
  <1>4. list \in Seq(Result(set)) /\ Once(list) /\ Descends(list)
    BY <1>3, CutListKeeps
  <1>5. /\ Members(list) \in SUBSET all
        /\ \A x \in all \ Members(list) : Leads(list, n, x.value)
    BY <1>3, CutLeaves
  <1> HIDE DEF list
  <1>6. Similar(q, list)
    BY <1>5 DEF Similar
  <1>7. ASSUME NEW c \in set \ ChunksOf(list)
        PROVE  Cardinality(Rivals(q, c, set)) >= n
    <2> DEFINE x == [chunk |-> c, value |-> Score[q][c.text]]
    <2>1. x \in all /\ x.chunk = c /\ x.value = Score[q][c.text]
      OBVIOUS
    <2>2. x \notin Members(list)
      BY <1>7, <2>1 DEF Members, ChunksOf
    <2>3. Leads(list, n, Score[q][c.text])
      BY <1>5, <2>1, <2>2
    <2> QED
      BY <1>4, <1>6, <1>7, <2>3, LeadersAreRivals DEF Similar
  <1> QED
    BY <1>3, <1>4, <1>6, <1>7 DEF list

\* What a store's search answers, and what it leaves out.
LEMMA StoreSearchLeaves ==
    ASSUME StoreInv, job = Resting, NEW q \in Query, NEW n \in Nat, NEW prefixed \in BOOLEAN
    PROVE  LET list == StoreSearch(q, n, prefixed)
           IN  /\ Similar(q, list)
               /\ \A c \in Under(prefixed) \ ChunksOf(list) :
                     \/ Cardinality(Rivals(q, c, Under(prefixed))) >= n
                     \/ /\ backend = "qdrant" /\ prefixed
                        /\ Cardinality(Rivals(q, c, chunks)) >= 2 * n
  <1> DEFINE under == Under(prefixed)
             value == [c \in chunks |-> Score[q][c.text]]
             Of(set) == {[chunk |-> c, value |-> Score[q][c.text]] : c \in set}
             list == StoreSearch(q, n, prefixed)
             Left(c) == \/ Cardinality(Rivals(q, c, under)) >= n
                        \/ /\ backend = "qdrant" /\ prefixed
                           /\ Cardinality(Rivals(q, c, chunks)) >= 2 * n
  <1>1. /\ IsFiniteSet(chunks) /\ IsFiniteSet(under) /\ under \in SUBSET chunks
        /\ \A c \in chunks : Score[q][c.text] \in Int
    BY Indexed, StoreAssumption
  <1>2. \A set \in SUBSET chunks : Valued(set, value) = Of(set)
    BY DEF Valued
  <1>3. under \in SUBSET chunks /\ chunks \in SUBSET chunks
    BY <1>1
  <1>4. CASE backend # "qdrant"
    <2> DEFINE all == Of(under)
    <2>1. list = Cut(Ranked(all), n)
      BY <1>2, <1>3, <1>4 DEF StoreSearch
    <2>2. all = {[chunk |-> c, value |-> Score[q][c.text]] : c \in under}
      OBVIOUS
    <2> HIDE DEF all, under, list
    <2>3. /\ Similar(q, list)
          /\ \A c \in under \ ChunksOf(list) : Cardinality(Rivals(q, c, under)) >= n
      BY <1>1, <2>1, <2>2, RankedLeaves
    <2> QED
      BY <2>3 DEF list, under
  <1>5. CASE backend = "qdrant"
    <2> DEFINE all == Of(chunks)
               m == IF prefixed THEN 2 * n ELSE n
               twice == Cut(Ranked(all), m)
               places == {i \in DOMAIN twice : twice[i].chunk \in under}
               some == Only(twice, places)
    <2>1. list = Cut(some, n)
      BY <1>2, <1>3, <1>5 DEF StoreSearch
    <2>2. m \in Nat /\ all = {[chunk |-> c, value |-> Score[q][c.text]] : c \in chunks}
      OBVIOUS
    <2> HIDE DEF all, list, under, m
    <2>3. /\ twice \in Seq(Result(chunks)) /\ Once(twice) /\ Descends(twice) /\ Similar(q, twice)
          /\ \A c \in chunks \ ChunksOf(twice) : Cardinality(Rivals(q, c, chunks)) >= m
      BY <1>1, <2>2, RankedLeaves
    <2> HIDE DEF twice
    <2>4. places \in SUBSET DOMAIN twice
      OBVIOUS
    <2>5. /\ some \in Seq(Result(chunks)) /\ Once(some) /\ Descends(some)
          /\ ChunksOf(some) = {twice[i].chunk : i \in places}
      BY <2>3, <2>4, OnlyKeeps
    <2>6. Members(some) \in SUBSET Members(twice)
      <3> HIDE DEF places
      <3>1. PICK e \in [1..Cardinality(places) -> places] :
                \A k \in 1..Cardinality(places) : some[k] = twice[e[k]]
        BY <2>3, <2>4, OnlyIs
      <3>2. DOMAIN some = 1..Cardinality(places)
        BY <2>3, <2>4, OnlyKeeps, ListIs
      <3>3. \A k \in DOMAIN some : e[k] \in DOMAIN twice /\ some[k] = twice[e[k]]
        BY <2>4, <3>1, <3>2
      <3> HIDE DEF some
      <3>4. ASSUME NEW x \in Members(some)
            PROVE  x \in Members(twice)
        <4>1. PICK k \in DOMAIN some : x = some[k]
          BY DEF Members
        <4> QED
          BY <3>3, <4>1 DEF Members
      <3> QED
        BY <3>4
    <2> HIDE DEF some
    <2>7. /\ Members(list) \in SUBSET Members(some) /\ list \in Seq(Result(chunks)) /\ Once(list)
          /\ \A x \in Members(some) \ Members(list) : Leads(list, n, x.value)
      BY <2>1, <2>5, CutLeaves, CutListKeeps
    <2>8. Similar(q, list)
      BY <2>3, <2>6, <2>7 DEF Similar
    <2>9. ChunksOf(list) \in SUBSET under
      <3>1. ChunksOf(some) \in SUBSET under
        BY <2>5
      <3> QED
        BY <2>7, <3>1 DEF ChunksOf, Members
    <2>10. list \in Seq(Result(under))
      <3>1. \A i \in 1..Len(list) : list[i] \in Result(chunks) /\ list[i].chunk \in under
        BY <2>7, <2>9, ListIs DEF ChunksOf
      <3>2. \A i \in 1..Len(list) : list[i] \in Result(under)
        BY <3>1 DEF Result
      <3> QED
        BY <2>7, <3>2, SeqWithin
    <2>11. ASSUME NEW c \in under \ ChunksOf(list)
           PROVE  \/ Cardinality(Rivals(q, c, under)) >= n
                  \/ prefixed /\ Cardinality(Rivals(q, c, chunks)) >= 2 * n
      <3>1. CASE c \in ChunksOf(twice)
        <4>1. PICK i \in DOMAIN twice : twice[i].chunk = c
          BY <3>1 DEF ChunksOf
        <4>2. i \in places /\ twice[i] \in Members(twice)
          BY <2>11, <4>1 DEF Members
        <4>3. c \in ChunksOf(some)
          BY <2>5, <4>1, <4>2
        <4>4. PICK x \in Members(some) : x.chunk = c
          BY <4>3 DEF ChunksOf, Members
        <4>5. x \notin Members(list) /\ x.value = Score[q][c.text]
          BY <2>3, <2>6, <2>11, <4>4 DEF Similar, Members, ChunksOf
        <4>6. Leads(list, n, Score[q][c.text])
          BY <2>7, <4>4, <4>5
        <4>7. Cardinality(Rivals(q, c, under)) >= n
          BY <1>1, <2>7, <2>8, <2>10, <2>11, <4>6, LeadersAreRivals DEF Similar
        <4> QED
          BY <4>7
      <3>2. CASE c \notin ChunksOf(twice)
        <4>1. Cardinality(Rivals(q, c, chunks)) >= m
          BY <1>1, <2>3, <2>11, <3>2
        <4>2. CASE prefixed
          BY <4>1, <4>2 DEF m
        <4>3. CASE ~prefixed
          <5>1. under = chunks /\ m = n
            BY <4>3 DEF under, m, Under
          <5> QED
            BY <4>1, <5>1
        <4> QED
          BY <4>2, <4>3
      <3> QED
        BY <3>1, <3>2
    <2> QED
      BY <1>5, <2>8, <2>11 DEF list, under
  <1> QED
    BY <1>4, <1>5

\* Boosted, a result has its chunk's weight.
LEMMA BoostedWeigh ==
    ASSUME StoreInv, job = Resting, NEW q \in Query, NEW prefixed \in BOOLEAN, NEW n \in Nat,
           NEW list, Answers(list, prefixed, n), Similar(q, list)
    PROVE  /\ \A x \in Members(ApplyBoost(list)) : x.value = Weight(q, x.chunk)
           /\ ChunksOf(ApplyBoost(list)) = ChunksOf(list)
  <1> DEFINE under == Under(prefixed)
             new == [i \in DOMAIN list |-> [list[i] EXCEPT !.value = @ * Boost[list[i].chunk.path]]]
  <1>1. /\ list \in Seq(Result(under)) /\ Len(list) \in Nat
        /\ DOMAIN list = 1..Len(list) /\ \A i \in 1..Len(list) : list[i] \in Result(under)
    BY ListIs DEF Answers
  <1>2. ASSUME NEW i \in 1..Len(list)
        PROVE  /\ new[i] \in Result(under) /\ new[i].chunk = list[i].chunk
               /\ new[i].value = Weight(q, new[i].chunk)
    <2>1. list[i].chunk \in under /\ list[i].value \in Int /\ list[i] \in Result(under)
      BY <1>1 DEF Result
    <2>2. Boost[list[i].chunk.path] \in Int
      BY <2>1, Indexed, StoreAssumption
    <2>3. list[i].value * Boost[list[i].chunk.path] \in Int
      BY <2>1, <2>2
    <2>4. new[i] = [list[i] EXCEPT !.value = list[i].value * Boost[list[i].chunk.path]]
      BY <1>1
    <2>5. list[i].value = Score[q][list[i].chunk.text]
      BY <1>1 DEF Similar, Members
    <2>6. new[i].chunk = list[i].chunk /\ new[i].value = list[i].value * Boost[list[i].chunk.path]
      BY <2>1, <2>4 DEF Result
    <2> QED
      BY <2>1, <2>3, <2>4, <2>5, <2>6 DEF Result, Weight
  <1>3. DOMAIN new = 1..Len(list)
    BY <1>1
  <1>4. ApplyBoost(list) = Sorted(new)
    BY DEF ApplyBoost
  <1> HIDE DEF new
  <1>5. new \in Seq(Result(under))
    <2>1. new = [i \in 1..Len(list) |-> new[i]]
      BY <1>3 DEF new
    <2>2. new \in [1..Len(list) -> Result(under)]
      BY <1>2, <2>1
    <2> QED
      BY <1>1, <2>2
  <1>6. Members(ApplyBoost(list)) = Members(new) /\ ChunksOf(ApplyBoost(list)) = ChunksOf(new)
    BY <1>4, <1>5, SortedIs
  <1>7. \A x \in Members(new) : x.value = Weight(q, x.chunk)
    BY <1>2, <1>3 DEF Members
  <1>8. ChunksOf(new) = ChunksOf(list)
    BY <1>1, <1>2, <1>3 DEF ChunksOf
  <1> QED
    BY <1>6, <1>7, <1>8

\* A file's result is no less than any other of the file.
LEMMA DedupLeaves ==
    ASSUME NEW C, NEW list \in Seq(Result(C)), Descends(list)
    PROVE  LET one == DeduplicateByFile(list)
           IN  /\ Members(one) \in SUBSET Members(list)
               /\ \A x \in Members(list) : \E y \in Members(one) :
                     y.chunk.path = x.chunk.path /\ y.value >= x.value
  <1> DEFINE path(i) == list[i].chunk.path
             firsts == {i \in DOMAIN list : \A j \in 1..i - 1 : path(j) # path(i)}
             one == Only(list, firsts)
  <1>1. /\ Len(list) \in Nat /\ DOMAIN list = 1..Len(list)
        /\ \A i \in 1..Len(list) : list[i] \in Result(C)
    BY ListIs
  <1>2. DeduplicateByFile(list) = one
    BY DEF DeduplicateByFile
  <1>3. firsts \in SUBSET DOMAIN list
    OBVIOUS
  <1>4. ASSUME NEW i \in DOMAIN list
        PROVE  \E j \in firsts : path(j) = path(i) /\ list[j].value >= list[i].value
    <2> DEFINE T == {j \in DOMAIN list : path(j) = path(i)}
    <2>1. T \in SUBSET Nat /\ T # {} /\ i \in T
      BY <1>1
    <2> HIDE DEF T
    <2>2. PICK j \in T : \A k \in T : j <= k
      BY <2>1, Smallest
    <2>3. j \in DOMAIN list /\ path(j) = path(i) /\ j <= i
      BY <2>1, <2>2 DEF T
    <2>4. ASSUME NEW k \in 1..j - 1
          PROVE  path(k) # path(j)
      <3>1. k \in DOMAIN list /\ k < j
        BY <1>1, <2>3
      <3>2. k \notin T
        BY <1>1, <2>2, <2>3, <3>1
      <3> QED
        BY <2>3, <3>1, <3>2 DEF T
    <2>5. list[j].value >= list[i].value
      <3>1. list[i].value \in Int
        BY <1>1 DEF Result
      <3> QED
        BY <1>1, <2>3, <3>1 DEF Descends
    <2> QED
      BY <2>3, <2>4, <2>5
  <1> HIDE DEF firsts, path
  <1>5. PICK e \in [1..Cardinality(firsts) -> firsts] :
            /\ \A k \in 1..Cardinality(firsts) : one[k] = list[e[k]]
            /\ \A i \in firsts : \E k \in 1..Cardinality(firsts) : e[k] = i
    BY <1>3, OnlyIs
  <1>6. DOMAIN one = 1..Cardinality(firsts)
    BY <1>3, OnlyIs, ListIs
  <1> HIDE DEF one
  <1>7. Members(one) \in SUBSET Members(list)
    BY <1>3, <1>5, <1>6 DEF Members
  <1>8. ASSUME NEW x \in Members(list)
        PROVE  \E y \in Members(one) : y.chunk.path = x.chunk.path /\ y.value >= x.value
    <2>1. PICK i \in DOMAIN list : x = list[i]
      BY DEF Members
    <2>2. PICK j \in firsts : path(j) = path(i) /\ list[j].value >= list[i].value
      BY <1>4
    <2>3. list[j] \in Members(one)
      BY <1>5, <1>6, <2>2 DEF Members
    <2> QED
      BY <2>1, <2>2, <2>3 DEF path
  <1> QED
    BY <1>2, <1>7, <1>8

\* What is answered has its weight, and what is not is outdone.
LEMMA SearchLeaves ==
    ASSUME StoreInv, job = Resting, NEW q \in Query, NEW n \in Nat, NEW prefixed \in BOOLEAN,
           NEW dedup \in BOOLEAN
    PROVE  LET r == Search(q, n, prefixed, dedup, FALSE)
           IN  /\ \A x \in Members(r) : x.value = Weight(q, x.chunk)
               /\ \A c \in Under(prefixed) \ ChunksOf(r) : Outdone(q, c, r, n, prefixed, dedup)
  <1> DEFINE under == Under(prefixed)
             fetch == FetchLimit(n, dedup)
             list == StoreSearch(q, fetch, prefixed)
             boosted == ApplyBoost(list)
             one == IF dedup THEN DeduplicateByFile(boosted) ELSE boosted
             r == Cut(one, n)
  <1>1. Search(q, n, prefixed, dedup, FALSE) = r
    BY DEF Search, Fetched
  <1>2. fetch \in Nat
    BY DEF FetchLimit
  <1> HIDE DEF fetch
  <1>3. /\ Answers(list, prefixed, fetch) /\ Similar(q, list)
        /\ \A c \in under \ ChunksOf(list) :
              \/ Cardinality(Rivals(q, c, under)) >= fetch
              \/ /\ backend = "qdrant" /\ prefixed
                 /\ Cardinality(Rivals(q, c, chunks)) >= 2 * fetch
    BY <1>2, StoreSearchIs, StoreSearchLeaves
  <1> HIDE DEF list, under
  <1>4. /\ Answers(boosted, prefixed, fetch) /\ Descends(boosted)
        /\ \A x \in Members(boosted) : x.value = Weight(q, x.chunk)
        /\ ChunksOf(boosted) = ChunksOf(list)
    BY <1>2, <1>3, BoostedIs, BoostedWeigh
  <1> HIDE DEF boosted
  <1>5. boosted \in Seq(Result(under))
    BY <1>4 DEF Answers, under
  <1>6. /\ one \in Seq(Result(under)) /\ Descends(one)
        /\ Members(one) \in SUBSET Members(boosted)
        /\ \A x \in Members(boosted) : \E y \in Members(one) :
              /\ dedup => y.chunk.path = x.chunk.path
              /\ ~dedup => y = x
              /\ y.value >= x.value
    <2>1. CASE dedup
      BY <1>2, <1>4, <1>5, <2>1, DedupIs, DedupLeaves DEF under
    <2>2. CASE ~dedup
      <3>1. \A x \in Members(boosted) : x.value \in Int
        BY <1>5, MembersWeigh
      <3> QED
        BY <1>4, <1>5, <2>2, <3>1
    <2> QED
      BY <2>1, <2>2
  <1> HIDE DEF one
  <1>7. /\ Members(r) \in SUBSET Members(one)
        /\ \A x \in Members(one) \ Members(r) : Leads(r, n, x.value)
        /\ r \in Seq(Result(under))
    BY <1>6, CutLeaves, CutListKeeps
  <1> HIDE DEF r
  <1>8. \A x \in Members(r) : x.value = Weight(q, x.chunk)
    BY <1>4, <1>6, <1>7
  <1>9. ASSUME NEW c \in under \ ChunksOf(r)
        PROVE  Outdone(q, c, r, n, prefixed, dedup)
    <2>1. CASE c \notin ChunksOf(list)
      BY <1>3, <1>9, <2>1 DEF Outdone, fetch, under
    <2>2. CASE c \in ChunksOf(list)
      <3>1. PICK x \in Members(boosted) : x.chunk = c
        BY <1>4, <2>2 DEF ChunksOf, Members
      <3>2. x.value = Weight(q, c)
        BY <1>4, <3>1
      <3>3. PICK y \in Members(one) :
                /\ dedup => y.chunk.path = x.chunk.path
                /\ ~dedup => y = x
                /\ y.value >= x.value
        BY <1>6
      <3>4. CASE y \in Members(r)
        <4>1. dedup
          BY <1>9, <3>1, <3>3, <3>4 DEF Members, ChunksOf
        <4>2. \E i \in DOMAIN r : r[i].chunk.path = c.path /\ r[i].value >= Weight(q, c)
          BY <3>1, <3>2, <3>3, <3>4, <4>1 DEF Members
        <4> QED
          BY <4>1, <4>2 DEF Outdone
      <3>5. CASE y \notin Members(r)
        <4>1. Len(r) = n /\ \A i \in DOMAIN r : r[i].value >= y.value
          BY <1>7, <3>3, <3>5 DEF Leads
        <4>2. x.value \in Int /\ y.value \in Int /\ \A i \in DOMAIN r : r[i].value \in Int
          BY <1>5, <1>6, <1>7, <3>1, <3>3, MembersWeigh
        <4>3. \A i \in DOMAIN r : r[i].value >= Weight(q, c)
          BY <3>2, <3>3, <4>1, <4>2
        <4> QED
          BY <4>1, <4>3 DEF Outdone
      <3> QED
        BY <3>4, <3>5
    <2> QED
      BY <2>1, <2>2
  <1> QED
    BY <1>1, <1>8, <1>9 DEF under

LEMMA InvIsSearchSound == StoreInv => SearchSound
  <1> SUFFICES ASSUME StoreInv, job = Resting,
                      NEW q \in Query, NEW n \in 1..2, NEW prefixed \in BOOLEAN,
                      NEW dedup \in BOOLEAN, NEW hybrid \in BOOLEAN
               PROVE  LET r == Search(q, n, prefixed, dedup, hybrid)
                          found == {r[i].chunk : i \in DOMAIN r}
                          wanted == IF dedup THEN {c.path : c \in Under(prefixed)} ELSE Under(prefixed)
                          all == IF Cardinality(wanted) < n THEN Cardinality(wanted) ELSE n
                          exhaustive == dedup => \A p \in StoredPath :
                              Cardinality({c \in chunks : c.path = p}) <= FetchLimit(1, dedup)
                      IN  /\ Len(r) <= n /\ found \subseteq Under(prefixed)
                          /\ \A i, j \in DOMAIN r : i < j =>
                                /\ r[i].value >= r[j].value /\ r[i].chunk # r[j].chunk
                                /\ dedup => r[i].chunk.path # r[j].chunk.path
                          /\ exhaustive /\ ~(backend = "qdrant" /\ (prefixed \/ hybrid)) => Len(r) = all
                          /\ ~hybrid =>
                                /\ \A i \in DOMAIN r : r[i].value = Weight(q, r[i].chunk)
                                /\ \A c \in Under(prefixed) \ found :
                                      Outdone(q, c, r, n, prefixed, dedup)
    BY DEF SearchSound
  <1> DEFINE under == Under(prefixed)
             fetch == FetchLimit(n, dedup)
             fetched == Fetched(q, n, prefixed, dedup, hybrid)
             boosted == ApplyBoost(fetched)
             one == IF dedup THEN DeduplicateByFile(boosted) ELSE boosted
             r == Cut(one, n)
             few == \A p \in StoredPath : Cardinality({c \in chunks : c.path = p}) <= 4
             whole == ~(backend = "qdrant" /\ (prefixed \/ hybrid))
             wanted == IF dedup THEN PathsOf(under) ELSE under
  <1>1. Search(q, n, prefixed, dedup, hybrid) = r
    BY DEF Search
  <1>14. ASSUME ~hybrid
         PROVE  /\ \A i \in DOMAIN r : r[i].value = Weight(q, r[i].chunk)
                /\ \A c \in under \ {r[i].chunk : i \in DOMAIN r} :
                      Outdone(q, c, r, n, prefixed, dedup)
    <2>0. hybrid = FALSE
      BY <1>14
    <2> HIDE DEF r
    <2>1. n \in Nat /\ Search(q, n, prefixed, dedup, FALSE) = r
      <3>1. n \in Nat
        OBVIOUS
      <3>2. Search(q, n, prefixed, dedup, FALSE) = r
        BY <1>1, <2>0, Zenon
      <3> QED
        BY <3>1, <3>2
    <2>2. /\ \A x \in Members(r) : x.value = Weight(q, x.chunk)
          /\ \A c \in under \ ChunksOf(r) : Outdone(q, c, r, n, prefixed, dedup)
      BY <2>1, SearchLeaves
    <2> QED
      BY <2>2 DEF Members, ChunksOf
  <1>2. /\ fetch \in Nat /\ Answers(fetched, prefixed, fetch)
        /\ whole => Len(fetched) = Least(fetch, Cardinality(under))
    BY FetchedIs
  <1>3. fetch = IF dedup THEN n * 4 ELSE n * 2
    BY DEF FetchLimit
  <1>4. FetchLimit(1, dedup) = IF dedup THEN 4 ELSE 2
    BY DEF FetchLimit
  <1> HIDE DEF fetch, fetched
  <1>5. /\ Answers(boosted, prefixed, fetch) /\ Descends(boosted) /\ Len(boosted) = Len(fetched)
    BY <1>2, BoostedIs
  <1> HIDE DEF boosted
  <1>6. boosted \in Seq(Result(under)) /\ Once(boosted) /\ Len(boosted) \in Nat
    BY <1>5 DEF Answers
  <1>7. /\ one \in Seq(Result(under)) /\ Once(one) /\ Descends(one)
        /\ dedup => /\ \A k, l \in DOMAIN one : k < l => one[k].chunk.path # one[l].chunk.path
                    /\ Len(one) = Cardinality(PathsOf(ChunksOf(boosted)))
        /\ ~dedup => Len(one) = Len(boosted)
    BY <1>2, <1>5, <1>6, DedupIs
  <1> HIDE DEF one
  <1>8. /\ r \in Seq(Result(under)) /\ Len(r) = Least(n, Len(one)) /\ Len(r) <= n
        /\ Once(r) /\ Descends(r)
        /\ DOMAIN r = 1..Least(n, Len(one))
        /\ \A i \in 1..Least(n, Len(one)) : r[i] = one[i] /\ i \in DOMAIN one
    <2>1. /\ r \in Seq(Result(under)) /\ Len(r) = Least(n, Len(one)) /\ Len(r) <= n
          /\ Once(r) /\ Descends(r)
      BY <1>7, CutListKeeps
    <2>2. /\ DOMAIN r = 1..Least(n, Len(one))
          /\ \A i \in 1..Least(n, Len(one)) : r[i] = one[i] /\ i \in DOMAIN one
      <3>1. n \in Nat
        OBVIOUS
      <3> QED
        BY <1>7, <3>1, CutIs DEF r
    <2> QED
      BY <2>1, <2>2
  <1> HIDE DEF r
  <1>9. {r[i].chunk : i \in DOMAIN r} \subseteq under
    <2>1. DOMAIN r = 1..Len(r) /\ \A i \in 1..Len(r) : r[i] \in Result(under)
      BY <1>8, ListIs
    <2> QED
      BY <2>1 DEF Result
  <1>10. ASSUME NEW i \in DOMAIN r, NEW j \in DOMAIN r, i < j
         PROVE  /\ r[i].value >= r[j].value /\ r[i].chunk # r[j].chunk
                /\ dedup => r[i].chunk.path # r[j].chunk.path
    <2>1. r[i].value >= r[j].value /\ r[i].chunk # r[j].chunk
      BY <1>8, <1>10 DEF Once, Descends
    <2>2. ASSUME dedup
          PROVE  r[i].chunk.path # r[j].chunk.path
      <3>1. r[i] = one[i] /\ r[j] = one[j] /\ i \in DOMAIN one /\ j \in DOMAIN one
        BY <1>8
      <3> QED
        BY <1>7, <1>10, <2>2, <3>1
    <2> QED
      BY <2>1, <2>2
  <1>11. IsFiniteSet(under) /\ Cardinality(under) \in Nat
    BY Indexed, FS_CardinalityType
  <1>12. ASSUME whole, dedup => few
         PROVE  Len(r) = Least(Cardinality(wanted), n)
    <2>1. Len(boosted) = Least(fetch, Cardinality(under))
      BY <1>2, <1>5, <1>12
    <2>2. CASE ~dedup
      <3>1. Len(one) = Least(n * 2, Cardinality(under)) /\ wanted = under
        BY <1>3, <1>7, <2>1, <2>2
      <3> QED
        BY <1>8, <1>11, <3>1 DEF Least
    <2>3. CASE dedup
      <3>1. n \in Nat /\ 4 \in Nat \ {0} /\ Len(boosted) = Least(n * 4, Cardinality(under)) /\ few
        BY <1>3, <1>12, <2>1, <2>3
      <3>2. /\ Cardinality(PathsOf(under)) \in Nat
            /\ Least(n, Cardinality(PathsOf(ChunksOf(boosted)))) = Least(n, Cardinality(PathsOf(under)))
        BY <1>6, <3>1, EnoughFiles
      <3>3. Len(r) = Least(n, Cardinality(PathsOf(under))) /\ wanted = PathsOf(under)
        BY <1>7, <1>8, <2>3, <3>2
      <3> QED
        BY <3>2, <3>3 DEF Least
    <2> QED
      BY <2>2, <2>3
  <1>13. wanted = IF dedup THEN {c.path : c \in under} ELSE under
    BY DEF PathsOf
  <1> HIDE DEF whole, few, wanted
  <1> QED
    BY <1>1, <1>4, <1>8, <1>9, <1>10, <1>12, <1>13, <1>14 DEF Least, whole, few

\* At any moment, whichever store there is, whatever call of the indexer has failed and
\* whatever index file a command has written back: a search between two calls of the
\* indexer sees all chunks of one content of a file or none, a document that keeps its
\* file from being indexed is backed by its content's chunks, and what is answered is
\* asked for, in order, told once, as many as promised, and what is not answered is
\* outdone by similarity among what is fetched or by weight among what is answered.
THEOREM StoresAlwaysSound == StoreSpec => []StoresAreSound
  <1>1. StoreInit => StoreInv
    BY InitStoreInv
  <1>2. StoreInv /\ [StoreNext]_storeVars => StoreInv'
    BY StoreStep
  <1>3. StoreInv => StoresAreSound
    BY InvIsOneContent, InvIsSearchSound DEF StoresAreSound
  <1> QED
    BY <1>1, <1>2, <1>3, PTL DEF StoreSpec
=============================================================================
