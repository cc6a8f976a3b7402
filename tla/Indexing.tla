------------------------------- MODULE Indexing -------------------------------
(***************************************************************************)
(* A document becomes chunks, and the chunks become rows with a vector     *)
(* each, through an embedding model that refuses a request for the number  *)
(* of its texts or for the length of one.  The limits are the provider's   *)
(* and unknown to the service, which finds them by halving.  A text is the *)
(* sequence of its characters, and a letter is its place in the document.  *)
(* One step of the model is one request.                                   *)
(***************************************************************************)
EXTENDS Naturals, Sequences, SequencesExt

CONSTANTS
    Target,       \* target_chars
    Overlap,      \* overlap_chars
    BatchSize,    \* embedding_batch_size
    MaxChunks,    \* index_max_chunks, 0 for no cap
    SplitDepth,   \* _MAX_SPLIT_DEPTH
    TruncateTo,   \* _TRUNCATE_CHARS
    LineLengths,  \* how long a line may be
    MaxLines,     \* lines of a block
    MaxBlocks,    \* blocks of a document
    Limits        \* the providers: [items, length], the most of each they take

ASSUME IndexingAssumption ==
    /\ {Target, Overlap, MaxChunks, SplitDepth, TruncateTo, MaxLines, MaxBlocks} \subseteq Nat
    /\ Target > Overlap + 2 /\ TruncateTo > 0
    /\ BatchSize \in Nat \ {0} /\ LineLengths \subseteq Nat \ {0}
    /\ \A provider \in Limits : provider.length \in Nat

VARIABLES
    shape,    \* the lengths of the lines of each block (fixed)
    limit,    \* the provider (fixed)
    phase,    \* "fresh", "embedding", "indexed", "failed"
    kept,     \* the chunks that are worth and allowed an embedding
    todo,     \* the batches to embed: their texts, and how deep they were cut
    texts     \* the texts that have a vector, in order

indexingVars == <<shape, limit, phase, kept, todo, texts>>

-----------------------------------------------------------------------------
(* chunk_markdown: from a document to its chunks.                          *)
Character == Nat \X Nat \X Nat   \* of a letter: its block, its line, where in it
Break == <<0, 0, 0>>             \* a line break
Line(b, l, n) == [i \in 1..n |-> <<b, l, i>>]
Lines(b) == [l \in DOMAIN shape[b] |-> Line(b, l, shape[b][l])]
IsLetter(c) == c # Break
Strip(s) ==
    LET letters == {i \in DOMAIN s : IsLetter(s[i])}
    IN  IF letters = {} THEN <<>>
        ELSE SubSeq(s, CHOOSE i \in letters : \A j \in letters : i <= j,
                       CHOOSE i \in letters : \A j \in letters : i >= j)
Joined(s, separator, t) == IF s = <<>> THEN t ELSE s \o separator \o t
Flushed(pieces, buf) == IF buf = <<>> THEN pieces ELSE Append(pieces, buf)

(* A block is cut so that the tail of the chunk before fits with it.       *)
BlockLimit == Target - Overlap - 2

(* _split_oversized, one line: what is too long for a piece of its own is  *)
(* cut hard, and what is left of the line is packed.                       *)
AddLine(acc, line) ==
    LET full == (Len(line) - 1) \div BlockLimit
        rest == SubSeq(line, full * BlockLimit + 1, Len(line))
        cut == [k \in 1..full |-> SubSeq(line, (k - 1) * BlockLimit + 1, k * BlockLimit)]
        before == IF full = 0 THEN acc ELSE [pieces |-> Flushed(acc.pieces, acc.buf) \o cut, buf |-> <<>>]
        candidate == Joined(before.buf, <<Break>>, rest)
    IN  IF before.buf # <<>> /\ Len(candidate) > BlockLimit
        THEN [pieces |-> Append(before.pieces, before.buf), buf |-> rest]
        ELSE [pieces |-> before.pieces, buf |-> candidate]

Pieces(b) ==
    LET end == FoldLeft(AddLine, [pieces |-> <<>>, buf |-> <<>>], Lines(b))
    IN  Flushed(end.pieces, end.buf)

(* The tail of a chunk that the next begins with, from a line's start.     *)
Carried(buf) ==
    LET raw == SubSeq(buf, Len(buf) - Overlap + 1, Len(buf))
        breaks == {i \in DOMAIN raw : raw[i] = Break}
    IN  IF breaks = {} THEN raw
        ELSE SubSeq(raw, (CHOOSE i \in breaks : \A j \in breaks : i <= j) + 1, Len(raw))

AddPiece(acc, piece) ==
    LET candidate == Joined(acc.buf, <<Break, Break>>, piece)
    IN  IF acc.buf # <<>> /\ Len(candidate) > Target
        THEN [chunks |-> Append(acc.chunks, acc.buf),
              buf |-> Strip(Joined(Carried(acc.buf), <<Break, Break>>, piece))]
        ELSE [chunks |-> acc.chunks, buf |-> candidate]

Places(s) == [i \in DOMAIN s |-> i]
AllPieces == FoldLeft(LAMBDA s, b : s \o Pieces(b), <<>>, Places(shape))
Chunks ==
    LET end == FoldLeft(AddPiece, [chunks |-> <<>>, buf |-> <<>>], AllPieces)
    IN  Flushed(end.chunks, end.buf)

-----------------------------------------------------------------------------
(* Indexer.index: the chunks with something to search in them, the first   *)
(* of them if they are too many, in batches.                               *)
Worthy(all, dull) ==
    FoldLeft(LAMBDA s, i : IF i \in dull THEN s ELSE Append(s, all[i]), <<>>, Places(all))
Bounded(dull) ==
    LET some == Worthy(Chunks, dull)
    IN  IF MaxChunks > 0 /\ Len(some) > MaxChunks THEN SubSeq(some, 1, MaxChunks) ELSE some

Smaller(m, n) == IF m < n THEN m ELSE n
Batches(s) ==
    [k \in 1..((Len(s) + BatchSize - 1) \div BatchSize) |->
        [texts |-> SubSeq(s, (k - 1) * BatchSize + 1, Smaller(k * BatchSize, Len(s))), depth |-> 0]]

IndexingInit ==
    /\ shape \in BoundedSeq(UNION {[1..n -> LineLengths] : n \in 1..MaxLines}, MaxBlocks)
    /\ limit \in Limits
    /\ phase = "fresh" /\ kept = <<>> /\ todo = <<>> /\ texts = <<>>

(* Any of the chunks may be long and without variety.                      *)
Start ==
    /\ phase = "fresh" /\ phase' = "embedding"
    /\ \E dull \in {{}} \cup {{i} : i \in DOMAIN Chunks} :
          kept' = Bounded(dull) /\ todo' = Batches(Bounded(dull))
    /\ UNCHANGED <<shape, limit, texts>>

(* What the provider says to a request.                                    *)
TooMany(request) == Len(request) > limit.items
TooLong(request) == \E i \in DOMAIN request : Len(request[i]) > limit.length
Takes(request) == ~TooMany(request) /\ ~TooLong(request)
Halves(s) == <<SubSeq(s, 1, Len(s) \div 2), SubSeq(s, Len(s) \div 2 + 1, Len(s))>>

Top == Head(todo)
Single == Top.texts[1]
Embedding == phase = "embedding" /\ todo # <<>>

Accepted ==
    /\ Embedding /\ Takes(Top.texts)
    /\ texts' = texts \o Top.texts /\ todo' = Tail(todo)
    /\ UNCHANGED <<shape, limit, phase, kept>>

(* A refused batch is halved; the left half comes first.                   *)
RightFirst(halves, depth) ==   \* mutant: the right half comes first
    <<[texts |-> halves[2], depth |-> depth], [texts |-> halves[1], depth |-> depth]>>
LeftFirst(halves, depth) ==
    <<[texts |-> halves[1], depth |-> depth], [texts |-> halves[2], depth |-> depth]>>

Halve ==
    /\ Embedding /\ ~Takes(Top.texts) /\ Len(Top.texts) > 1
    /\ todo' = LeftFirst(Halves(Top.texts), Top.depth) \o Tail(todo)
    /\ UNCHANGED <<shape, limit, phase, kept, texts>>

(* One text that is still too many: the real error is let out.             *)
CountGivesUp ==
    /\ Embedding /\ Len(Top.texts) = 1 /\ TooMany(Top.texts)
    /\ phase' = "failed" /\ UNCHANGED <<shape, limit, kept, todo, texts>>

(* One text that is too long: it is cut in two, down to a depth; then only *)
(* its beginning is tried, and what is refused even so is left out.        *)
TooDeep(depth) == depth >= SplitDepth

Cut ==
    /\ Embedding /\ Len(Top.texts) = 1 /\ ~TooMany(Top.texts) /\ TooLong(Top.texts)
    /\ ~TooDeep(Top.depth) /\ Len(Single) >= 2
    /\ todo' = LeftFirst([h \in 1..2 |-> <<Halves(Single)[h]>>], Top.depth + 1) \o Tail(todo)
    /\ UNCHANGED <<shape, limit, phase, kept, texts>>

Truncate ==
    LET short == <<SubSeq(Single, 1, Smaller(TruncateTo, Len(Single)))>>
    IN  /\ Embedding /\ Len(Top.texts) = 1 /\ ~TooMany(Top.texts) /\ TooLong(Top.texts)
        /\ TooDeep(Top.depth) \/ Len(Single) < 2
        /\ texts' = IF Takes(short) THEN texts \o short ELSE texts
        /\ todo' = Tail(todo)
        /\ UNCHANGED <<shape, limit, phase, kept>>

(* Any other error of the provider ends the call; the rows of before stay. *)
Outage ==
    /\ Embedding /\ phase' = "failed" /\ UNCHANGED <<shape, limit, kept, todo, texts>>

Replace ==
    /\ phase = "embedding" /\ todo = <<>> /\ phase' = "indexed"
    /\ UNCHANGED <<shape, limit, kept, todo, texts>>

IndexingNext ==
    Start \/ Accepted \/ Halve \/ CountGivesUp \/ Cut \/ Truncate \/ Outage \/ Replace

IndexingSpec == IndexingInit /\ [][IndexingNext]_indexingVars

-----------------------------------------------------------------------------
Letters(s) == {s[i] : i \in DOMAIN s} \ {Break}
AllLetters(ss) == UNION {Letters(ss[i]) : i \in DOMAIN ss}

(* However blocks, lines and tails fall together, no chunk is longer than  *)
(* the target and every letter of the document is in a chunk.              *)
ChunksFit ==
    phase = "fresh" =>
    /\ \A i \in DOMAIN Chunks : Len(Chunks[i]) <= Target
    /\ \A b \in DOMAIN shape : \A l \in DOMAIN Lines(b) : Letters(Lines(b)[l]) \subseteq AllLetters(Chunks)

(* A refusal for the length of a text loses nothing, and changes no order, *)
(* where cutting is enough.                                                *)
Power[n \in 0..SplitDepth] == IF n = 0 THEN 1 ELSE 2 * Power[n - 1]
CuttingIsEnough == limit.length * Power[SplitDepth] >= Target
NothingIsLost ==
    phase = "indexed" /\ CuttingIsEnough => FlattenSeq(texts) = FlattenSeq(kept)

(* A refusal for the number of texts touches no text: however a batch has  *)
(* to be halved, the rows are the chunks that were to be embedded, in their *)
(* order, unless one of those is longer than the provider takes.           *)
NoneTooLong == \A i \in DOMAIN kept : Len(kept[i]) <= limit.length
CountsTouchNoText == phase = "indexed" /\ NoneTooLong => texts = kept

(* Together: the text of a document reaches the index, as texts.           *)
KeptAreTexts == kept \in Seq(Seq(Character))
TextSurvives == KeptAreTexts /\ ChunksFit /\ NothingIsLost /\ CountsTouchNoText
=============================================================================
