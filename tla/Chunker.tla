------------------------------ MODULE Chunker ------------------------------
(***************************************************************************)
(* How a markdown file becomes chunks (indexer/chunker.go): lines are      *)
(* grouped into paragraphs and fenced blocks, pieces are packed into       *)
(* chunks of at most MaxRunes runes with an overlap carried along.  Pure;  *)
(* the inputs are enumerated in the initial states.  Every line is one     *)
(* rune, its own number; 0 is a line break.                                *)
(***************************************************************************)
EXTENDS Naturals, Sequences, FiniteSets, SequencesExt

CONSTANTS MaxRunes, OverlapRunes, MaxDocLines

ASSUME ChunkerAssumption ==
    {MaxRunes, OverlapRunes, MaxDocLines} \subseteq Nat /\ OverlapRunes < MaxRunes

\* Fences of three and of four characters; any of them can open, and close a
\* block that was opened with no more characters.
LineKinds == {"text", "blank", "head", "fence3", "fence4"}
FenceLen(kind) == IF kind = "fence3" THEN 3 ELSE IF kind = "fence4" THEN 4 ELSE 0

VARIABLES docLines, chunkList, chunked
chunkVars == <<docLines, chunkList, chunked>>

Join(ls) == [n \in 1..(IF ls = <<>> THEN 0 ELSE 2 * Len(ls) - 1) |->
                IF n % 2 = 1 THEN ls[(n + 1) \div 2] ELSE 0]
Piece(ls, protected) == [text |-> Join(ls), protected |-> protected]

FlushParagraph(s) ==
    IF s.cur = <<>> THEN s
    ELSE [s EXCEPT !.pieces = Append(@, Piece(s.cur, FALSE)), !.cur = <<>>]

\* One line of splitIntoPieces.
SplitLine(s, n, kind) ==
    IF s.open > 0
    THEN IF FenceLen(kind) >= s.open
         THEN [s EXCEPT !.pieces = Append(@, Piece(Append(s.fence, n), TRUE)), !.fence = <<>>, !.open = 0]
         ELSE [s EXCEPT !.fence = Append(@, n)]
    ELSE CASE FenceLen(kind) > 0 -> [FlushParagraph(s) EXCEPT !.open = FenceLen(kind), !.fence = <<n>>]
           [] kind = "blank" -> FlushParagraph(s)
           [] kind = "head" -> [FlushParagraph(s) EXCEPT !.cur = <<n>>]
           [] OTHER -> [s EXCEPT !.cur = Append(@, n)]

\* Defect: a block whose fence is never closed is forgotten.
BugPieces(ls) ==
    FlushParagraph(FoldLeft(LAMBDA s, n : SplitLine(s, n, ls[n]),
                            [pieces |-> <<>>, cur |-> <<>>, fence |-> <<>>, open |-> 0],
                            [n \in 1..Len(ls) |-> n])).pieces

SplitIntoPieces(ls) ==
    LET s == FoldLeft(LAMBDA s, n : SplitLine(s, n, ls[n]),
                      [pieces |-> <<>>, cur |-> <<>>, fence |-> <<>>, open |-> 0],
                      [n \in 1..Len(ls) |-> n])
        t == IF s.open > 0 THEN [s EXCEPT !.pieces = Append(@, Piece(s.fence, TRUE))] ELSE s
    IN FlushParagraph(t).pieces

OverlapTail(r) == SubSeq(r, IF Len(r) <= OverlapRunes THEN 1 ELSE Len(r) - OverlapRunes + 1, Len(r))

\* windowSplit: windows that start MaxRunes - OverlapRunes apart, until one
\* reaches the end.
WindowSplit(r) ==
    LET step == MaxRunes - OverlapRunes
        count == IF Len(r) <= MaxRunes THEN 1 ELSE 1 + (Len(r) - MaxRunes + step - 1) \div step
        from(k) == 1 + (k - 1) * step
        to(k) == IF from(k) + MaxRunes - 1 > Len(r) THEN Len(r) ELSE from(k) + MaxRunes - 1
    IN [k \in 1..count |-> SubSeq(r, from(k), to(k))]

Flush(m) == IF m.cur = <<>> THEN m
            ELSE [chunks |-> Append(m.chunks, m.cur), cur |-> OverlapTail(m.cur)]
Joined(cur, text) == IF cur = <<>> THEN text ELSE cur \o <<0, 0>> \o text

\* Defect: the overlap stays in front of a piece it does not fit with.
BugMergePiece(m, p) ==
    IF p.protected
    THEN LET f == Flush(m) IN [chunks |-> Append(f.chunks, Joined(f.cur, p.text)), cur |-> OverlapTail(p.text)]
    ELSE IF Len(Joined(m.cur, p.text)) <= MaxRunes THEN [m EXCEPT !.cur = Joined(@, p.text)]
    ELSE LET f == Flush(m) IN [f EXCEPT !.cur = Joined(@, p.text)]

\* One piece of mergePieces.
MergePiece(m, p) ==
    IF p.protected
    THEN LET f == Flush(m) IN [chunks |-> Append(f.chunks, Joined(f.cur, p.text)), cur |-> OverlapTail(p.text)]
    ELSE IF Len(p.text) > MaxRunes
    THEN LET w == WindowSplit(Joined(m.cur, p.text))
         IN [chunks |-> m.chunks \o w, cur |-> OverlapTail(w[Len(w)])]
    ELSE IF Len(Joined(m.cur, p.text)) <= MaxRunes THEN [m EXCEPT !.cur = Joined(@, p.text)]
    ELSE LET f == Flush(m)
         IN [f EXCEPT !.cur = IF Len(Joined(@, p.text)) > MaxRunes THEN p.text ELSE Joined(@, p.text)]

Chunk(ls) == Flush(FoldLeft(MergePiece, [chunks |-> <<>>, cur |-> <<>>], SplitIntoPieces(ls))).chunks

ChunkInit ==
    /\ docLines \in UNION {[1..n -> LineKinds] : n \in 0..MaxDocLines}
    /\ chunkList = <<>>
    /\ chunked = FALSE

ChunkFile ==
    /\ ~chunked
    /\ chunked' = TRUE
    /\ chunkList' = Chunk(docLines)
    /\ UNCHANGED docLines

-----------------------------------------------------------------------------
Holds(n) == {k \in 1..Len(chunkList) : n \in Range(chunkList[k])}
Spoken == {n \in 1..Len(docLines) : docLines[n] # "blank"}

\* Every line of the file is found by a search: it is in some chunk, and the
\* chunks come in the order of the file, whatever mix of paragraphs, headings
\* and fences, closed or not, the file has.
NothingLost ==
    chunked => \A n \in Spoken :
       /\ Holds(n) # {}
       /\ \A k \in Spoken : n < k => \E i \in Holds(n), j \in Holds(k) : i <= j

Fenced(c) == \E p \in Range(SplitIntoPieces(docLines)) : p.protected /\ (Range(p.text) \cap Range(c)) \ {0} # {}

\* A chunk fits the embedder's limit unless it carries a fenced block.
ChunksBounded ==
    chunked => \A k \in 1..Len(chunkList) : Len(chunkList[k]) > MaxRunes => Fenced(chunkList[k])

\* Chunking neither loses text nor passes its limit, for all short documents.
ChunkingIsLossless == ChunksBounded /\ NothingLost
=============================================================================
