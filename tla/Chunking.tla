------------------------------ MODULE Chunking ------------------------------
(***************************************************************************)
(* How one source file becomes chunks, how graph nodes find theirs, and    *)
(* how the embedding stage reads a chunk back from the file.  A row is     *)
(* what the parser counts as a line; splitlines() also breaks rows at form *)
(* feeds and similar characters, into `parts' lines.  The text of a line   *)
(* is left out but for being blank and for its line ending, which          *)
(* read_text() translates and read_bytes().decode() does not.  The hash of *)
(* a chunk is its content.                                                 *)
(***************************************************************************)
EXTENDS Naturals, Sequences, SequencesExt

CONSTANTS
    MaxRows,      \* bound: rows of a file
    MaxChildren,  \* bound: top-level nodes of the parse tree
    MaxSize,      \* bound: chunk_size
    Eols,         \* line endings in this instance, of {"lf", "crlf"}
    MaxParts      \* lines that splitlines() makes of a row

ASSUME ChunkingAssumption ==
    /\ MaxRows \in Nat /\ MaxChildren \in Nat /\ MaxSize \in Nat /\ MaxParts \in Nat \ {0}
    /\ Eols \subseteq {"lf", "crlf"}

VARIABLES
    rows,      \* the file: sequence of [blank, eol, parts]
    children,  \* top-level nodes: sequence of [start, end, structural], in rows
    parsed,    \* the file has a grammar and parses: chunk_file_ast, else linear
    window,    \* chunk_size and chunk_overlap
    chunks,    \* the entry of the chunk map
    links,     \* node: the chunks written onto it
    stored,    \* the records of the collection
    stage      \* "discovered", "chunked", "linked", "embedded"

ChunkingVars == <<rows, children, parsed, window, chunks, links, stored, stage>>

Rows == 1..Len(rows)
Row == [blank : BOOLEAN, eol : Eols, parts : 1..MaxParts]
Child == {c \in [start : 1..MaxRows, end : 1..MaxRows, structural : BOOLEAN] : c.start <= c.end}

\* What tree-sitter returns: nodes in order, which may share a row, and no
\* text outside of them.
ParseTree(fileRows, nodes) ==
    /\ \A i \in 1..Len(nodes) : nodes[i].end <= Len(fileRows)
    /\ \A i \in 1..(Len(nodes) - 1) : nodes[i].end <= nodes[i + 1].start
    /\ \A k \in 1..Len(fileRows) :
        ~fileRows[k].blank => \E i \in 1..Len(nodes) : k \in nodes[i].start..nodes[i].end

ChunkingInit ==
    /\ rows \in SeqOf(Row, MaxRows) /\ children \in SeqOf(Child, MaxChildren)
    /\ ParseTree(rows, children) /\ parsed \in BOOLEAN
    /\ window \in {w \in [size : 1..MaxSize, overlap : 0..MaxSize] : w.overlap < w.size}
    /\ chunks = <<>> /\ links = <<>> /\ stored = {} /\ stage = "discovered"

-----------------------------------------------------------------------------
\* text.splitlines(keepends=True).
SplitLines(fileRows) ==
    FlattenSeq([k \in 1..Len(fileRows) |->
        [p \in 1..fileRows[k].parts |-> [blank |-> fileRows[k].blank, eol |-> fileRows[k].eol]]])
Decoded == SplitLines(rows)
\* Universal newlines: read_text() has "\n" only.
ReadText == [k \in 1..Len(Decoded) |-> [Decoded[k] EXCEPT !.eol = "lf"]]
Content(lines, start, end) == SubSeq(lines, start, end)
Strip(content) == \E k \in 1..Len(content) : ~content[k].blank
Smaller(a, b) == IF a <= b THEN a ELSE b

NewChunk(lines, start, end) ==
    [start |-> start, end |-> end, hash |-> Content(lines, start, end),
     embeddable |-> Strip(Content(lines, start, end))]
EmptyChunk == [start |-> 1, end |-> 1, hash |-> <<>>, embeddable |-> FALSE]

\* The loops of both chunkers over a range of lines.
Windows(first, last) ==
    LET from[pos \in first..last] ==
            LET end == Smaller(pos + window.size - 1, last)
            IN <<<<pos, end>>>> \o (IF end >= last THEN <<>> ELSE from[pos + window.size - window.overlap])
    IN from[first]

ChunkFileLinear ==
    IF rows = <<>> THEN <<EmptyChunk>>
    ELSE [k \in 1..Len(Windows(1, Len(ReadText))) |->
            LET w == Windows(1, Len(ReadText))[k] IN NewChunk(ReadText, w[1], w[2])]

\* Mutant: the joined span keeps its old end.
JoinSpanLost(spans, node) ==
    IF node.structural \/ spans = <<>> \/ Last(spans)[2] # node.start - 1
    THEN Append(spans, <<node.start, node.end>>) ELSE spans
\* A node that is not structural joins the span that ends on the row before.
JoinSpan(spans, node) ==
    IF node.structural \/ spans = <<>> \/ Last(spans)[2] # node.start - 1
    THEN Append(spans, <<node.start, node.end>>)
    ELSE Append(Front(spans), <<Last(spans)[1], node.end>>)
Spans(total) == LET spans == FoldLeft(JoinSpan, <<>>, children)
                IN IF spans = <<>> THEN <<<<1, total>>>> ELSE spans

\* Short spans are one chunk, longer ones are windowed: Windows does both.
ChunkFileAst ==
    IF rows = <<>> THEN <<EmptyChunk>>
    ELSE LET ranges == FlattenSeq([k \in 1..Len(Spans(Len(Decoded))) |->
                           LET s == Spans(Len(Decoded))[k]
                           IN Windows(s[1], Smaller(s[2], Len(Decoded)))])
         IN [k \in 1..Len(ranges) |-> NewChunk(Decoded, ranges[k][1], ranges[k][2])]

BuildChunkMap ==
    /\ stage = "discovered" /\ stage' = "chunked"
    /\ chunks' = IF parsed THEN ChunkFileAst ELSE ChunkFileLinear
    /\ UNCHANGED <<rows, children, parsed, window, links, stored>>

ResolveNodeChunks(node) ==
    {k \in 1..Len(chunks) : chunks[k].start <= node.end /\ chunks[k].end >= node.start}
MapChunks ==
    /\ stage = "chunked" /\ stage' = "linked"
    /\ links' = [i \in 1..Len(children) |-> ResolveNodeChunks(children[i])]
    /\ UNCHANGED <<rows, children, parsed, window, chunks, stored>>

\* _read_chunk_content: always through read_text.
ReadChunkContent(chunk) ==
    IF chunk.start > Len(ReadText) THEN <<>>
    ELSE Content(ReadText, chunk.start, Smaller(chunk.end, Len(ReadText)))
\* build_vector_metadata expects the vectors of these chunks; the reuse check
\* of the next build leaves the content out (check_content = False).
Expected(checkContent) ==
    {c \in ToSet(chunks) : c.embeddable /\ (checkContent => Strip(ReadChunkContent(c)))}
Embedded(chunk) == Strip(ReadChunkContent(chunk))
Embed ==
    /\ stage = "linked" /\ stage' = "embedded"
    /\ stored' = {[chunk |-> c, document |-> ReadChunkContent(c)] :
                    c \in {c \in ToSet(chunks) : Embedded(c)}}
    /\ UNCHANGED <<rows, children, parsed, window, chunks, links>>

ChunkingDone == stage = "embedded" /\ UNCHANGED ChunkingVars
ChunkingNext == BuildChunkMap \/ MapChunks \/ Embed \/ ChunkingDone
ChunkingSpec == ChunkingInit /\ [][ChunkingNext]_ChunkingVars

-----------------------------------------------------------------------------
Chunked == stage # "discovered"
\* The lines of a row, as splitlines() numbers them.
FirstLine(k) == Len(SplitLines(SubSeq(rows, 1, k - 1))) + 1
LinesOf(k) == FirstLine(k)..(FirstLine(k) + rows[k].parts - 1)

\* No text is lost between two chunks: every line of a row with text is in
\* some chunk, whatever the spans, the window and the overlap.
EveryLineIsChunked ==
    Chunked => \A k \in Rows : ~rows[k].blank =>
        \A l \in LinesOf(k) : \E i \in 1..Len(chunks) : l \in chunks[i].start..chunks[i].end

\* A node of the graph leads to all of its text: its chunks together hold
\* every row of the node that is not blank.
NodesReachTheirText ==
    stage \in {"linked", "embedded"} => \A i \in 1..Len(children) :
        \A k \in children[i].start..children[i].end : ~rows[k].blank =>
            \E c \in links[i] : k \in chunks[c].start..chunks[c].end

\* What ingest stores is what validation expects after it and what the reuse
\* check of the next build expects without reading the files again.
ReuseExpectsWhatIsStored ==
    stage = "embedded" =>
        /\ {r.chunk : r \in stored} = Expected(TRUE)
        /\ Expected(TRUE) = Expected(FALSE)

\* The hash contract: the text read for the provider has the hash that the
\* chunker computed, which validation and search compare.
HashContract == \A r \in stored : r.document = r.chunk.hash
=============================================================================
