--------------------------- MODULE SpeechFormatter ---------------------------
(***************************************************************************)
(* builtin.speech_formatter (crates/muxiva-graph-json/src/builtins.rs):    *)
(* the streamed text of an answer is cut into chunks a TTS can speak, and  *)
(* each chunk is stripped of its Markdown by a parser whose state spans    *)
(* chunks.  A character stands for its class: "d" digit, "w" letter, "s" a *)
(* suppressed term, "u" the start of a URL, "!" any sentence end, ";" any  *)
(* clause end, "t" a back-tick, "n" a line feed, "." "," " " "(" ")" "|" as *)
(* themselves; "CODE" and "TABLE" are the configured messages.  Layout of  *)
(* the output (white space, list and heading prefixes, links) is left out. *)
(***************************************************************************)
EXTENDS Integers, Sequences, FiniteSets, SequencesExt

CONSTANTS
    MinimumChunk, MaximumChunk,  \* minimum_ and maximum_chunk_characters
    HoldLimit,                   \* 120: characters held of a parenthetical
    MaxPieces,                   \* bound: text frames of one answer
    MaxSequence                  \* bound: sequence ids

\* What the factory accepts; the cap has a floor of 20 there.
FormatterConfig == MaximumChunk \in 1..400 /\ MinimumChunk \in 1..MaximumChunk
ASSUME FormatterConfigAssumption == FormatterConfig

VARIABLES
    formatter,  \* [sequence, pending, fence, table, ticks, url, held, out]: held # <<>> inside
                \* parentheses; out: what was emitted for the active sequence
    pieces,     \* its text frames
    received,   \* its text
    chunks      \* its chunks: [text, last], last: what followed was not kept

formatterVars == <<formatter, pieces, received, chunks>>

Fresh(sequence) ==
    [sequence |-> sequence, pending |-> <<>>, fence |-> FALSE, table |-> FALSE, ticks |-> 0,
     url |-> FALSE, held |-> <<>>, out |-> <<>>]
FormatterInit ==
    /\ formatter = Fresh(0) /\ pieces = 0
    /\ received = <<>> /\ chunks = <<>>

Blank(c) == c \in {" ", "n"}
AllBlank(text) == \A i \in DOMAIN text : Blank(text[i])
Alphanumeric(c) == c \in {"d", "w", "s", "u"}

----------------------------------------------------------------------------
(* drain_presentable_text: where the text is cut                           *)

\* Mutant: a dot before a digit ends a sentence.
BoundaryAtDots(text, i, flush) == text[i] \in {"!", "n", "."}

\* A dot at the end of what has arrived waits for the next delta.
speech_sentence_boundary(text, i, flush) ==
    \/ text[i] \in {"!", "n"}
    \/ /\ text[i] = "."
       /\ IF i = Len(text) THEN flush
          ELSE /\ text[i + 1] \notin {".", "d"}
               /\ ~(i > 1 /\ Alphanumeric(text[i - 1]) /\ Alphanumeric(text[i + 1]))

speech_clause_boundary(text, i) ==
    \/ text[i] = ";"
    \/ text[i] = "," /\ ~(i > 1 /\ text[i - 1] = "d" /\ (i = Len(text) \/ text[i + 1] = "d"))

speech_ascii_token_character(c) == Alphanumeric(c) \/ c \in {".", ","}

Largest(S) == CHOOSE x \in S : \A y \in S : y <= x
Smallest(S) == CHOOSE x \in S : \A y \in S : x <= y

\* Punctuation behind a sentence stays with it, except a dot that may start a
\* fraction.
Closer(text, i, flush) ==
    /\ text[i] \in {"!", ".", ")"}
    /\ ~(text[i] = "." /\ (IF i = Len(text) THEN ~flush ELSE text[i + 1] = "d"))
SentenceEnd(text, limit, flush) ==
    LET ends == {i \in 1..limit : i >= MinimumChunk /\ speech_sentence_boundary(text, i, flush)}
    IN IF ends = {} THEN 0
       ELSE Largest({e \in Smallest(ends)..limit :
                        \A i \in (Smallest(ends) + 1)..e : Closer(text, i, flush)})

\* The cap has been reached without a sentence: a clause, white space, the edge
\* of a token, or the cap itself.
CappedEnd(text, limit) ==
    LET clauses == {i \in 1..limit : speech_clause_boundary(text, i)}
        blanks == {i \in 1..limit : Blank(text[i])}
        edges == {i \in 1..limit :
                    \/ ~speech_ascii_token_character(text[i])
                    \/ i < Len(text) /\ ~speech_ascii_token_character(text[i + 1])}
    IN IF clauses # {} THEN Largest(clauses)
       ELSE IF blanks # {} THEN Largest(blanks)
       ELSE IF edges # {} THEN Largest(edges) ELSE limit

ChunkEnd(text, flush) ==
    LET limit == IF Len(text) < MaximumChunk THEN Len(text) ELSE MaximumChunk
        sentence == SentenceEnd(text, limit, flush)
    IN IF sentence # 0 THEN sentence
       ELSE IF Len(text) >= MaximumChunk THEN CappedEnd(text, limit)
       ELSE IF flush THEN Len(text) ELSE 0

\* The chunks of a text and what is left of it.
drain_presentable_text(text, flush) ==
    LET rest(c) == SubSeq(text, c + 1, Len(text))
        cuts[c \in 0..Len(text)] ==
            LET e == IF c = Len(text) THEN 0 ELSE ChunkEnd(rest(c), flush)
            IN IF e = 0 THEN [chunks |-> <<>>, left |-> rest(c)]
               ELSE LET chunk == SubSeq(text, c + 1, c + e)
                        dropped == flush /\ c + e = Len(text) /\ AllBlank(chunk)
                    IN [cuts[c + e] EXCEPT
                          !.chunks = IF dropped THEN @
                                     ELSE <<[text |-> chunk, last |-> FALSE]>> \o @]
    IN cuts[0]

----------------------------------------------------------------------------
(* format_chunk: what is spoken of a chunk                                 *)

\* filter_parenthetical: a parenthetical is held until it closes or grows too
\* long; one with a suppressed term is dropped.
FilterOne(f, c) ==
    LET held == Append(f.held, c) IN
    IF f.held = <<>>
    THEN IF c = "(" THEN [f EXCEPT !.held = held] ELSE [f EXCEPT !.out = Append(@, c)]
    ELSE IF c = ")"
    THEN [f EXCEPT !.held = <<>>, !.out = IF "s" \in ToSet(held) THEN @ ELSE @ \o held]
    ELSE IF Len(held) > HoldLimit THEN [f EXCEPT !.held = <<>>, !.out = @ \o held]
    ELSE [f EXCEPT !.held = held]
filter_parenthetical(held, chunk) == FoldLeft(FilterOne, [held |-> held, out |-> <<>>], chunk)

\* Neighbours alike under ~ are put into one group.
Grouped(text, alike(_, _)) ==
    FoldLeft(LAMBDA groups, c :
                IF groups # <<>> /\ alike(Last(Last(groups)), c)
                THEN [groups EXCEPT ![Len(groups)] = Append(@, c)]
                ELSE Append(groups, <<c>>),
             <<>>, text)

is_url_delimiter(c) == Blank(c) \/ c \in {",", "!", ";", ")"}
RemoveUrl(u, c) ==
    IF u.url /\ ~is_url_delimiter(c) THEN u
    ELSE IF c = "u" THEN [u EXCEPT !.url = TRUE]
    ELSE [url |-> FALSE, out |-> Append(u.out, c)]
remove_bare_urls(url, line) == FoldLeft(RemoveUrl, [url |-> url, out |-> <<>>], line)

looks_like_markdown_table(line) == Cardinality({i \in DOMAIN line : line[i] = "|"}) >= 2

\* append_markdown_text, of one line.
AppendLine(p, line) ==
    LET url == p.url /\ ~Blank(Head(line))
        plain == remove_bare_urls(url, SelectSeq(line, LAMBDA c : c # "n"))
    IN IF AllBlank(line) THEN [p EXCEPT !.url = url, !.table = FALSE]
       ELSE IF looks_like_markdown_table(line)
       THEN [p EXCEPT !.url = url, !.table = TRUE,
                      !.out = IF p.table THEN @ ELSE Append(@, "TABLE")]
       ELSE [p EXCEPT !.table = FALSE, !.url = plain.url /\ ~Blank(Last(line)),
                      !.out = @ \o SelectSeq(plain.out, LAMBDA c : c \notin {"(", ")", " "})]
append_markdown_text(p, text) == FoldLeft(AppendLine, p, Grouped(text, LAMBDA a, b : a # "n"))

\* Text, or a run of back-ticks: three and more open or close fenced code.
FormatRun(p, run) ==
    IF run[1] # "t" THEN IF p.fence THEN p ELSE append_markdown_text(p, run)
    ELSE IF Len(run) < 3 THEN p
    ELSE [p EXCEPT !.fence = ~@, !.table = FALSE,
                   !.out = IF p.fence THEN @ ELSE Append(@, "CODE")]

\* One or two back-ticks at the end wait for the next chunk.
format_chunk(f, chunk) ==
    LET filtered == filter_parenthetical(f.held, chunk)
        combined == [i \in 1..f.ticks |-> "t"] \o filtered.out
        trailing == Largest({n \in 0..Len(combined) :
                                \A i \in (Len(combined) - n + 1)..Len(combined) : combined[i] = "t"})
        retained == IF trailing < 3 THEN trailing ELSE 0
        runs == Grouped(SubSeq(combined, 1, Len(combined) - retained),
                        LAMBDA a, b : (a = "t") = (b = "t"))
    IN FoldLeft(FormatRun, [f EXCEPT !.held = filtered.held, !.ticks = retained], runs)

emit_chunks(f, cut) == FoldLeft(LAMBDA g, chunk : format_chunk(g, chunk.text), f, cut)

----------------------------------------------------------------------------
(* The Node's inputs                                                       *)

begin_sequence(sequence) == Fresh(sequence)

\* The text behind the last chunk is not its continuation.
Ended(cut) == [i \in DOMAIN cut |-> [cut[i] EXCEPT !.last = @ \/ i = Len(cut)]]

\* The chunks of the text in f, behind those cut before, and what they say.
Present(f, cut, isFlush) ==
    LET drained == drain_presentable_text(f.pending, isFlush)
        all == cut \o drained.chunks
    IN /\ formatter' = emit_chunks([f EXCEPT !.pending = drained.left], drained.chunks)
       /\ chunks' = IF isFlush THEN Ended(all) ELSE all

TextIn(sequence, text) ==
    LET active == formatter.sequence = sequence
        f == IF active THEN formatter ELSE begin_sequence(sequence)
    IN /\ active => pieces < MaxPieces
       /\ pieces' = IF active THEN pieces + 1 ELSE 1
       /\ received' = IF active THEN received \o text ELSE text
       /\ Present([f EXCEPT !.pending = @ \o text], IF active THEN chunks ELSE <<>>, FALSE)

\* event_in of the active sequence; events of others change nothing.
Completed ==
    /\ formatter.sequence # 0
    /\ Present(formatter, chunks, TRUE)
    /\ UNCHANGED <<pieces, received>>
Failed ==
    /\ formatter.sequence # 0
    /\ formatter' = [formatter EXCEPT !.pending = <<>>]
    /\ received' = SubSeq(received, 1, Len(received) - Len(formatter.pending))
    /\ chunks' = Ended(chunks)
    /\ UNCHANGED pieces

Interruption ==
    /\ formatter' = Fresh(0) /\ pieces' = 0
    /\ received' = <<>> /\ chunks' = <<>>

\* Answers arrive in the order of their sequence ids; an interrupted one may
\* send more.
FormatterNext(texts) ==
    \/ \E sequence \in 1..MaxSequence, text \in texts :
          sequence >= formatter.sequence /\ TextIn(sequence, text)
    \/ Completed \/ Failed \/ Interruption

----------------------------------------------------------------------------
(* Properties                                                              *)

FormatterTypeOK ==
    /\ formatter.sequence \in 0..MaxSequence /\ formatter.ticks \in 0..2
    /\ formatter.fence \in BOOLEAN /\ formatter.table \in BOOLEAN /\ formatter.url \in BOOLEAN
    /\ Len(formatter.held) <= HoldLimit /\ Len(formatter.pending) < MaximumChunk

Text(cut) == FlattenSeq([i \in DOMAIN cut |-> cut[i].text])
Visible(text) == SelectSeq(text, LAMBDA c : ~Blank(c))

\* Nothing of an answer is lost, doubled or reordered between its frames and
\* its chunks, and no chunk is larger than the cap.
ChunksAreLossless ==
    /\ Visible(Text(chunks) \o formatter.pending) = Visible(received)
    /\ \A i \in DOMAIN chunks : Len(chunks[i].text) \in 1..MaximumChunk

\* A number like 26.25 is never cut at its dot, however its characters are
\* spread over frames, unless the cap forces it or the answer is over.
NumbersStayWhole ==
    \A i \in DOMAIN chunks :
        LET text == chunks[i].text
            rest == Text(SubSeq(chunks, i + 1, Len(chunks))) \o formatter.pending
        IN ~chunks[i].last /\ Len(text) < MaximumChunk /\ rest # <<>> =>
               /\ ~(Last(text) = "." /\ rest[1] = "d")
               /\ ~(Last(text) = "d" /\ Len(rest) > 1 /\ rest[1] = "." /\ rest[2] = "d")

\* What an answer says depends on its own text only: fences, tables, URLs and
\* parentheses an earlier or interrupted answer left open have no part in it.
StaleMarkdownCannotSilence ==
    formatter.out = emit_chunks(Fresh(formatter.sequence), chunks).out

\* Prose outside fenced code, tables, URLs and parentheses is always spoken: a
\* fence that has closed silences nothing behind it.
ProseIsSpoken ==
    LET text == Text(chunks)
        speech == formatter.out
        fences == {i \in 1..(Len(text) - 2) : \A k \in 0..2 : text[i + k] = "t"}
        hidden == {"u", "|", "(", ")"}
    IN (ToSet(text) \cap hidden = {} /\ \A i, j \in fences : i = j \/ i >= j + 3 \/ j >= i + 3)
        => Cardinality({i \in DOMAIN speech : speech[i] = "w"})
           = Cardinality({i \in DOMAIN text :
                             /\ text[i] = "w"
                             /\ Cardinality({j \in fences : j < i}) % 2 = 0})

\* What is spoken is the prose of the answer, however it was cut into frames.
SpeechIsFaithful ==
    /\ FormatterTypeOK /\ ChunksAreLossless /\ NumbersStayWhole
    /\ StaleMarkdownCannotSilence /\ ProseIsSpoken
=============================================================================
