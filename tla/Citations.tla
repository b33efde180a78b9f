----------------------------- MODULE Citations -----------------------------
(***************************************************************************)
(* What is done to an answer of the language model: is every sentence      *)
(* cited, can it be repaired, what is shown and what is remembered of it.  *)
(* An answer is a sequence of lines, a line is a bullet or plain text, and *)
(* its pieces are words or citation tokens, separated by blanks.           *)
(***************************************************************************)
EXTENDS Integers, Sequences, Functions, Sublists

CONSTANTS
    Chunks,         \* chunks of text that can be retrieved and cited
    EmptyChunks,    \* those without text
    BareChunks,     \* those that lack a page or offsets
    Tokenless,      \* those whose hits carry no citation token
    NoChunk         \* what a piece of words cites

ASSUME CitationsAssumption ==
    /\ EmptyChunks \subseteq Chunks /\ BareChunks \subseteq Chunks
    /\ Tokenless \subseteq Chunks /\ NoChunk \notin Chunks

\* as: how the piece starts: "cap" (a capital letter or a bracket), "low" (any other
\* character) or "cite" (a citation token); stop: does it end in a full stop.
Piece == [as : {"cap", "low"}, stop : BOOLEAN, chunk : {NoChunk}]
         \cup [as : {"cite"}, stop : BOOLEAN, chunk : Chunks]
Line == [bullet : BOOLEAN, pieces : Seq(Piece) \ {<< >>}]
Token(c) == [as |-> "cite", stop |-> FALSE, chunk |-> c]

\* split_into_segments: where the segments of a line end.  A bullet is one segment, other
\* text is split where a capital follows a full stop (_SENTENCE_SPLIT_RE).
Ends(line) ==
    LET p == line.pieces
    IN  { k \in DOMAIN p : k = Len(p) \/ (~line.bullet /\ p[k].stop /\ p[k + 1].as = "cap") }

\* _TRAILING_CITATION_RE finds no citation at the end of these.
Uncited(line) ==
    { k \in Ends(line) : ~(line.pieces[k].as = "cite" /\ ~line.pieces[k].stop) }

\* check_all_answers_cited.
AllCited(answer) == answer # << >> /\ \A n \in DOMAIN answer : Uncited(answer[n]) = {}

\* A token goes behind each of some pieces, which moves the pieces after it.
Placed(after, k) == k + Cardinality({ e \in after : e < k })
WithTokens(pieces, after, c) ==
    [i \in 1..(Len(pieces) + Cardinality(after)) |->
        IF \E k \in DOMAIN pieces : Placed(after, k) = i
        THEN pieces[CHOOSE k \in DOMAIN pieces : Placed(after, k) = i]
        ELSE Token(c)]

\* Fault of the next definition: only the end of a line is repaired.
EndRepaired(line, c) ==
    [line EXCEPT !.pieces = WithTokens(@, Uncited(line) \cap {Len(@)}, c)]

RepairedLine(line, c) == [line EXCEPT !.pieces = WithTokens(@, Uncited(line), c)]

\* repair_uncited_answer.
Repaired(answer, c) == [k \in DOMAIN answer |-> RepairedLine(answer[k], c)]

\* The hits with a token, by their place, and first_citation_token_from_hits.
Tokened(hits) == { k \in DOMAIN hits : hits[k] \notin Tokenless }
Source(hits) == hits[CHOOSE k \in Tokened(hits) : \A m \in Tokened(hits) : k <= m]

\* apply_citation_repair: an attempt finds a token to repair with, or changes nothing.
Attempted(answer, hits, allRuns) ==
    allRuns /\ hits # << >> /\ answer # << >> /\ ~AllCited(answer)
Repair(answer, hits, allRuns) ==
    IF Attempted(answer, hits, allRuns) /\ Tokened(hits) # {}
    THEN Repaired(answer, Source(hits)) ELSE answer

\* execute_retrieval_search: a warning for each hit of some chunks.
Warnings(kind, hits, chunks) ==
    LET warned == Kept(hits, { k \in DOMAIN hits : hits[k] \in chunks })
    IN  [k \in DOMAIN warned |-> << kind, warned[k] >>]
EmptyWarnings(hits) == Warnings("empty", hits, EmptyChunks)
SearchWarnings(hits) == Warnings("bare", hits, BareChunks) \o EmptyWarnings(hits)

\* Fault of the next definition: the history keeps the uncited answer.
KeepUncited(answer) == [display |-> answer, history |-> answer,
                        fallback |-> answer # << >> /\ ~AllCited(answer)]

\* build_citation_fallback: an uncited answer is shown behind a prefix (left out here) and
\* only the prefix is remembered.
Fallback(answer) ==
    LET uncited == answer # << >> /\ ~AllCited(answer)
    IN  [display |-> answer, history |-> IF uncited THEN << >> ELSE answer, fallback |-> uncited]

\* postprocess_answer.
Postprocess(raw, hits, allRuns, existing) ==
    LET answer == Repair(raw, hits, allRuns)
        cited == AllCited(answer)
        warnings == existing \o (IF answer # << >> /\ ~cited THEN << << "uncited", NoChunk >> >>
                                 ELSE << >>)
    IN  [shown |-> Fallback(answer), rawCited |-> AllCited(raw), allCited |-> cited,
         attempted |-> Attempted(raw, hits, allRuns), repaired |-> answer # raw,
         citationWarnings |-> warnings,
         evidence |-> IF answer = << >> THEN "no_answer"
                      ELSE IF ~cited \/ warnings # << >> THEN "degraded" ELSE "full"]

\* finalize_live_retrieval_result, build_live_retrieval_result.
LiveResult(raw, hits, allRuns) ==
    LET post == Postprocess(raw, hits, allRuns, EmptyWarnings(hits))
        fresh == SubSeq(post.citationWarnings, Len(EmptyWarnings(hits)) + 1,
                        Len(post.citationWarnings))
    IN  [status |-> "live", raw |-> raw, hits |-> hits, post |-> post,
         warnings |-> SearchWarnings(hits) \o fresh]
=============================================================================
