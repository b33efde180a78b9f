-------------------------- MODULE RetrievalSession -------------------------
(***************************************************************************)
(* A question asked on its own, or a session of questions in which the     *)
(* language model is given the earlier answers.  The model may answer      *)
(* anything and cite any chunk: the code looks at the form of a citation   *)
(* and never at whether the chunk has been retrieved.                      *)
(***************************************************************************)
EXTENDS Citations

CONSTANTS
    Answers,        \* what the model may answer
    FirstAnswers,   \* and to a question on its own
    MaxTurns        \* bound: questions of a session

ASSUME AnswersAssumption == Answers \cup FirstAnswers \subseteq Seq(Line)
ASSUME MaxTurnsAssumption == MaxTurns \in Nat

VARIABLES
    session,    \* "none", "open", "closed", "failed", "refused", or a question's "done"
    allRuns,    \* is it asked over all runs
    history,    \* the assistant's messages: [answer, fallback]
    result,     \* the result of a question on its own
    turns       \* auxiliary: for each of these, what the model answered and the hits

sessionVars == << session, allRuns, history, result, turns >>

NoResult == [status |-> "none"]
CitedIn(answer) ==
    (UNION { { answer[k].pieces[n].chunk : n \in DOMAIN answer[k].pieces } : k \in DOMAIN answer })
    \ {NoChunk}
HitLists == { s \in UNION { [1..n -> Chunks] : n \in 0..Cardinality(Chunks) } : IsInjective(s) }

\* resolve_early_return_rule: a dry run first, then a question left out.
EarlyReturn ==
    /\ session = "none"
    /\ session' = "done"
    /\ \E dry, asked \in BOOLEAN :
        /\ dry \/ ~asked
        /\ result' = [status |-> IF dry THEN "dry_run" ELSE "skipped"]
    /\ UNCHANGED << allRuns, history, turns >>

\* run_single_shot_retrieval_session and what follows it.
AskOnce ==
    /\ session = "none"
    /\ \E raw \in FirstAnswers, hits \in HitLists, all \in BOOLEAN :
        /\ result' = LiveResult(raw, hits, all)
        /\ allRuns' = all
    /\ session' = "done"
    /\ UNCHANGED << history, turns >>

\* execute_command: a dry run is turned away.
Open ==
    /\ session = "none"
    /\ \E dry, all \in BOOLEAN :
        session' = (IF dry THEN "refused" ELSE "open") /\ allRuns' = all
    /\ UNCHANGED << history, result, turns >>

\* run_interactive_retrieval_turn, run_interactive_session_loop.  The warnings of the search
\* are not passed on.
Turn ==
    /\ session = "open" /\ Len(history) < MaxTurns
    /\ \E raw \in Answers, hits \in HitLists :
        /\ LET shown == Postprocess(raw, hits, allRuns, << >>).shown IN
           history' = Append(history, [answer |-> shown.history, fallback |-> shown.fallback])
        /\ turns' = Append(turns, [raw |-> raw, hits |-> hits])
    /\ UNCHANGED << session, allRuns, result >>

\* The search raises: a question on its own has no result, a session loses its history.
SearchRaises ==
    /\ session \in {"none", "open"}
    /\ session' = "failed" /\ history' = << >> /\ turns' = << >>
    /\ UNCHANGED << allRuns, result >>

\* exit, quit, end of input or an interrupt.
Close ==
    /\ session = "open"
    /\ session' = "closed" /\ history' = << >> /\ turns' = << >>
    /\ UNCHANGED << allRuns, result >>

Init ==
    /\ session = "none" /\ allRuns = FALSE
    /\ history = << >> /\ turns = << >> /\ result = NoResult

Next == EarlyReturn \/ AskOnce \/ Open \/ Turn \/ SearchRaises \/ Close

Spec == Init /\ [][Next]_sessionVars

-----------------------------------------------------------------------------
(* Properties.                                                             *)

\* The words of a line are plain if no sentence begins in lower case.
Plain(line) ==
    \A k \in 2..Len(line.pieces) : line.pieces[k].as = "low" => ~line.pieces[k - 1].stop

\* Every sentence of a line is followed by a citation, a bullet by one at its end.
Grounded(line) ==
    LET p == line.pieces
        words == { k \in DOMAIN p : p[k].as # "cite" }
        ends == { k \in words : (p[k].stop /\ ~line.bullet) \/ \A n \in words : n <= k }
    IN  \A k \in ends : k < Len(p) /\ p[k + 1].as = "cite"

\* Some pieces of the one answer are those of the other, in their order, and the rest are
\* citations.
OnlyCitationsAdded(answer, to) ==
    /\ DOMAIN to = DOMAIN answer
    /\ \A n \in DOMAIN answer :
        LET p == answer[n].pieces q == to[n].pieces
        IN  /\ to[n].bullet = answer[n].bullet
            /\ \E kept \in SUBSET DOMAIN q :
                /\ Cardinality(kept) = Len(p)
                /\ \A i \in DOMAIN q :
                    IF i \in kept THEN q[i] = p[Cardinality({ m \in kept : m <= i })]
                    ELSE q[i].as = "cite"

\* The words of the one answer with citations added, by chunks of these hits that have a
\* token and no others.
CitedFrom(hits, answer, to) ==
    /\ OnlyCitationsAdded(answer, to)
    /\ CitedIn(to) \ CitedIn(answer) \subseteq Range(hits) \ Tokenless

\* Whatever the model answered, a session remembers of an answer either nothing or its words
\* with every sentence cited (sentences in lower case aside), adding no citation but of a
\* hit of that very turn.  It forgets an answer only for want of a citation, over all runs
\* only if no hit of the turn had a token to cite, and one run's answers are not changed.
HistoryCited ==
    \A k \in DOMAIN history :
        LET m == history[k] turn == turns[k] IN
        /\ m.fallback <=> m.answer = << >> /\ turn.raw # << >>
        /\ m.fallback => ~AllCited(turn.raw) /\ (allRuns => Range(turn.hits) \subseteq Tokenless)
        /\ ~m.fallback =>
            /\ CitedFrom(turn.hits, turn.raw, m.answer)
            /\ \A n \in DOMAIN m.answer : Plain(m.answer[n]) => Grounded(m.answer[n])
            /\ ~allRuns => m.answer = turn.raw

\* A result has full evidence only if each sentence is cited and no hit is empty.  A repair
\* that was made always suffices, so that the answer is shown as it is; one that was
\* attempted and not made had no hit with a token, and the answer is shown as uncited.
\* Without an attempt the answer is shown unchanged, and a repair changes no word and cites
\* hits only.  Every citation warning is a warning.
EvidenceTrue ==
    result.status = "live" =>
        LET post == result.post shown == post.shown IN
        /\ post.evidence = "full" =>
            /\ ~shown.fallback /\ shown.history # << >>
            /\ Range(result.hits) \cap EmptyChunks = {}
            /\ \A n \in DOMAIN shown.display :
                Plain(shown.display[n]) => Grounded(shown.display[n])
        /\ post.repaired => ~shown.fallback
        /\ post.attempted /\ ~post.repaired =>
            shown.fallback /\ Range(result.hits) \subseteq Tokenless
        /\ ~post.attempted => shown.display = result.raw
        /\ CitedFrom(result.hits, result.raw, shown.display)
        /\ Range(post.citationWarnings) \subseteq Range(result.warnings)
=============================================================================
