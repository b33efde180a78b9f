----------------------------- MODULE AskScope ------------------------------
(***************************************************************************)
(* Questions asked while documents are ingested and reset.  A question's   *)
(* scope (a run and the PDF of the selected dataset) is resolved once, from*)
(* flags, environment and graph; each search of the session that follows   *)
(* filters by it.                                                          *)
(***************************************************************************)
EXTENDS PdfIngest

CONSTANTS
    Inputs,         \* flags and environment of a question
    NoRun,          \* no run given
    AnyDataset,     \* no dataset selected
    TopK,           \* how many chunks the index returns
    MaxTurns        \* bound: searches of a session

\* flag: "all", "run", "latest" or "none"; run: the argument of --run-id; env: the run in
\* UNSTRUCTURED_RUN_ID; dataset: selected by --dataset or the environment.
ASSUME InputsAssumption == \A i \in Inputs :
    /\ i.flag \in {"all", "run", "latest", "none"} /\ i.dry \in BOOLEAN
    /\ {i.run, i.env} \subseteq Runs \cup {NoRun} /\ i.dataset \in Datasets \cup {AnyDataset}
    /\ i.flag = "run" <=> i.run # NoRun

ASSUME ScopeAssumption == NoRun \notin Runs /\ AnyDataset \notin Datasets

ASSUME TopKAssumption == {TopK, MaxTurns} \subseteq Nat \ {0}

VARIABLE ask    \* the question: pc, flag, scope, hits and how many searches it made

askVars == << ask >>
documentVars == << ingestVars, askVars >>

NoAsk == [pc |-> "none"]

\* The datasets stamped on a run's chunks, at most one here (fetch_dataset_id_for_run).
DatasetsOfRun(r) == { ingest[c.run].dataset : c \in { c \in chunks : c.run = r } }

\* resolve_dataset_root: {} when it raises.
Selected(i) ==
    IF i.dataset # AnyDataset THEN {i.dataset}
    ELSE IF Cardinality(Datasets) = 1 THEN Datasets ELSE {}

\* Runs that have chunks of the selected dataset, or any chunks when none resolves.
WithChunks(i) == { c.run : c \in { c \in chunks :
    Selected(i) = {} \/ ingest[c.run].dataset \in Selected(i) } }

\* resolve_ask_request_context: a set with the run to ask, empty when it exits.
ScopeRun(i) ==
    CASE i.flag = "all" -> {NoRun}
      [] i.flag = "run" -> {i.run}
      [] i.flag \in {"latest", "none"} /\ i.dry -> {i.env}
      [] i.flag = "none" /\ ~i.dry /\ i.env # NoRun -> {i.env}
      [] OTHER -> IF WithChunks(i) = {} THEN {} ELSE {Max(WithChunks(i))}

\* Is the user told that the run may be one of another dataset?
Warned(i) ==
    CASE i.flag = "all" -> FALSE
      [] i.flag = "run" -> ~i.dry /\ i.dataset # AnyDataset
                           /\ DatasetsOfRun(i.run) \ {i.dataset} # {}
      [] OTHER -> (i.flag = "none" \/ i.dry) /\ i.env # NoRun /\ i.dataset # AnyDataset

\* prepare_ask_request_context; without a dataset to take the PDF from it raises.
Resolve ==
    /\ ask.pc = "none"
    /\ \E i \in Inputs :
        ask' = IF ScopeRun(i) = {} \/ (i.flag # "all" /\ Selected(i) = {})
               THEN [pc |-> "refused"]
               ELSE [pc |-> IF i.dry THEN "dry" ELSE "ready", flag |-> i.flag,
                     run |-> CHOOSE r \in ScopeRun(i) : TRUE, warned |-> Warned(i),
                     source |-> IF i.flag = "all" THEN AnyDataset
                                ELSE CHOOSE d \in Selected(i) : TRUE,
                     hits |-> {}, turns |-> 0]
    /\ UNCHANGED ingestVars

MinOf(a, b) == IF a <= b THEN a ELSE b

\* Fault of the next definition: the source filter is dropped.
MatchesRun(c) == ask.run = NoRun \/ c.run = ask.run

\* The WHERE clause of the retrieval query.
Matches(c) ==
    /\ ask.run = NoRun \/ c.run = ask.run
    /\ ask.source = AnyDataset \/ ingest[c.run].dataset = ask.source

\* The index returns the nearest chunks that have a vector; the filter comes after it.
Search ==
    /\ ask.pc = "ready" /\ ask.turns < MaxTurns
    /\ IF index
       THEN LET indexed == { c \in chunks : "vector" \notin c.lacks } IN
            \E top \in kSubset(MinOf(TopK, Cardinality(indexed)), indexed) :
                ask' = [ask EXCEPT !.turns = @ + 1, !.hits = { c \in top : Matches(c) }]
       ELSE ask' = [ask EXCEPT !.pc = "failed"]
    /\ UNCHANGED ingestVars

Init == IngestInit /\ ask = NoAsk
Next ==
    \/ Resolve \/ Search
    \/ \E r \in Runs : IngestStep(r) /\ UNCHANGED ask
    \/ ResetStep /\ UNCHANGED ask
DocumentsSpec == Init /\ [][Next]_documentVars

-----------------------------------------------------------------------------
(* Property.                                                               *)

\* What a question's step may do.
AnswerStep ==
    /\ ask.pc = "none" /\ ask'.pc = "ready" /\ ask'.flag # "all" =>
        /\ ask'.flag = "latest" => \A r \in Runs :
             Done(r) /\ DatasetsOfRun(r) = {ask'.source} => r <= ask'.run
        /\ ~ask'.warned => DatasetsOfRun(ask'.run) \subseteq {ask'.source}
    /\ ask.pc = "ready" /\ ask'.pc = "ready" /\ ask'.turns > ask.turns =>
        /\ ask.flag # "all" => \A c \in ask'.hits :
             c.run = ask.run /\ ingest[c.run].dataset = ask.source
        /\ \A c \in ask'.hits : ~c.id => ~Done(c.run)

\* Without --all-runs a search returns chunks of one run, of the selected dataset; a run
\* of another dataset gives none, and unless it had no chunks when the scope was resolved
\* the user was told.  --latest takes no run older than one of that dataset that had come
\* to its end.  A hit that cannot be cited, for want of its id, is of a run whose ingest
\* has not come to its end.
AnswersInScope == [][AnswerStep]_documentVars
=============================================================================
