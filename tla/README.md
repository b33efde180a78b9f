# Power Atlas in TLA+

Power Atlas builds a knowledge graph in Neo4j out of PDF documents and structured
data, resolves the entities that both mention, and answers questions over the result.
This directory holds formal models of its core, the TLC configurations that check them
and theorems that TLAPS proves about them. Paths below are relative to the repository's
Python package `src/power_atlas/` unless they start with `demo/` or `docs/`.

## 1. The system

### Components

| Component | State it keeps | Operations | Interacts with |
|---|---|---|---|
| PDF ingest (`pdf_ingest_runner.py`, `adapters/neo4j/pdf_ingest_runtime.py`) | Document and Chunk nodes of a run, vector index, ingest summary file | ingest one document, check the result query by query | writes what extraction, run scope and retrieval read |
| Claim extraction (`claim_extraction_*.py`, `extraction_rows.py`, `extraction_writes.py`) | ExtractedClaim and EntityMention nodes of a run, summary file | read chunks, call the model, write all rows in one transaction | mentions are resolution's input |
| Claim participation (`claim_participation_*.py`) | HAS_PARTICIPANT edges, metrics and summary files | read claims, read mentions, match, MERGE edges | reads extraction's nodes in two queries |
| Structured ingest (`structured_ingest_runner.py`, `structured_ingest_writes.py`) | CanonicalEntity, Fact, Relationship, Claim and Source nodes of a structured run; clean CSV files, lint report, summary | lint, save artifacts, five auto-commit writes | the catalog resolution aligns to |
| Entity resolution (`entity_resolution_*.py`, `adapters/neo4j/entity_resolution_runtime.py`) | cluster nodes; MEMBER_OF, CANDIDATE_MATCH, ALIGNED_WITH edges; two artifact files | a pass in one of three modes, a dry run | reads mentions and canonical entities; retrieval and health reports read its edges |
| Reset (`reset_demo_runtime.py`) | report file | delete demo-owned nodes, stale edges and the index, report | empties what all the others use |
| Orchestrator, stage planning (`orchestration/*.py`) | stage results in memory, run ids | nine stages in order, resolution twice; or one stage | calls every stage |
| Manifests (`contracts/manifest.py`) | manifest and Markdown summary of a run | build, replace through a temporary file | written last by orchestrator and stages |
| Run catalog (`backend_run_catalog.py`, `run_scoped_graph_counts.py`) | none | list runs and the current ones, count a run's nodes | reads run directories, stage manifests, the graph |
| Run scope (`adapters/neo4j/run_scope_queries.py`, `orchestration/ask_scope.py`) | none | latest run, runs of a dataset, the scope of a question | selects the run questions are asked of |
| Retrieval and citations (`adapters/neo4j/retrieval_*.py`, `retrieval_*.py`, `contracts/retrieval_*policy.py`) | session history, warnings | one question, interactive session, citation check and repair | reads the graph |
| Graph health (`graph_health_*.py`) | a report | queries on participation, resolution and alignment | reads the graph |
| Pipeline contract (`contracts/pipeline.py`) | process-wide snapshot of index and embedding settings | lazy load, read | read by ingest, retrieval, reset |
| Benchmark, extraction diagnostics, backend endpoints, narrative extraction, settings, command line | none of their own | reports, HTTP reads, argument parsing | |

The stages never call each other: they communicate through the graph, where nodes carry a
`run_id`, and through files under `runs/<run_id>/`. Each stage is a process that somebody, or
the orchestrator, starts; nothing keeps two of them from running at once, and every
statement is a transaction of its own.

### What is hard

* *Entity resolution* reads a snapshot, computes in memory, writes in up to four
  transactions, counts with five queries and saves two files. In between, other
  passes, extractions, ingests and a reset do the same. Correct means: a pass that was
  not disturbed leaves all of its rows in the graph and no mention out; passes add to each
  other's results and never break them; runs never mix; what reports, readers and files claim
  is there; after a crash, the next pass completes what was begun.
* *Mention clustering* is a one-pass algorithm whose registry has seven parallel
  structures, some kept per type and one shared, and renames keys while it goes.
  Correct means: the structures agree after every mention, every mention ends under a key that
  a documented rule justifies, and mentions of one text and type stay together.
* *Claim participation* matches claims from one query with mentions from another, and nothing
  ever deletes an edge. Correct: an edge stays justified by the texts of its claim and its mention, no
  edge is guessed between namesakes, reports count what was written, and repeating a stage changes
  nothing.
* *Structured ingest*: five writes without a transaction, the summary file first. Correct: nothing is
  in the graph without a passed lint, and readers of claims never see half of a run.
* *PDF ingest, reset and run scope*: checks come after the commit, a reset works in several
  transactions, and the greatest run id counts as the latest. Correct: a summary describes what
  is there, a reset leaves nothing, a question gets chunks of its run and dataset only.
* *Commands and manifests*: any stage may raise, any process may die, batches share their
  manifest. Correct: a manifest describes stages that ran, a reader never sees half of one, and
  the current runs of a dataset are the newest.
* *Citations*: a chain of early returns and repairs, and a history fed back to the model. Correct: what is
  not fully cited is flagged on every path and never remembered.

`PROJECT.json` lists each hazard at its line and the properties that cover it.

## 2. Modules

| Module | Models |
|---|---|
| `ResolutionGraph` | the resolution part of the graph and every statement on it |
| `EntityResolution` | jobs running the resolve-entities stage; extraction, ingest, reset, crashes around them |
| `RunStores` | abstract specification: additive stores, one for each run, and a shared catalog |
| `GraphReaders` | the queries of health reports, backend counts and retrieval on the resolution graph |
| `ClusterRegistry` | the clustering algorithm as operators |
| `MentionClustering` | the loop of the algorithm as a process, one mention a step |
| `ClaimMatching` | matching a claim's slots to mentions, as operators |
| `ClaimStages` | jobs running extract-claims and claim-participation, with crashes and resets |
| `StructuredIngest` | lint, artifacts and the five statements of structured ingests |
| `StructuredReleases` | abstract specification: the claims of a run become visible all at once |
| `PdfIngest` | PDF ingests and resets, query by query |
| `AskScope` | the scope of a question and its searches, beside `PdfIngest` |
| `Sublists` | what a filter keeps of a list |
| `RunCatalog` | the backend's view of run directories, as operators |
| `Commands` | processes that run stages and write manifests |
| `Citations` | citation check, repair and the evidence of a result, as operators |
| `RetrievalSession` | a question or a session of questions with any answers of the model |
| `MCEntityResolution`, `MCMentionClustering`, `MCClaimStages`, `MCStructuredIngest`, `MCDocuments`, `MCCommands`, `MCRetrievalSession` | small instances for TLC |
| `EntityResolutionProofs`, `GraphReaderProofs`, `ClusterProofs`, `ClaimProofs`, `StructuredProofs`, `DocumentProofs`, `CommandProofs`, `RetrievalProofs` | theorems |

`EntityResolution` extends `ResolutionGraph` and instantiates `RunStores` under a refinement
mapping; `GraphReaders` extends it. `MCEntityResolution` gives `ClusterRows` its value by instantiating
`ClusterRegistry`, so the two halves of the stage are checked together. `AskScope`
extends `PdfIngest`, `ClaimStages` extends `ClaimMatching`, `Commands` extends `RunCatalog` and
`RetrievalSession` extends `Citations`. `StructuredIngest` instantiates
`StructuredReleases` under a refinement mapping. `ClusterRegistry`, `RunCatalog` and `Citations` extend `Sublists`.
`GraphReaderProofs` extends `EntityResolutionProofs`; each other proof module extends the module it is about.

### ResolutionGraph

Nodes are sets or functions keyed as the code MERGEs them: mentions by (run, id), clusters by the
three parts of `_make_cluster_id` (run, normalized type, text), canonical nodes by themselves.
Edges are functions from pairs to properties, because MERGE keeps one edge for each pair
(for ALIGNED_WITH, each pair and run; the alignment version is a constant of the code). Each
`execute_query` of `entity_resolution_writes.py` is one action, each query of
`entity_resolution_queries.py` one state function. Two points matter. The first membership statement
MERGEs the cluster before it MATCHes the mention, so it creates clusters for mentions that are gone,
while the second MATCHes both. And nothing but a reset deletes.

Names stand for their normalized form (`normalize_mention_text`), `NormalizeType` for the type
policy, which is a constant function on labels. Scores are percents. Source uris, timestamps and
display names are left out: nothing is decided on them.

### EntityResolution

A job is an invocation of the stage; `pc[j]` is the next statement it will execute. `ReadMentions`
and `ReadCanonicals` do the reading and the computing up to the next statement; the four
`Persist...` actions are the writes of `write_resolution_results` and `write_alignment_results`
in their order; `CountMembers` to `CountMentionsInAligned` are the coverage queries; `SaveUnresolved` and
`SaveSummary` the files. An empty row list makes a write a step that changes only `pc`, as the early
returns of the code do. Which canonical row wins a tie is chosen by any order that
agrees with `ORDER BY entity_id` (`RowOrders`): two ingests of a dataset have nodes with the same id,
and Neo4j may return these in any order.

`Crash` is the process dying or the driver raising between two steps; `Start` of another job on the same
run is the retry. `Extract` writes mentions of a run (`write_all_extraction_data`, one transaction),
a rerun giving ids new names; `IngestStructured` adds a structured run's entities; `Reset`
deletes the nodes. Artifacts are modelled for the default `artifact_subdir`, which all modes share
(the orchestrator uses one for each mode).

`disturbed[j]` is an auxiliary variable: the mentions of the job's run were written or deleted
since it started. No statement of the program could make a pass's result cover mentions it has not
seen, so the completeness properties speak of passes that were not disturbed. Passes of other jobs,
ingests and crashes do not disturb. `used` counts what the bounds limit.

### GraphReaders

Other components ask the same graph with queries of their own: the health report (mention clustering,
alignment coverage, per-canonical counts, for one run or for all), the counts behind a run of the
backend, and retrieval, which tells the model what clusters and canonical entities the mentions of a
chunk belong to. Each is a state function; the filter `$run_id IS NULL OR x.run_id = $run_id` is
membership in a set of runs. A report is modelled as if all its queries saw one state.
The readers do not count the same things: a pass and the chain query go by canonical nodes, the per-canonical query groups by name,
entity id and type (`Shown`), in which the nodes of two ingests may agree, and returns the `RowLimit` rows with the most
clusters (`Listed`; which of several equal rows is open), and retrieval tells names. Distributions of claims, roles and types,
the claims of the chain query with its order by them and its limit, and the files reports are saved to are left out.

`ReadersAgree` relates these readers to each other and to the coverage queries of a pass: a row is what the nodes called so have
together, and the rows a report had room for tell of no mention a pass does not count, and of all of them unless there are more
nodes than rows. The report over all runs must count what the reports of the single runs count together. `ReviewFlagged` needs to know that a row is called certain exactly when it
is under the mention's own name. `CertainAssumption` says so, and thereby keeps from this property the names for which it is
not so, similar ones and chains of long forms (see `CertainIsOwnText`).

### ClusterRegistry, MentionClustering

The registry record has one field for each dictionary of `_cluster_mentions_unstructured_only`;
`rows` is the three `mention_to_...` together. Lists are kept as sequences only where their order is
read (the fuzzy scan). Buckets of `abbrev_alpha_by_type` are a set of (type, key): the bucket
of a key is determined by its letters. A rename of several short keys is one operator for all of them,
as the code does them one after the other with nothing read in between. Letters, initials and similarity of
texts are functions given as constants: their computation (regular expressions, difflib) is data.
The length test before `_fuzzy_ratio` is an upper bound of the ratio, hence never changes the result.

`MentionClustering` takes any mention of any type at each step, so a run of TLC covers every input
sequence up to its bound, and invariants hold between any two mentions.

What the documents promise of the result holds only of inputs whose names do not stand in its way. The conditions are
`OneTypePerText` (no text is met under several types), `DistinctInitials` (no two long forms share their initials),
`Dissimilar` (no two texts reach the fuzzy threshold) and `Unchained` (no long form's letters are the initials of another
long form). The last is easily overlooked: a text may be a long form and a short form at once. With "xry pln" clustered
under its own text, "x r y p l n" (letters and initials are both "xrypln") renames it, and what had joined "xry pln" as its
initialism "xp" is then under a key whose initials are different. Such names are rare; the promises are nevertheless
conditional on their absence.

### ClaimMatching, ClaimStages

`ClaimMatching` is the cascade of `claim_participation_edges.py`: raw, casefolded, then
normalized equality, each ending in no edge when several mentions of the chunk fit, and the split of a list
into parts at the end. Texts are model values with functions for their folded forms and parts.

`ClaimStages` has one action per query or file of both stages. Extraction reads the chunks of its run,
takes any graph of `Outputs` as the model's answer, links its own rows and writes nodes, edges to chunks and
participation edges in one transaction; participation reads claims, then mentions, links and
writes. Both raise, and write nothing, where the code does. MERGE and SET update nodes in place; a slot
the new row lacks keeps its value. `written`, `disturbed` and `rewritten` are auxiliary. The
chunks of a run have one source and samples in the summaries are left out. The statement of
participation that runs on a driver already closed is taken to work, as it does with the drivers that
only warn.

### StructuredIngest, StructuredReleases

A process lints its four files (distinct rows, and how many verbatim repeats they had; the pattern checks of
a row are one flag `ok`), saves clean files and lint report, raises or saves the summary, and writes the
five statements in their order. Facts, relationships and claims MERGE the entities they name. Edges to the
`Source` node carry on only if it is there, as the MATCH of the code does. A dry run stops at the
summary. A run id belongs to one process, as ids are made from the time of the start. Nodes for the
files and rows of a source with their CITED_FROM edges are left out. `NoId` is the empty id, which the
lint lets pass.

`StructuredReleases` says what readers of claims rely on: a claim counts as released when
the fact or relationship behind it is reachable, and a run's claims are released in one step.

### PdfIngest, AskScope

Each query of a live ingest is an action: index creation and check, the writes of the external
pipeline (any sequence of chunks of `Outputs`, each with its page, if any, and with what it lacks; nodes first, links second), ids, counts
(of distinct pages, so that two chunks on a page count once), the checks in their order, the summary. A failing check ends the ingest and leaves what was written. Offsets
cannot be missing where ids are set, since one query sets both. A reset deletes, looks the index up,
drops it and reports in four steps and may die between them; its query for edges of older graph versions
is left out. An ingest that dies takes no further step, so it needs no action; the initial state
may have an index that a dead reset left. Each dataset has one PDF, and there is one index contract.

`AskScope` resolves the scope of a question from flags, environment and graph as
`ask_scope.py` does, refuses where it exits, and lets a session search: the index gives the nearest `TopK` chunks of any
run, then the WHERE clause filters.

### RunCatalog, Commands

`Commands` has the command line's processes: `ingest` runs nine stages and writes one batch manifest,
each other command one stage and its manifest, after it a Markdown summary. Each file is made as a
temporary one, filled, and renamed onto its path; a writer that raises removes its temporary file, a
killed one leaves it. A stage is one step here (its inside is what the other modules are about); a
stage that raises has made its directory already, the batch catches only the benchmark's failure.
`RunCatalog` is what `backend_run_catalog.py` makes of the directories: one entry per run, spoken for by the first readable stage
manifest, then filters, then the newest of each kind. A scan sees one state of the directories.
Run ids are a prefix and the time of the start. Times are taken to differ.

### Citations, RetrievalSession

An answer is a sequence of lines, a line a sequence of pieces: words that begin with a capital or
not, may end a sentence, and citation tokens. The segments of a line are told by where they end. The operators are the check, the repair and the
evidence level of `retrieval_postprocessing.py` and the merging of warnings after it. `RetrievalSession` lets the model
answer anything of a set and cite any chunk: the check of the code is a regular expression, so a citation of a chunk that was never
retrieved counts like any other. What the model cites on its own is therefore bounded by no property; what repair adds is.
Hits of `Tokenless` chunks carry no citation token. The formatter gives every hit one
(`retrieval_chunk_formatter.py:200-244`), but the postprocessing and its contract provide for hits that have none
(`docs/architecture/retrieval-citation-result-contract-v0.1.md`, 4.7): repair takes the first hit with a token, and without one is
attempted and not made. `turns` is auxiliary: what the model answered in each turn, and the hits.

### Fault operators

Next to some definitions there is an operator of the same parameters that is not used, introduced
by "Fault of the next definition" or "Fault of" its name. It is that definition with a plausible bug. `PROJECT.json` names,
for every property of every passing run, such a fault under which TLC finds the property
violated: the property can fail.

## 3. Runs

Deadlock is not checked: everything stops when the bounds are used up, and a real system without
jobs does too. `er_passes`, `claims` and `commands` are reduced by the symmetry of their two jobs, which their properties
treat alike; the liveness run uses no symmetry. An *extraction* is one transaction that writes mentions of a run, a
*pass* one invocation of the resolution stage that is not a dry run.

| Run | Asks | Bounds |
|---|---|---|
| `er_passes` | Is an undisturbed pass complete and its coverage true while another pass, extractions and ingests go on? Do crashes between any two writes, and retries in any mode, leave something without its base, or a tentative membership that retrieval shows as settled? Does a summary ever count less than nothing, its counts being taken one by one while the other pass writes (`TypeOK`)? (`RowsPersisted`, `MentionsAccounted`, `CoverageTrue`, `CandidateBacked`, `ClustersPopulated`, `ReviewFlagged`) | 1 run, 2 mentions, short and long form, 2 jobs, 2 passes in any modes, 2 extractions, 1 ingest, 1 crash |
| `er_recovery` | Are alignments justified and artifacts backed by the graph when jobs over two datasets with ties, QIDs and aliases follow each other, crash, or meet a reset at any statement? (`TypeOK`, `ArtifactsBacked`, `AlignmentJustified`) | 1 job, 2 mentions, 3 texts, 3 entities of 2 ingests, 2 passes, 1 dry run, 1 extraction, 1 reset, 1 crash |
| `er_progress` | Do runs with equal mention ids stay apart (`RunScoped`), do all readers agree (`ReadersAgree`), does each step refine `RunStores` (`AdditiveByRun`)? Do started passes cluster everything (`PassClusters`)? | 2 runs, 1 mention id, one type, 1 job, 2 passes, 2 extractions, 2 ingests, 2 datasets, 3 entities of which two are called the same, reports of 1 row, fairness |
| `clustering` | Are the registry's structures consistent through all renamings, and do the documented rules hold whenever their conditions do? (`MembersExact`, `IndicesBacked`, `CertainIsOwnText`, `SameTextTogetherIfPlain`, `AbbreviationIsInitialismIfPlain`, `LongFormIsKeyIfPlain`, `RenamesOnlyAbbreviations`) | every sequence of up to 4 mentions over 10 texts and 2 types |
| `claims` | Do participation edges keep both ends, share a chunk with both, say how the texts match, and never guess between namesakes, while extractions and participation jobs overlap, repeat and die? Are reports true, and does a rebuild change nothing? (`TypeOK`, `EvidenceShared`, `EdgesJustified`, `NamesakesDecide`, `ReportsTrue`, `RebuildChangesNothing`) | 1 run, 2 chunks, 1 claim id, 2 mention ids, 6 texts, 5 model answers, 2 jobs, 3 starts, 1 dry run, 1 reset, 1 crash |
| `structured` | Is nothing in the graph without a passed lint, and does the summary count what is there (`SummaryTrue`)? Does every entity have a row or a record that needs it (`EntitiesTraceable`)? Do claims appear with their evidence all at once (`ReleasedAtOnce`)? (and `TypeOK`) | 2 runs, 8 inputs (good, repeated, unreadable, invalid and dangling rows, empty ids), dry or live, 1 reset, 1 crash |
| `documents` | Is a reported ingest in the graph as reported (`SummaryTrue`), does a reset leave nothing and report truly (`ResetLeavesNothing`), does a question get what its scope says (`AnswersInScope`)? | 2 runs, 2 datasets, 2 pages, 4 results of the pipeline (two chunks on a page, a chunk without page, one without order, one without vector), 1 reset, an index returning 1 chunk, 1 search, 7 kinds of question |
| `commands` | Are manifests whole and true (`ManifestsWhole`, `BatchTrue`), does the summary follow its manifest (`SummaryFollows`), are the backend's current runs the newest (`CurrentIsNewest`)? | 2 processes with any of 8 invocations, 2 datasets, the directories of an earlier batch, 1 crash |
| `questions` | Does a session remember only what is cited, and forget only what could not be repaired (`HistoryCited`)? Is full evidence claimed only where it is, does a repair suffice and cite hits only, do flags and answer agree (`EvidenceTrue`)? | 2 chunks, one without text and token, one without page, single answers of up to 4 pieces or 2 lines, session answers of up to 2 pieces, 2 turns |

Two mentions suffice for one to join, rename or crowd out the other; two passes for one to write
between another's statements, or to retry what a crash left half-written. The statements treat each row alike
and jobs talk only through the graph, so more of either brings longer schedules but no new kind of meeting.
Two ingests give the one tie there can be (one entity id, two runs). Runs that mix need two runs and a
mention id of both, which one job reaches by passes over either; that jobs of different runs may also interleave is
covered by the theorem `EdgesRunScoped`, for any number of jobs, and not by a run: with the liveness property beside it, two jobs
are too many states. Interleaved jobs of one run are in `er_passes`. Two nodes called the same and one that is not give one row of two nodes, rows with
different and with equal numbers of clusters, and, with room for one row, a row left out. Clustering needs three mentions
for a short form, its other spelling and the long form, a fourth for what comes after the renaming.
A claim has two slots, so one claim and two mentions meet every case of the cascade: a match at each level, two
namesakes, a list with one, two or equal parts. Three starts are an extraction, its repetition and a participation job
that overlaps both. Structured runs share nothing but the reset, and two of them show
it. Two PDF runs give an older and a newer one, of one dataset or two; with an index that returns one chunk the filter may leave
none. Two commands contend for one manifest, and the earlier batch gives them a run to work on.
An answer of four pieces has two sentences with a citation each; of two hits either may be the one with a
token, a single hit may have none, and a citation may be of a chunk that is no hit.

Fairness: `WF_vars(JobStep(j))` for each job of `EntityResolution`. A started process runs until it returns; every step is
enabled as soon as the one before it is done, and Neo4j does not lock readers out. Starting jobs, extraction,
ingest, reset and crashes are not fair; `er_progress` allows no crash, since a dead process ends nothing.
No property claims that jobs, ingests or commands end: their programs are straight lines, so that this
would say nothing about them, and the other modules state no fairness.

Some properties are stated for histories without a reset (`NoReset`): `CandidateBacked`, `ClustersPopulated`, `ArtifactsBacked`,
`ReadersAgree`, `ReviewFlagged`, `EvidenceShared`, `EdgesJustified`, `NamesakesDecide` and a part of `ReportsTrue` and of both `SummaryTrue`. A reset
during a pass breaks each of them: the pass recreates clusters for mentions that are gone, an extraction
after it gives those ids back, and files stay. `AlignmentJustified`, `ReleasedAtOnce`, `AnswersInScope` and the `TypeOK`s hold across resets.
`ReviewFlagged` moreover takes that mentions were extracted once: extracted anew with
other names, a mention keeps memberships and review candidates of its old name, and a pass that accepts
it into a cluster of that name leaves the old candidate in the queue.
`EdgesJustified` leaves out nodes whose texts a later extraction changed, for edges are never removed.

Four are stated under conditions on the texts of a run (section 2, `MentionClustering`). `SameTextTogether` needs all four:
drop any, and TLC finds two mentions of one text and type in different clusters. `AbbreviationIsInitialism` needs
`Dissimilar` and `Unchained`. `LongFormIsKey` needs `OneTypePerText` and `Unchained`; it is stated with `Dissimilar` too, as
a long form that joins a similar key with other initials never becomes a key; none of the texts here is
such a form. That a certain membership is under its own text holds without conditions, the converse with `Dissimilar` and
`Unchained`. `clustering` includes texts that break each condition.

### Where the code and its documents differ

Each run checks one sentence of a document or a comment and TLC violates it.

| Run | Sentence | What the code does |
|---|---|---|
| `er_hybrid_rewrites` | hybrid leaves all existing MEMBER_OF edges unchanged (`docs/architecture/unstructured-first-entity-resolution-v0.1.md`) | MERGE ... SET rewrites method, score and status of edges that a pass in another mode left |
| `clustering_types` | the same (run, type, text) is assigned to the same cluster (same document, 15.4) | keys in use are shared by types, so a long form met under another type promotes nothing |
| `clustering_similar` | an abbreviation is an initialism of its cluster's text (`demo/stages/entity_resolution.py`) | promotion relabels members that similarity put under the short key |

Two more differences are in what documents say of answers. They are shown by what holds of the code, without a run of their own:

* The contract of results (`docs/architecture/retrieval-citation-result-contract-v0.1.md`, 4.4) gives "Claim A. Claim B." as an answer
  that is repaired and still uncited, shown behind the fallback prefix. The code puts a token behind each uncited sentence, so this
  cannot happen: `EvidenceTrue` says that a repair that was made suffices. The test of this case replaces the repair by a
  stub and says so (`demo/tests/test_retrieval_result_contract.py:1997-2005`). The case of 4.7, no hit with a token, is as the contract says.
* A docstring (`demo/stages/retrieval_and_qa.py:729-733`) says that the history "is never a source of answer evidence" and that each answer
  must be cited "via retrieved chunks from the current question's retrieval results". Nothing compares citations with hits: tokens of an
  earlier turn, or of chunks never retrieved, pass the check, count as full evidence and are remembered. Hence `HistoryCited` and
  `EvidenceTrue` bound only the citations that are added to an answer.

More consequences are worth knowing, and no property claims the contrary:

* A resolution summary's clustered and unclustered mentions need not add up to its total when an extraction commits between the
  queries, since the total is counted before the writes and the others after them; `CoverageTrue` speaks of
  undisturbed passes.
* A crash between the two membership statements leaves review candidates that have a MEMBER_OF edge but no
  CANDIDATE_MATCH edge until the next pass of the run.
* The metrics file and the summary of claim participation are two files: with two jobs at once they may come from different ones.
* A PDF run whose checks failed keeps its chunks and counts as the latest run.
* A batch writes no stage manifests, so the backend shows its run without a dataset and never among the current runs of one.

## 4. Proofs

A theorem says of every value of the constants what a run shows of a small one. The proofs assume what the modules' ASSUMEs
say and nothing else; the numbers of jobs, passes, runs, crashes and resets are arbitrary throughout. Of the properties of the
passing runs all are theorems but the one liveness property. Each proof is by an inductive invariant. TLC found each of these
invariants true on the instance of its component's run (`CommandInv` with some stage
name for processes that have not started, as its definition leaves that open).

| Module | Theorem (property) |
|---|---|
| `EntityResolutionProofs` | `TypeCorrect` (`TypeOK`), `EdgesRunScoped` (`RunScoped`), `AlignmentsJustified` (`AlignmentJustified`), `WrittenRowsPersist` (`RowsPersisted`), `NoMentionLeftOut` (`MentionsAccounted`) |
| `GraphReaderProofs` | `ReviewsBacked` (`CandidateBacked`), `NoEmptyCluster` (`ClustersPopulated`), `ArtifactsFollow` (`ArtifactsBacked`), `ReportedCoverage` (`CoverageTrue`), `ReadersConsistent` (`ReadersAgree`), `TentativeFlagged` (`ReviewFlagged`), `ResolutionIsAdditive` (`AdditiveByRun`) |
| `ClusterProofs` | `MembersInvertRows` (`MembersExact`), `IndicesFollowRows` (`IndicesBacked`), `CertainUnderOwnText` (`CertainIsOwnText`), `EqualMentionsMeet` (`SameTextTogetherIfPlain`), `AbbreviationsAreInitialisms` (`AbbreviationIsInitialismIfPlain`), `LongFormsAreKeys` (`LongFormIsKeyIfPlain`), `RenamesJustified` (`RenamesOnlyAbbreviations`) |
| `ClaimProofs` | `Types` (`TypeOK`), `ParticipantsShareEvidence` (`EvidenceShared`), `MethodsJustified` (`EdgesJustified`), `OneNamesake` (`NamesakesDecide`), `ReportsHold` (`ReportsTrue`), `RebuildIdempotent` (`RebuildChangesNothing`) |
| `StructuredProofs` | `StructuredTypes` (`TypeOK`), `RecordsCounted` (`SummaryTrue`), `EntitiesTraced` (`EntitiesTraceable`), `ClaimsReleasedAtOnce` (`ReleasedAtOnce`) |
| `DocumentProofs` | `ResetsLeaveNothing` (`ResetLeavesNothing`), `SummariesTrue` (`SummaryTrue`), `QuestionsInScope` (`AnswersInScope`) |
| `CommandProofs` | `ManifestsStayWhole` (`ManifestsWhole`), `BatchesTrue` (`BatchTrue`), `SummariesFollow` (`SummaryFollows`), `CurrentRunsNewest` (`CurrentIsNewest`) |
| `RetrievalProofs` | `SessionsRememberCited` (`HistoryCited`), `ResultsTrue` (`EvidenceTrue`) |

### Entity resolution

Assumed: the type policy is idempotent, the entities' properties have their types, a report has room for a row, clustering gives each mention one row
with its normalized type, and runs, mention ids, texts and canonical nodes are finite sets. Nothing is assumed of how
mentions are clustered beyond one row each, except by `ReviewFlagged`.

`EntityResolutionProofs` begins with lemmas about `Upsert` and about each statement (it keeps `GraphTypeOK`, it only adds).

The properties it proves are not inductive. The invariant has three parts besides types. `MemoryInv`
relates a job's memory to what it read: a row's mention is one of the snapshot, alignment rows are for clusters of the job's
rows and are justified by their texts, and an undisturbed job's snapshot still *is* the run's mentions. `GraphInv` says of the edges what
`RunScoped` and `AlignmentJustified` say. `PassInv` says what a pass has in the graph at each `pc`: after its first write the
resolved rows, after the second the memberships and their clusters, and so on. That needs all writes of other jobs to be
monotone (the first lemmas) and the canonical entities the job matched to be present still, which holds
as they vanish only by a reset, and that disturbs every job.

`GraphReaderProofs` adds `ReadInv`. Until a reset the graph only grows, whatever mentions are extracted anew: so rows a job
has read keep their mentions and the memberships it wrote stay (`RowsThere`). Hence a review candidate, written second, finds
its membership, and a cluster, created before its mention is looked up, gets it as a member. The clusters a pass says it made
are the image of its rows, hence inject into the clusters of the run (`ArtifactsFollow`). Coverage is true because all mentions of an undisturbed pass are
clustered from its second write on and each counting step keeps what the ones before it found. Readers agree because no edge
leads from one run to another, every cluster has a member and the counted sets are equal or disjoint; a report leaves rows out only if
there are more rows than its limit, hence more nodes (`RowsLeading`, `AllListed`). `ResolutionIsAdditive`
is a refinement theorem: each step maps to a step of `RunStores` on one run or on the catalog, to the reset, or to a stutter. A write
of a job is a step of its run only, which is why its rows must be of its run (`MemoryInv`).

### Clustering

Assumed: letters, initials and similarities are functions on texts, and nothing of their values; in particular not that
similarity is symmetric or that a text has fewer initials than letters. The input may have any length.

`SomeRule` says that a mention is taken by one of five rules (same text, initialism of a known key, long form of known keys, similar key,
its own key) and gives for each what it does to the registry, which other lemmas then use instead of the definitions: the mention *joins* a key or *promotes* keys,
and its type *learns* the key or keeps what it has. The invariant `ClusterInv` has, besides `MembersExact` and
`IndicesBacked`: every key held is the text of some mention of that type (`OwnTexts`), and may be replaced by a long form of it
(`HeldOffered`); without similar texts nothing is there by similarity; without chains an abbreviation stays under an initialism of
itself, and the initials of every long form met lead to some long form (`LongsKnown`). `OwnTexts` is what makes the conditions
bite: they speak of input texts, the rules of keys. The two promises with a pair of mentions are proved by which of the two is the
new one. `WithoutRepeats` keeps positions by their ranks (`Kept`) and is not a fold, so that a renamed list can be shown to have no
repeats.

Attempts at these proofs changed the model's statements. They failed at a long form which is itself an
initialism, which TLC then confirmed on an instance with such texts; thus the condition `Unchained`, and the texts in
`MCMentionClustering`.

### Claims and participation

Assumed: ids are finitely many, texts split into no part or at least two, and model answers have their types.

Rows a job has in memory are of nodes that are in the graph, with at least the chunks they were read with and, unless an
extraction rewrote them, the same texts (`MemoryTrue`); a reset takes all, and afterwards no chunk comes back, so jobs it met
find nothing (`AfterReset`). With this an edge's ends share a chunk and its method is true of their texts. For `NamesakesDecide` and
`RebuildChangesNothing` more is needed: until a run's second extraction any job has read nothing or the graph as it is
(`FirstReading`), so the edges of the run are exactly those its rows lead to (`ExactUntilRewritten`), and writing them
again changes nothing. `MetricsAddUp` is proved of any rows, by partitions of slots and injections of edges into matches.

### Structured ingest

Assumed: ids of facts, relationships and claims differ (their patterns begin with letters of their own), the empty id is
none of them, and files have finitely many rows.

`ClaimsReleasedAtOnce` is a refinement theorem: under the mapping of `StructuredIngest` each step is a step of
`StructuredReleases` or a stutter. `SaveReport` of a passed lint is `Accept`, writing the claims is `Release` if the Source node
is there and a stutter otherwise. For this the statement must find every row a claim rests on, or
none. So the invariant (`RunsInv`) says that facts and relationships of a run are in the graph when its claims are about to be
written, *or its Source node is not*: a reset takes both, and only the first statement writes the node. `ProcessInv` relates files
to input, `TraceInv` says why entities are there, `ExactInv` what a run has in the graph while there was no reset.

### Documents, resets and questions

Assumed: the pipeline writes finite sequences of chunks, datasets are finitely many, and the markers for "no run", "any
dataset" and "no page" are none.

`KnownInv` says what each step of an ingest may rely on while no reset has come: the index exists, the document is linked, and
the counts taken so far are still what the graph holds, since no other run writes its chunks. `IngestInv` is what remains of
that when resets do come, `ResetInv` what an undisturbed reset has removed at each of its steps. `AskInv` adds that a question
whose scope is resolved has a run and a dataset unless it asked for all.

### Commands and manifests

Assumed: the empty file is no manifest, earlier directories are finitely many, each of a run and a name, and older than all
commands.

The results of a process follow its program: one entry for each stage it went through, of the run that stage works on, and an
error only where the code catches one (`Progress`). A temporary file of a process that is not dead is where its program says
(`TempsOwned`, `TempsThere`), and a file in place is the manifest of a process past its stages, whose results no longer change
(`FilesOwned`). `SummaryFollows` is about processes that overlap: a process that begins its summary meets every other one still
writing at that path (`MetInTime`, `MetAtLast`), so if the two files are of different processes, they met or the last did not
get to its end.

`CurrentIsNewest` is about the catalog's lists. The scan visits every run once, from the last name to the first, since the rank
of a run among the others decides where it comes (`ScanDescends`); what a filter keeps of a list that descends descends too, and is all that passes
(`PositionsAscend`, `KeptDescends`). Hence the first entry of a prefix is the newest that fits. A dataset is shown only if some stage manifest of the run has it
(`EntryRead`), and a stage manifest is of a process past its stages (`ManifestsWhole`). `DirsOK` says that directories
stay finitely many.

### Questions

Assumed: answers are sequences of lines and lines nonempty sequences of pieces, of any number and length.

Segments and repair are stated by positions: a segment is its last piece (`Ends`), a token put behind a piece moves the ones
after it (`Placed`). A repaired line is cited (`LineRepaired`): a token is no end of a sentence, so a segment may only end
at a piece with no token behind it, which was the end of a cited segment before. This is less plain than it looks, for repair
joins sentences: a capital after a token begins no new one. `CitedGrounded` shows that a line whose segments are
cited is cited sentence by sentence, if no sentence begins in lower case. `RepairParts` puts it together: an answer that repair changes is
cited, with tokens of hits that have one (`SourceTokened`), and an attempt that changes nothing met no such hit. `SessionInv` says that each
message in the history is made of what the model answered in that turn (`Message`), and a result of the question it was given; the rest
is about single answers (`MessageTrue`).

### Only model-checked

* `PassClusters`: liveness under fairness is beyond the prover.
* The three runs that expect a violation: a counterexample needs no proof.

## 5. Not modelled

* Argument validation of stages, pluggable alignment steps and contracts other than the default, duplicate
  cluster nodes from concurrent MERGEs without a uniqueness constraint, partially written artifact files.
* `contracts/pipeline.py`: the contract is loaded once by single-threaded commands and then constant.
* `entity_resolution_reporting.py` and `claim_extraction_diagnostics.py`: pure counts for a report.
* The retrieval benchmark: queries and a report. In `Commands` it is the stage whose failure is caught. (Its `fragmentation_detected`
  compares the clusters with claims on the canonical path with all clusters of a name, so missing claims look like fragmentation.)
* The HTTP endpoints of the backend: stateless reads over the graph and the catalog; the catalog is in `RunCatalog`, the counts in `GraphReaders`.
* Narrative extraction: one model call and a file behind an entry point of its own, which nothing else reads.
* Settings, bootstrap and the command line: configuration and argument parsing. (The common options are declared on the parser and on
  each subcommand, `interfaces/cli/run_demo_support.py:131-277`: the subcommand's defaults overwrite those given before
  it, except `--dry-run` and `--live`.)
* Claim details and path diagnostics in prompts, prompts themselves; citation of rows and files of structured sources.
* Model calls, PDF parsing and vector search are library calls, modelled by what they may return.
* The old `pipelines/`, `frontend/`, `examples/`, `studies/` and vendored resources are not part of the core. They, with tests,
  settings and report formatting, are the larger part of the repository's lines.

## 6. Plan

1. Lemmas on what the operators of `ClaimMatching` return, where the proofs now use what their edges have in common.
2. Retrieval's claim details and path diagnostics as state functions of a graph with claims and alignments, next to `GraphReaders`.
3. The benchmark and the health reports as readers that take several steps while the graph changes.
