----------------------------- MODULE PdfIngest -----------------------------
(***************************************************************************)
(* PDF ingests and resets of one graph.  An ingest makes the vector index, *)
(* lets the external pipeline write one document and its chunks, then sets *)
(* ids on the chunks and checks them, query by query.  Nothing it has      *)
(* written is taken back when a check fails, and nothing keeps a reset     *)
(* from running between two of its queries.                                *)
(***************************************************************************)
EXTENDS Integers, Sequences, FiniteSets, FiniteSetsExt

CONSTANTS
    Datasets,       \* datasets in the repository, each with one PDF
    Pages, NoPage,  \* pages of a PDF; a chunk may come without one
    Outputs,        \* what the pipeline may write: sequences of chunks
    MaxRuns, MaxResets  \* bounds

\* What the pipeline gives of a chunk: its page, and which of order and vector are missing.
Parts == [page : Pages \cup {NoPage}, lacks : SUBSET {"order", "vector"}]

ASSUME OutputsAssumption == Outputs \subseteq Seq(Parts)
ASSUME PagesAssumption == NoPage \notin Pages
ASSUME DatasetsAssumption == IsFiniteSet(Datasets) /\ Datasets # {}
ASSUME DocumentBoundsAssumption == {MaxRuns, MaxResets} \subseteq Nat

\* make_run_id: ids are ordered like the starts of their runs.
Runs == 1..MaxRuns

VARIABLES
    ingest,     \* the ingest of each run: pc, dataset, what the pipeline returned
    chunks,     \* Chunk nodes: [run, k, page, lacks, id]; id: is chunk_id set
    linked,     \* runs whose chunks hang from a Document
    index,      \* is there a vector index
    reset,      \* the reset: pc and what it has found
    report,     \* the last one's report, as a set
    resets      \* how many resets began

graphVars == << chunks, linked, index >>
ingestVars == << ingest, graphVars, reset, report, resets >>

NoCounts == [chunks |-> 0, pages |-> 0, warned |-> FALSE]
NoIngest == [pc |-> "none", dataset |-> CHOOSE d \in Datasets : TRUE,
             counts |-> NoCounts, summary |-> "none"]

Begun == { r \in Runs : ingest[r].pc # "none" }
At(r, step) == ingest[r].pc = step
GotoStep(r, step) == ingest' = [ingest EXCEPT ![r].pc = step]
\* An ingest changes the graph.
Touches == reset' = [reset EXCEPT !.disturbed = reset.pc # "none"]

-----------------------------------------------------------------------------
(* An ingest.  One that dies takes no further step, which none needs to.   *)

\* A dry run writes its summary and leaves the graph alone.
StartIngest(r) ==
    /\ At(r, "none") /\ Begun = 1..(r - 1)
    /\ \E d \in Datasets, dry \in BOOLEAN :
        ingest' = [ingest EXCEPT ![r].pc = IF dry THEN "done" ELSE "index", ![r].dataset = d,
                                 ![r].summary = IF dry THEN "dry" ELSE "none"]
    /\ UNCHANGED << graphVars, reset, report, resets >>

CreateIndex(r) ==
    /\ At(r, "index")
    /\ index' = TRUE
    /\ Touches /\ GotoStep(r, "check")
    /\ UNCHANGED << chunks, linked, report, resets >>

CheckIndex(r) ==
    /\ At(r, "check")
    /\ GotoStep(r, IF index THEN "nodes" ELSE "failed")
    /\ UNCHANGED << graphVars, reset, report, resets >>

NewChunk(r, k, part) ==
    [run |-> r, k |-> k, page |-> part.page, lacks |-> part.lacks, id |-> FALSE]

\* ProvenanceNeo4jWriter stamps the run, the dataset and its PDF on each node.
WriteNodes(r) ==
    /\ At(r, "nodes")
    /\ \E out \in Outputs :
        chunks' = chunks \cup { NewChunk(r, k, out[k]) : k \in DOMAIN out }
    /\ Touches /\ GotoStep(r, "links")
    /\ UNCHANGED << linked, index, report, resets >>

\* Relationships are merged between nodes that are there.
WriteLinks(r) ==
    /\ At(r, "links")
    /\ linked' = linked \cup { c.run : c \in { c \in chunks : c.run = r } }
    /\ Touches /\ GotoStep(r, "normalize")
    /\ UNCHANGED << chunks, index, report, resets >>

\* Fault of the next definition: chunks of the document of any run.
ChunksOfSource(r) ==
    { c \in chunks : c.run \in linked /\ ingest[c.run].dataset = ingest[r].dataset }

\* The chunks the queries of an ingest match.
OwnChunks(r) == { c \in chunks : c.run = r /\ r \in linked }

Normalize(r) ==
    /\ At(r, "normalize")
    /\ chunks' = (chunks \ OwnChunks(r)) \cup { [c EXCEPT !.id = TRUE] : c \in OwnChunks(r) }
    /\ Touches /\ GotoStep(r, "count")
    /\ UNCHANGED << linked, index, report, resets >>

Count(r) ==
    LET n == Cardinality(OwnChunks(r)) IN
    /\ At(r, "count")
    /\ ingest' = [ingest EXCEPT ![r].counts.chunks = n, ![r].pc = IF n = 0 THEN "failed" ELSE "pages"]
    /\ UNCHANGED << graphVars, reset, report, resets >>

\* Several chunks may lie on one page.
PagesOf(S) == { c.page : c \in S } \ {NoPage}

CountPages(r) ==
    /\ At(r, "pages")
    /\ ingest' = [ingest EXCEPT ![r].pc = "order",
                               ![r].counts.pages = Cardinality(PagesOf(OwnChunks(r)))]
    /\ UNCHANGED << graphVars, reset, report, resets >>

Check(r, step, part, next) ==
    /\ At(r, step)
    /\ GotoStep(r, IF \E c \in OwnChunks(r) : part \in c.lacks THEN "failed" ELSE next)
    /\ UNCHANGED << graphVars, reset, report, resets >>
CheckOrder(r) == Check(r, "order", "order", "vector")
CheckVector(r) == Check(r, "vector", "vector", "missing")

\* Chunks without a page only give a warning.  Offsets were set by Normalize, so that
\* their check cannot fail.
CheckPages(r) ==
    /\ At(r, "missing")
    /\ ingest' = [ingest EXCEPT ![r].pc = "summary",
           ![r].counts.warned = \E c \in OwnChunks(r) : c.page = NoPage]
    /\ UNCHANGED << graphVars, reset, report, resets >>

SaveSummary(r) ==
    /\ At(r, "summary")
    /\ ingest' = [ingest EXCEPT ![r].pc = "done", ![r].summary = "live"]
    /\ UNCHANGED << graphVars, reset, report, resets >>

IngestStep(r) ==
    \/ StartIngest(r) \/ CreateIndex(r) \/ CheckIndex(r) \/ WriteNodes(r) \/ WriteLinks(r)
    \/ Normalize(r) \/ Count(r) \/ CountPages(r) \/ CheckOrder(r) \/ CheckVector(r)
    \/ CheckPages(r) \/ SaveSummary(r)

-----------------------------------------------------------------------------
(* A reset.  Its second query removes edges of claims that only graphs of  *)
(* older versions have, and is left out.                                   *)

NoReset == [pc |-> "none", deleted |-> FALSE, dropped |-> FALSE,
            found |-> FALSE, disturbed |-> FALSE]     \* the last two are auxiliary

DeleteNodes ==
    /\ reset.pc = "none" /\ resets < MaxResets
    /\ resets' = resets + 1
    /\ chunks' = {} /\ linked' = {}
    /\ reset' = [NoReset EXCEPT !.pc = "check", !.deleted = chunks # {},
                                !.found = chunks # {} \/ index]
    /\ UNCHANGED << ingest, index, report >>

FindIndex ==
    /\ reset.pc = "check"
    /\ reset' = [reset EXCEPT !.pc = IF index THEN "drop" ELSE "report"]
    /\ UNCHANGED << ingest, graphVars, report, resets >>

DropIndex ==
    /\ reset.pc = "drop"
    /\ index' = FALSE
    /\ reset' = [reset EXCEPT !.pc = "report", !.dropped = TRUE]
    /\ UNCHANGED << ingest, chunks, linked, report, resets >>

\* Fault of the next definition: a dropped index does not count.
NothingDeleted(r) == ~r.deleted

Idempotent(r) == ~r.deleted /\ ~r.dropped

Report ==
    /\ reset.pc = "report"
    /\ report' =
         {[idempotent |-> Idempotent(reset), found |-> reset.found,
           disturbed |-> reset.disturbed, left |-> chunks # {} \/ index]}
    /\ reset' = NoReset
    /\ UNCHANGED << ingest, graphVars, resets >>

CrashReset ==
    /\ reset.pc # "none"
    /\ reset' = NoReset
    /\ UNCHANGED << ingest, graphVars, report, resets >>

ResetStep == DeleteNodes \/ FindIndex \/ DropIndex \/ Report \/ CrashReset

\* A reset that died may have left the index of earlier runs.
IngestInit ==
    /\ ingest = [r \in Runs |-> NoIngest]
    /\ chunks = {} /\ linked = {} /\ index \in BOOLEAN
    /\ reset = NoReset /\ report = {}
    /\ resets = 0

-----------------------------------------------------------------------------
(* Properties.                                                             *)

Done(r) == ingest[r].summary = "live"

\* As long as no reset has begun, an ingest that reports success has left exactly the
\* chunks and pages it counted, each chunk with its id, an order and a vector, and the index
\* is there; it warned just when a chunk has no page, and unless it did there is some page.
\* A dry run has left nothing.
SummaryTrue ==
    \A r \in Begun :
        LET own == { c \in chunks : c.run = r } counts == ingest[r].counts IN
        /\ ingest[r].summary = "dry" => own = {}
        /\ Done(r) /\ resets = 0 =>
            /\ index /\ r \in linked
            /\ own # {} /\ \A c \in own : c.id /\ c.lacks = {}
            /\ counts.chunks = Cardinality(own)
            /\ counts.pages = Cardinality({ p \in Pages : \E c \in own : c.page = p })
            /\ counts.warned <=> \E c \in own : c.page = NoPage
            /\ counts.warned \/ counts.pages > 0

\* A reset during which no ingest wrote leaves nothing and calls itself a no-op just when
\* there was nothing to begin with, also when an earlier one died half way.
ResetLeavesNothing ==
    \A r \in report : ~r.disturbed => ~r.left /\ (r.idempotent <=> ~r.found)
=============================================================================
