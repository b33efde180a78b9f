----------------------------- MODULE RunCatalog ----------------------------
(***************************************************************************)
(* The catalog of runs a backend shows: what it makes of the directories   *)
(* below runs/ and of the stage manifests in them.  A run id is a prefix   *)
(* (the scope given to make_run_id) and the time it was made at.           *)
(***************************************************************************)
EXTENDS Sublists, Sequences

CONSTANT NoDataset  \* no dataset_id in a manifest, no filter in a query

\* Names in the order `sorted' gives them.
ScopeNames == << "ask", "dry_run_no_scope", "structured_ingest", "unstructured_ingest" >>
DirNames == << "claim_and_mention_extraction", "claim_extraction", "claim_participation",
               "entity_resolution", "entity_resolution_hybrid",
               "entity_resolution_unstructured_only", "pdf_ingest", "retrieval_and_qa",
               "retrieval_benchmark", "structured_clean", "structured_ingest" >>

RunId == [prefix : { ScopeNames[k] : k \in DOMAIN ScopeNames }, at : Nat]

Before(r, s) ==
    LET rank(x) == CHOOSE k \in DOMAIN ScopeNames : ScopeNames[k] = x.prefix
    IN  \/ rank(r) < rank(s)
        \/ rank(r) = rank(s) /\ r.at < s.at

\* Run directories are visited from the last name to the first.
ScanOrder(runs) ==
    [k \in 1..Cardinality(runs) |->
        CHOOSE r \in runs : Cardinality({ s \in runs : Before(r, s) }) = k - 1]

\* Directories are pairs of a run and a name, manifests a function of some of these.
StageNames(dirs, run) == { d[2] : d \in { d \in dirs : d[1] = run } }

\* _build_run_entry: the first readable manifest, in the order of the names, speaks for
\* the run.
Entry(dirs, manifests, run) ==
    LET names == StageNames(dirs, run)
        read == { k \in DOMAIN DirNames :
                    DirNames[k] \in names /\ << run, DirNames[k] >> \in DOMAIN manifests }
        first == CHOOSE k \in read : \A m \in read : k <= m
    IN  [run |-> run, stages |-> names,
         dataset |-> IF read = {} THEN NoDataset
                     ELSE manifests[<< run, DirNames[first] >>].dataset]

Entries(dirs, manifests) ==
    LET runs == ScanOrder({ d[1] : d \in dirs })
    IN  [k \in DOMAIN runs |-> Entry(dirs, manifests, runs[k])]

OfDataset(entries, d) ==
    Kept(entries, { n \in DOMAIN entries : d \in {NoDataset, entries[n].dataset} })
OfStage(entries, s) ==
    Kept(entries, { n \in DOMAIN entries : s = "any" \/ s \in entries[n].stages })
FirstOfPrefix(entries) ==
    Kept(entries, { n \in DOMAIN entries :
                    \A m \in DOMAIN entries :
                        m < n => entries[m].run.prefix # entries[n].run.prefix })

\* Fault of the next definition: the newest runs are taken before the filters apply.
LatestThenFilter(entries, query) ==
    OfStage(OfDataset(IF query.latest THEN FirstOfPrefix(entries) ELSE entries, query.dataset),
            query.stage)

\* resolve_backend_run_catalog.
Catalog(entries, query) ==
    LET chosen == OfStage(OfDataset(entries, query.dataset), query.stage)
    IN  IF query.latest THEN FirstOfPrefix(chosen) ELSE chosen
=============================================================================
