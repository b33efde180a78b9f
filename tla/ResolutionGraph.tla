-------------------------- MODULE ResolutionGraph --------------------------
(***************************************************************************)
(* The part of the Neo4j graph that entity resolution reads and writes:    *)
(* mention, cluster and canonical nodes, the four edge types between them, *)
(* and every Cypher statement of entity_resolution_writes.py and           *)
(* entity_resolution_queries.py as an action or a state function.  The     *)
(* environment's statements on the same nodes (claim extraction, structured *)
(* ingest, reset) are here too.  Each statement is one transaction.        *)
(***************************************************************************)
EXTENDS Naturals, FiniteSets

CONSTANTS
    Runs,           \* unstructured run ids
    MentionIds,     \* mention ids; a node is keyed by (run, id)
    Texts,          \* normalized names
    RawTypes,       \* entity_type labels as extracted
    NormalizeType,  \* the normalization policy: RawTypes -> RawTypes
    Canonicals,     \* canonical nodes, each keyed by (entity_id, structured run)
    StructuredRuns, \* run ids of structured ingests
    Datasets,       \* dataset ids
    Entity          \* properties of each canonical node

Methods  == {"label_cluster", "normalized_exact", "abbreviation", "fuzzy"}
Statuses == {"accepted", "candidate", "provisional", "review_required"}
Percent  == 0 .. 100
FuzzyReviewThreshold == 92

Mention == Runs \X MentionIds
Props   == [text : Texts, type : RawTypes]
Cluster == [run : Runs, type : RawTypes, text : Texts]

\* The contents of a CanonicalEntity node.  `rank' is the place of its
\* entity_id in the ORDER BY; `names' are the mention texts that are this
\* entity's id (a QID); nodes of two ingests may share an entity id.
EntityInfo == [dataset : Datasets, run : StructuredRuns, rank : Nat,
               label : Texts, aliases : SUBSET Texts, names : SUBSET Texts]

ASSUME PolicyAssumption ==
    /\ NormalizeType \in [RawTypes -> RawTypes]
    /\ \A t \in RawTypes : NormalizeType[NormalizeType[t]] = NormalizeType[t]

ASSUME EntityAssumption == Entity \in [Canonicals -> EntityInfo]

VARIABLES
    mentions,       \* EntityMention nodes present, with their properties
    clusters,       \* ResolvedEntityCluster nodes present, by cluster_id
    canonicals,     \* CanonicalEntity nodes present
    memberOf,       \* MEMBER_OF edges: <<mention, cluster>> -> properties
    candidateMatch, \* CANDIDATE_MATCH edges: the same shape
    resolvesTo,     \* RESOLVES_TO edges: <<mention, canonical>> -> method
    alignedWith     \* ALIGNED_WITH edges: <<cluster, canonical, run>> -> method

graphVars == << mentions, clusters, canonicals, memberOf, candidateMatch,
                resolvesTo, alignedWith >>
edgeVars  == << memberOf, candidateMatch, resolvesTo, alignedWith >>

EdgeProps        == [method : Methods, score : Percent, status : Statuses]
ResolveMethods   == {"qid_exact", "label_exact", "alias_exact"}
AlignmentMethods == {"label_exact", "alias_exact"}

\* Cluster rows: what _cluster_mentions_unstructured_only and the unresolved
\* branch of resolve_mention produce for one mention.
ClusterRow   == [text : Texts, type : RawTypes, method : Methods,
                 confidence : Percent]
ResolvedRow  == [canonical : Canonicals, method : ResolveMethods]
AlignmentRow == [canonical : Canonicals, method : AlignmentMethods]

\* f maps a subset of D to R; Upsert is MERGE ... SET on such a map.
IsPartialMap(f, D, R) == DOMAIN f \subseteq D /\ f \in [DOMAIN f -> R]
NoRows == [x \in {} |-> x]
Upsert(f, g) ==
    [x \in DOMAIN f \cup DOMAIN g |-> IF x \in DOMAIN g THEN g[x] ELSE f[x]]

-----------------------------------------------------------------------------
(* Identity and scoring of memberships.                                    *)

ClusterId(run, type, text) ==
    [run |-> run, type |-> NormalizeType[type], text |-> text]

MembershipScore(method, confidence) ==
    CASE method \in {"label_cluster", "normalized_exact"} -> 100
      [] method = "abbreviation" -> 75
      [] OTHER -> confidence

MembershipStatus(method, score) ==
    CASE method \in {"label_cluster", "normalized_exact"} -> "accepted"
      [] method = "abbreviation" -> "candidate"
      [] OTHER -> IF score >= FuzzyReviewThreshold THEN "provisional"
                                                   ELSE "review_required"

Membership(row) ==
    LET score == MembershipScore(row.method, row.confidence)
    IN  [method |-> row.method, score |-> score,
         status |-> MembershipStatus(row.method, score)]

NeedsReview(row) == Membership(row).status \in {"candidate", "review_required"}

RowCluster(run, row) == ClusterId(run, row.type, row.text)

-----------------------------------------------------------------------------
(* Reads.                                                                  *)

RunMentions(run) == { m \in DOMAIN mentions : m[1] = run }
RunClusters(run) == { c \in clusters : c.run = run }
RunAlignments(run) == { e \in DOMAIN alignedWith : e[1].run = run /\ e[3] = run }

\* Fault of the next definition: one row for each distinct name.
FetchMentionsDistinct(run) ==
    LET here == { i \in MentionIds : <<run, i>> \in DOMAIN mentions }
        firsts == { CHOOSE i \in here : mentions[<<run, i>>] = props :
                      props \in { mentions[<<run, i>>] : i \in here } }
    IN  [i \in firsts |-> mentions[<<run, i>>]]

\* fetch_entity_mentions: the mentions of one run.
FetchMentions(run) ==
    [i \in { i \in MentionIds : <<run, i>> \in DOMAIN mentions } |->
        mentions[<<run, i>>]]

\* fetch_canonical_entities: every structured run of the dataset.
FetchCanonicals(dataset) ==
    { k \in canonicals : Entity[k].dataset = dataset }

\* fetch_member_of_coverage.
ClusteredMentions(run) ==
    { m \in RunMentions(run) :
        \E c \in RunClusters(run) : <<m, c>> \in DOMAIN memberOf }

\* fetch_alignment_coverage, one state function for each of its queries.
AlignedClusters(run)   == { e[1] : e \in RunAlignments(run) }
AlignedCanonicals(run) == { e[2] : e \in RunAlignments(run) }
AlignmentBreakdown(run) ==
    [method \in AlignmentMethods |->
        Cardinality({ e \in RunAlignments(run) : alignedWith[e] = method })]
MentionsInAligned(run) ==
    { m \in RunMentions(run) :
        \E c \in AlignedClusters(run) : <<m, c>> \in DOMAIN memberOf }

-----------------------------------------------------------------------------
(* Writes of the resolution stage.                                         *)

\* write_resolved_mentions: both endpoints are MATCHed.
WriteResolvedMentions(run, rows) ==
    LET found == { i \in DOMAIN rows :
                     /\ <<run, i>> \in DOMAIN mentions
                     /\ rows[i].canonical \in canonicals }
        edges == { << <<run, i>>, rows[i].canonical >> : i \in found }
    IN  /\ resolvesTo' =
             Upsert(resolvesTo, [e \in edges |-> rows[e[1][2]].method])
        /\ UNCHANGED << mentions, clusters, canonicals, memberOf,
                        candidateMatch, alignedWith >>

\* The edges of the rows with ids `found'.
RowEdges(run, rows, found) ==
    { << <<run, i>>, RowCluster(run, rows[i]) >> : i \in found }

\* Faults of the next definition: mentions are linked when their cluster is
\* created and not when it is matched; ambiguous rows are left to the review
\* queue; mentions that are in a cluster already are skipped; mentions are
\* matched by their id without their run; mentions are not matched at all.
EdgesOfNewClusters(run, rows) ==
    RowEdges(run, rows, { i \in DOMAIN rows :
                            <<run, i>> \in DOMAIN mentions
                            /\ RowCluster(run, rows[i]) \notin clusters })
EdgesOfCertainRows(run, rows) ==
    RowEdges(run, rows, { i \in DOMAIN rows :
                            <<run, i>> \in DOMAIN mentions /\ ~NeedsReview(rows[i]) })
EdgesOfUnclustered(run, rows) ==
    RowEdges(run, rows, { i \in DOMAIN rows :
                            <<run, i>> \in DOMAIN mentions
                            /\ \A e \in DOMAIN memberOf : e[1] # <<run, i>> })
EdgesOfAnyRun(run, rows) ==
    { << m, RowCluster(run, rows[m[2]]) >> :
        m \in { m \in DOMAIN mentions : m[2] \in DOMAIN rows } }

EdgesOfAllRows(run, rows) == RowEdges(run, rows, DOMAIN rows)

MembershipEdges(run, rows) ==
    RowEdges(run, rows, { i \in DOMAIN rows : <<run, i>> \in DOMAIN mentions })

\* First statement of write_cluster_memberships: the cluster is MERGEd before
\* the mention is MATCHed, so it is created for a vanished mention as well.
WriteClusterMemberships(run, rows) ==
    /\ clusters' = clusters \cup { RowCluster(run, rows[i]) : i \in DOMAIN rows }
    /\ memberOf' = Upsert(memberOf, [e \in MembershipEdges(run, rows) |->
                                        Membership(rows[e[1][2]])])
    /\ UNCHANGED << mentions, canonicals, candidateMatch, resolvesTo, alignedWith >>

CandidateEdges(run, rows) ==
    RowEdges(run, rows, { i \in DOMAIN rows :
                            /\ NeedsReview(rows[i])
                            /\ <<run, i>> \in DOMAIN mentions
                            /\ RowCluster(run, rows[i]) \in clusters })

\* Second statement of write_cluster_memberships: only ambiguous rows, and
\* both endpoints are MATCHed.
WriteCandidateMatches(run, rows) ==
    /\ candidateMatch' = Upsert(candidateMatch, [e \in CandidateEdges(run, rows) |->
                                                    Membership(rows[e[1][2]])])
    /\ UNCHANGED << mentions, clusters, canonicals, memberOf, resolvesTo, alignedWith >>

\* Fault of the next definition: the alignments there are go first.
ReplaceAlignments(new) == new

MergeAlignments(new) == Upsert(alignedWith, new)

\* write_alignment_results: MERGEd on (cluster, canonical, run, version); the
\* version is the constant ALIGNMENT_VERSION.
WriteAlignments(run, rows) ==
    LET found == { c \in DOMAIN rows :
                     c \in clusters /\ rows[c].canonical \in canonicals }
        edges == { << c, rows[c].canonical, run >> : c \in found }
    IN  /\ alignedWith' = MergeAlignments([e \in edges |-> rows[e[1]].method])
        /\ UNCHANGED << mentions, clusters, canonicals, memberOf,
                        candidateMatch, resolvesTo >>

-----------------------------------------------------------------------------
(* Writes of the other stages on the same nodes.                           *)

\* The mention part of write_all_extraction_data: MERGE on (mention_id, run_id)
\* and SET of the properties, all rows in one transaction.
UpsertMentions(run, rows) ==
    /\ mentions' = Upsert(mentions, [m \in {run} \X (DOMAIN rows) |-> rows[m[2]]])
    /\ UNCHANGED << clusters, canonicals, edgeVars >>

\* The entity statement of write_structured_graph_live.
UpsertCanonicals(new) ==
    /\ canonicals' = canonicals \cup new
    /\ UNCHANGED << mentions, clusters, edgeVars >>

\* DETACH DELETE of every demo-owned node.
DeleteDemoNodes ==
    /\ mentions' = NoRows
    /\ clusters' = {}
    /\ canonicals' = {}
    /\ memberOf' = NoRows
    /\ candidateMatch' = NoRows
    /\ resolvesTo' = NoRows
    /\ alignedWith' = NoRows

GraphInit ==
    /\ mentions = NoRows
    /\ clusters = {}
    /\ canonicals = {}
    /\ memberOf = NoRows
    /\ candidateMatch = NoRows
    /\ resolvesTo = NoRows
    /\ alignedWith = NoRows

\* The store: property types, and no edge without its two nodes.
GraphTypeOK ==
    /\ IsPartialMap(mentions, Mention, Props)
    /\ clusters \subseteq Cluster
    /\ canonicals \subseteq Canonicals
    /\ IsPartialMap(memberOf, (DOMAIN mentions) \X clusters, EdgeProps)
    /\ IsPartialMap(candidateMatch, (DOMAIN mentions) \X clusters, EdgeProps)
    /\ IsPartialMap(resolvesTo, (DOMAIN mentions) \X canonicals, ResolveMethods)
    /\ IsPartialMap(alignedWith, clusters \X canonicals \X Runs, AlignmentMethods)
=============================================================================
