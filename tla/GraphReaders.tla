---------------------------- MODULE GraphReaders ---------------------------
(***************************************************************************)
(* Others that read what resolution passes write, each with queries of its *)
(* own: the graph health report, the counts of the backend, and retrieval, *)
(* which tells the language model what is known of the mentions of a chunk.*)
(* They change nothing, so each is a state function of the graph.          *)
(*                                                                         *)
(* The filter ($run_id IS NULL OR x.run_id = $run_id) is x.run \in scope,  *)
(* where scope is the set of one run or of all runs.                       *)
(***************************************************************************)
EXTENDS EntityResolution

CONSTANTS
    Shown,      \* the name, id and type a canonical node has; nodes of two ingests may
                \* agree in all three
    RowLimit    \* PER_CANONICAL_ALIGNMENT_LIMIT

ASSUME ShownAssumption ==
    /\ DOMAIN Shown = Canonicals
    /\ \A k \in Canonicals : DOMAIN Shown[k] = {"name", "id", "type"}
ASSUME RowLimitAssumption == RowLimit \in Nat \ {0}

\* The methods of rows under the mention's own name, and, for names neither similar
\* nor chained, of no others (CertainIsOwnText of MentionClustering).  Only runs with
\* such names are considered.
Certain(row) == row.method \in {"label_cluster", "normalized_exact"}
ASSUME CertainAssumption ==
    \A S \in Snapshots : \A i \in DOMAIN S :
        Certain(ClusterRows(S)[i]) <=> ClusterRows(S)[i].text = S[i].text

InScope(scope) == { m \in DOMAIN mentions : m[1] \in scope }
ClustersIn(scope) == { c \in clusters : c.run \in scope }

\* Those with a membership or an alignment; a cluster of any run would do.
ClusteredIn(scope) == { m \in InScope(scope) : \E e \in DOMAIN memberOf : e[1] = m }
AlignedIn(scope) ==
    { c \in ClustersIn(scope) : \E e \in DOMAIN alignedWith : e[1] = c /\ e[3] \in scope }

\* Mentions, members of clusters and alignments that lead from one to the other.
Paths(scope) ==
    { p \in (DOMAIN memberOf) \X (DOMAIN alignedWith) :
        /\ p[1][2] = p[2][1]
        /\ p[1][1][1] \in scope /\ p[1][2].run \in scope /\ p[2][3] \in scope }

\* Fault of the next definition: an alignment of any run counts.
AnyAlignmentHealth(scope) ==
    LET aligned == { e[1] : e \in DOMAIN alignedWith }
    IN  [aligned |-> Cardinality(aligned),
         unaligned |-> Cardinality(ClustersIn(scope) \ aligned)]

\* The alignment coverage query and its summary.
AlignmentHealth(scope) ==
    [aligned |-> Cardinality(AlignedIn(scope)),
     unaligned |-> Cardinality(ClustersIn(scope) \ AlignedIn(scope))]

\* The mention clustering query and its summary.
MentionHealth(scope) ==
    [clustered |-> Cardinality(ClusteredIn(scope)),
     unclustered |-> Cardinality(InScope(scope) \ ClusteredIn(scope))]

\* The per-canonical query: the clusters and mentions behind each name, id and type.
PerCanonical(scope) ==
    [e \in { Shown[p[2][2]] : p \in Paths(scope) } |->
        LET here == { p \in Paths(scope) : Shown[p[2][2]] = e }
        IN  [clusters |-> { p[2][1] : p \in here }, mentions |-> { p[1][1] : p \in here }]]

\* Which of its rows are returned: those with the most clusters, in any way among equals.
Listed(rows) ==
    IF Cardinality(DOMAIN rows) <= RowLimit THEN {DOMAIN rows}
    ELSE { top \in SUBSET DOMAIN rows :
             /\ Cardinality(top) = RowLimit
             /\ \A a \in top, b \in DOMAIN rows \ top :
                 Cardinality(rows[b].clusters) <= Cardinality(rows[a].clusters) }

\* The chain query: the mentions that lead to each node, whatever it is called.
ChainHealth(scope) ==
    [k \in { p[2][2] : p \in Paths(scope) } |->
        { p[1][1] : p \in { p \in Paths(scope) : p[2][2] = k } }]

\* resolve_run_scoped_graph_counts; nothing in a run is "not found".
RunCounts(run) ==
    [mentions |-> Cardinality(InScope({run})), clusters |-> Cardinality(ClustersIn({run}))]

-----------------------------------------------------------------------------
(* What retrieval tells of a chunk with these mentions.                    *)

\* Fault of ClusterLines: one line for each cluster name.
LinesByName(S) ==
    LET here == { e \in DOMAIN memberOf : e[1] \in S }
        first(name) == CHOOSE e \in here : e[2].text = name
    IN  { [name |-> e[2].text, method |-> memberOf[e].method,
           settled |-> memberOf[e].status = "accepted"] :
          e \in { first(name) : name \in { e[2].text : e \in here } } }

\* format_cluster_context: equal lines are given once, and all but accepted memberships
\* are marked as tentative.
ClusterLines(S) ==
    { [name |-> e[2].text, method |-> memberOf[e].method,
       settled |-> memberOf[e].status = "accepted"] :
      e \in { e \in DOMAIN memberOf : e[1] \in S } }

\* The names of the entities aligned, by the clusters of mentions and in the mention's run.
AlignedNames(S) ==
    { Shown[p[2][2]].name :
      p \in { p \in Paths(Runs) : p[1][1] \in S /\ p[2][3] = p[1][1][1] } }

-----------------------------------------------------------------------------
(* Properties.                                                             *)

\* Readers with queries of their own agree in every state of the graph: the coverage a pass
\* would report, the health of the run, the counts of the backend and the entities that the
\* chunks of the run lead to; and the health of all runs adds up that of each run.  A pass
\* counts canonical nodes and so does the chain query, while the per-canonical query and
\* retrieval tell of them by what they are called: a row is what the nodes called so have
\* together, and a report that had room for all rows has left no mention out.
\* It takes that no edge crosses runs and no aligned cluster lacks a member.
ReadersAgree ==
    NoReset =>
    /\ \A run \in Runs :
        LET mention == MentionHealth({run})
            cluster == AlignmentHealth({run})
            rows == PerCanonical({run})
            chain == ChainHealth({run})
        IN  /\ mention = CountedMentions(run)
            /\ mention.clustered + mention.unclustered = RunCounts(run).mentions
            /\ cluster.aligned = Cardinality(AlignedClusters(run))
            /\ cluster.aligned + cluster.unaligned = RunCounts(run).clusters
            /\ DOMAIN chain = AlignedCanonicals(run)
            /\ DOMAIN rows = { Shown[k] : k \in AlignedCanonicals(run) }
            /\ \A e \in DOMAIN rows : rows[e].mentions =
                 UNION { chain[k] : k \in { k \in DOMAIN chain : Shown[k] = e } }
            /\ UNION { rows[e].clusters : e \in DOMAIN rows } = AlignedClusters(run)
            /\ \A top \in Listed(rows) :
                LET told == UNION { rows[e].mentions : e \in top }
                IN  /\ told \subseteq MentionsInAligned(run)
                    /\ told = MentionsInAligned(run)
                       \/ Cardinality(AlignedCanonicals(run)) > RowLimit
            /\ AlignedNames(InScope({run})) = { Shown[k].name : k \in AlignedCanonicals(run) }
    /\ MentionHealth(Runs).clustered
         = Cardinality(UNION { {run} \X ClusteredIn({run}) : run \in Runs })
    /\ AlignmentHealth(Runs).aligned
         = Cardinality(UNION { {run} \X AlignedIn({run}) : run \in Runs })

\* The language model is told of every membership in the review queue that it is tentative,
\* whatever passes of other modes wrote on the run; a cluster is called settled only if one
\* of the mentions of the chunk has its name.  (Both may be stale once mentions were
\* extracted anew with other names.)
ReviewFlagged ==
    NoReset /\ used.extractions <= 1 =>
        \A S \in SUBSET DOMAIN mentions :
            /\ \A e \in { e \in DOMAIN candidateMatch : e[1] \in S } :
                \E line \in ClusterLines(S) : line.name = e[2].text /\ ~line.settled
            /\ \A line \in { line \in ClusterLines(S) : line.settled } :
                \E m \in S : mentions[m].text = line.name
=============================================================================
