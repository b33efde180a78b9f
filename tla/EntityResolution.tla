-------------------------- MODULE EntityResolution --------------------------
(***************************************************************************)
(* The resolve-entities stage.  A job is one invocation of the stage: a    *)
(* Python process that reads the mentions of a run, computes rows in       *)
(* memory, writes them in up to four separate transactions, counts the     *)
(* result with further queries and saves two artifact files.  Nothing      *)
(* holds these steps together: jobs interleave with each other, with claim *)
(* extraction, structured ingest and the demo reset, and may die between   *)
(* any two steps; whoever runs the pipeline then simply starts it again.   *)
(***************************************************************************)
EXTENDS ResolutionGraph

CONSTANTS
    Jobs,           \* invocations that may be under way at the same time
    Qids,           \* texts of names shaped like a QID
    ClusterRows(_), \* _cluster_mentions_unstructured_only, on a run's mentions
    MaxStarts, MaxDryRuns, MaxExtractions, MaxIngests, MaxResets,
    MaxCrashes      \* bounds

Modes == {"unstructured_only", "structured_anchor", "hybrid"}

\* What fetch_entity_mentions may return.
Snapshots == UNION { [S -> Props] : S \in SUBSET MentionIds }

ASSUME QidAssumption == Qids \subseteq Texts

\* Clustering gives every mention one row, with its normalized type.
ASSUME ClusterRowsAssumption ==
    \A S \in Snapshots :
        /\ ClusterRows(S) \in [DOMAIN S -> ClusterRow]
        /\ \A i \in DOMAIN S : ClusterRows(S)[i].type = NormalizeType[S[i].type]

\* A job is always for some run and dataset, and what is counted is finite.
ASSUME ScopeAssumption ==
    /\ Runs # {} /\ Datasets # {}
    /\ IsFiniteSet(Runs) /\ IsFiniteSet(MentionIds) /\ IsFiniteSet(Canonicals)
    /\ IsFiniteSet(RawTypes) /\ IsFiniteSet(Texts)

ASSUME BoundsAssumption ==
    {MaxStarts, MaxDryRuns, MaxExtractions, MaxIngests, MaxResets, MaxCrashes}
        \subseteq Nat

VARIABLES
    pc,             \* where each job is
    task,           \* the run, mode and dataset each job was started for
    snap,           \* mentions the job read
    unresolvedRows, \* its rows for clusters, by mention id
    resolvedRows,   \* its rows for RESOLVES_TO, by mention id
    alignmentRows,  \* its rows for ALIGNED_WITH, by cluster
    coverage,       \* its post-write counts
    summaryFile,    \* entity_resolution_summary.json, by run
    unresolvedFile  \* unresolved_mentions.json, by run

\* Auxiliary variables: `disturbed' says that the mentions of the job's run
\* were extracted anew or deleted since it started, `used' counts what the bounds limit.
VARIABLES disturbed, used

localVars == << snap, unresolvedRows, resolvedRows, alignmentRows, coverage >>
fileVars  == << summaryFile, unresolvedFile >>
vars == << graphVars, pc, task, localVars, fileVars, disturbed, used >>

Task == [run : Runs, mode : Modes, dataset : Datasets]
NoTask == CHOOSE t \in Task : TRUE
Budget == [starts : Nat, dryRuns : Nat, extractions : Nat, ingests : Nat,
           resets : Nat, crashes : Nat]

PassSteps == {"readMentions", "readCanonicals", "writeResolved",
              "writeMemberships", "writeCandidates", "writeAlignments",
              "countMembers", "countClusters", "countAligned", "countByMethod",
              "countMentions", "saveUnresolved", "saveSummary"}
DryRunSteps == {"saveDrySummary", "saveDryUnresolved"}

\* The counts a job reports; zero until it takes them.
Coverage == [clustered : Nat, unclustered : Nat, total : Nat, aligned : Nat,
             entities : Nat, byMethod : [AlignmentMethods -> Nat],
             inAligned : Nat]
NoCoverage == [clustered |-> 0, unclustered |-> 0, total |-> 0, aligned |-> 0,
               entities |-> 0, byMethod |-> [m \in AlignmentMethods |-> 0],
               inAligned |-> 0]

Summary == [status : {"live", "dry_run"}, mode : Modes, mentions : Nat,
            resolved : Nat, unresolved : Nat, created : Nat, pending : Nat,
            coverage : Coverage]

-----------------------------------------------------------------------------
(* Matching mentions and clusters to the fetched canonical rows.           *)

\* The orders in which rows of S may be returned: by entity_id, and in any
\* order among rows with the same one.
RowOrders(S) ==
    { order \in [S -> 1 .. Cardinality(S)] :
        \A a, b \in S :
            /\ order[a] = order[b] => a = b
            /\ Entity[a].rank < Entity[b].rank => order[a] < order[b] }

\* build_lookup_tables keeps the first row under each key.
FirstRow(order, T) == CHOOSE a \in T : \A b \in T : order[a] <= order[b]

QidMatches(S, text)   == { k \in S : text \in Entity[k].names }
LabelMatches(S, text) == { k \in S : text = Entity[k].label }
AliasMatches(S, text) == { k \in S : text \in Entity[k].aliases }

\* The alignment steps of a cluster: label, then alias.
Alignable(S, text) == LabelMatches(S, text) \cup AliasMatches(S, text) # {}
\* Fault of the next definition: an alias match is recorded as a label match.
AlignedAsLabel(order, S, text) ==
    [canonical |-> FirstRow(order, LabelMatches(S, text) \cup AliasMatches(S, text)),
     method |-> "label_exact"]

AlignedRow(order, S, text) ==
    IF LabelMatches(S, text) # {}
    THEN [canonical |-> FirstRow(order, LabelMatches(S, text)),
          method |-> "label_exact"]
    ELSE [canonical |-> FirstRow(order, AliasMatches(S, text)),
          method |-> "alias_exact"]

\* resolve_mention: a QID-shaped name is looked up by id only.
Resolvable(S, text) ==
    IF text \in Qids THEN QidMatches(S, text) # {} ELSE Alignable(S, text)
ResolvedTo(order, S, text) ==
    IF text \in Qids
    THEN [canonical |-> FirstRow(order, QidMatches(S, text)),
          method |-> "qid_exact"]
    ELSE AlignedRow(order, S, text)

UnresolvedRow(mention) ==
    [text |-> mention.text, type |-> NormalizeType[mention.type],
     method |-> "label_cluster", confidence |-> 0]

-----------------------------------------------------------------------------
(* Bookkeeping shared by the actions.                                      *)

Active(j) == pc[j] # "idle"
Goto(j, step) == pc' = [pc EXCEPT ![j] = step]
Spend(what) == used' = [used EXCEPT ![what] = @ + 1]

\* The mentions of `run' change under the jobs that are working on it.
Disturb(run) ==
    disturbed' = [j \in Jobs |-> disturbed[j] \/ (Active(j) /\ task[j].run = run)]

\* A job that returned or died has no memory.
Forget(j) ==
    /\ Goto(j, "idle")
    /\ task' = [task EXCEPT ![j] = NoTask]
    /\ disturbed' = [disturbed EXCEPT ![j] = FALSE]
    /\ snap' = [snap EXCEPT ![j] = NoRows]
    /\ unresolvedRows' = [unresolvedRows EXCEPT ![j] = NoRows]
    /\ resolvedRows' = [resolvedRows EXCEPT ![j] = NoRows]
    /\ alignmentRows' = [alignmentRows EXCEPT ![j] = NoRows]
    /\ coverage' = [coverage EXCEPT ![j] = NoCoverage]

-----------------------------------------------------------------------------
(* A pass, step by step.                                                   *)

Start(j, step) ==
    /\ ~Active(j)
    /\ \E t \in Task : task' = [task EXCEPT ![j] = t]
    /\ Goto(j, step)
    /\ UNCHANGED << graphVars, localVars, fileVars, disturbed >>

StartPass(j) ==
    /\ used.starts < MaxStarts
    /\ Spend("starts")
    /\ Start(j, "readMentions")

StartDryRun(j) ==
    /\ used.dryRuns < MaxDryRuns
    /\ Spend("dryRuns")
    /\ Start(j, "saveDrySummary")

ReadMentions(j) ==
    LET read == FetchMentions(task[j].run) IN
    /\ pc[j] = "readMentions"
    /\ snap' = [snap EXCEPT ![j] = read]
    /\ IF task[j].mode = "structured_anchor"
       THEN UNCHANGED unresolvedRows
       ELSE unresolvedRows' = [unresolvedRows EXCEPT ![j] = ClusterRows(read)]
    /\ Goto(j, IF task[j].mode = "unstructured_only" THEN "writeResolved"
                                                    ELSE "readCanonicals")
    /\ UNCHANGED << graphVars, task, resolvedRows, alignmentRows, coverage,
                    fileVars, disturbed, used >>

\* Hybrid: one alignment row for each distinct cluster with a match.
AlignClusters(j, order, S) ==
    LET run   == task[j].run
        found == { RowCluster(run, unresolvedRows[j][i]) :
                     i \in DOMAIN unresolvedRows[j] }
    IN  /\ alignmentRows' =
             [alignmentRows EXCEPT ![j] =
                [c \in { c \in found : Alignable(S, c.text) } |->
                    AlignedRow(order, S, c.text)]]
        /\ UNCHANGED << unresolvedRows, resolvedRows >>

SplitMentions(S, read) ==
    LET hits == { i \in DOMAIN read : Resolvable(S, read[i].text) }
    IN  [hits |-> hits, rest |-> (DOMAIN read) \ hits]

\* Structured anchor: every mention goes to one of the two row lists.
ResolveMentions(j, order, S) ==
    LET split == SplitMentions(S, snap[j])
    IN  /\ resolvedRows' =
             [resolvedRows EXCEPT ![j] =
                [i \in split.hits |-> ResolvedTo(order, S, snap[j][i].text)]]
        /\ unresolvedRows' =
             [unresolvedRows EXCEPT ![j] =
                [i \in split.rest |-> UnresolvedRow(snap[j][i])]]
        /\ UNCHANGED alignmentRows

ReadCanonicals(j) ==
    LET S == FetchCanonicals(task[j].dataset) IN
    /\ pc[j] = "readCanonicals"
    /\ \E order \in RowOrders(S) :
          IF task[j].mode = "hybrid" THEN AlignClusters(j, order, S)
                                     ELSE ResolveMentions(j, order, S)
    /\ Goto(j, "writeResolved")
    /\ UNCHANGED << graphVars, task, snap, coverage, fileVars, disturbed, used >>

\* Fault of the next definition: a pass that resolved nothing returns at once.
ReturnIfNoneResolved(j) ==
    IF resolvedRows[j] = NoRows THEN "saveUnresolved" ELSE "writeMemberships"

AfterResolved(j) == "writeMemberships"

PersistResolved(j) ==
    /\ pc[j] = "writeResolved"
    /\ WriteResolvedMentions(task[j].run, resolvedRows[j])
    /\ Goto(j, AfterResolved(j))
    /\ UNCHANGED << task, localVars, fileVars, disturbed, used >>

PersistMemberships(j) ==
    /\ pc[j] = "writeMemberships"
    /\ WriteClusterMemberships(task[j].run, unresolvedRows[j])
    /\ Goto(j, "writeCandidates")
    /\ UNCHANGED << task, localVars, fileVars, disturbed, used >>

AfterCandidates(j) ==
    CASE task[j].mode = "hybrid" -> "writeAlignments"
      [] task[j].mode = "unstructured_only" -> "countMembers"
      [] OTHER -> "saveUnresolved"

PersistCandidates(j) ==
    /\ pc[j] = "writeCandidates"
    /\ WriteCandidateMatches(task[j].run, unresolvedRows[j])
    /\ Goto(j, AfterCandidates(j))
    /\ UNCHANGED << task, localVars, fileVars, disturbed, used >>

PersistAlignments(j) ==
    /\ pc[j] = "writeAlignments"
    /\ WriteAlignments(task[j].run, alignmentRows[j])
    /\ Goto(j, "countMembers")
    /\ UNCHANGED << task, localVars, fileVars, disturbed, used >>

-----------------------------------------------------------------------------
(* Counting the result and saving the artifacts.                           *)

Report(j, counts, next) ==
    /\ coverage' = [coverage EXCEPT ![j] = counts]
    /\ Goto(j, next)
    /\ UNCHANGED << graphVars, task, snap, unresolvedRows, resolvedRows,
                    alignmentRows, fileVars, disturbed, used >>

\* Fault of the next definition: memberships are counted, not mentions.
CountedMemberships(run) ==
    [clustered   |-> Cardinality({ e \in DOMAIN memberOf : e[1] \in RunMentions(run) }),
     unclustered |-> Cardinality(RunMentions(run) \ ClusteredMentions(run))]

CountedMentions(run) ==
    [clustered   |-> Cardinality(ClusteredMentions(run)),
     unclustered |-> Cardinality(RunMentions(run) \ ClusteredMentions(run))]

AfterMembers(j) == IF task[j].mode = "hybrid" THEN "countClusters" ELSE "saveUnresolved"

CountMembers(j) ==
    LET counts == CountedMentions(task[j].run) IN
    /\ pc[j] = "countMembers"
    /\ Report(j, [coverage[j] EXCEPT !.clustered = counts.clustered,
                                     !.unclustered = counts.unclustered],
              AfterMembers(j))

CountClusters(j) ==
    /\ pc[j] = "countClusters"
    /\ Report(j, [coverage[j] EXCEPT
                    !.total = Cardinality(RunClusters(task[j].run))],
              "countAligned")

CountAligned(j) ==
    /\ pc[j] = "countAligned"
    /\ Report(j, [coverage[j] EXCEPT
                    !.aligned = Cardinality(AlignedClusters(task[j].run)),
                    !.entities = Cardinality(AlignedCanonicals(task[j].run))],
              "countByMethod")

CountByMethod(j) ==
    /\ pc[j] = "countByMethod"
    /\ Report(j, [coverage[j] EXCEPT
                    !.byMethod = AlignmentBreakdown(task[j].run)],
              "countMentions")

CountMentionsInAligned(j) ==
    /\ pc[j] = "countMentions"
    /\ Report(j, [coverage[j] EXCEPT
                    !.inAligned = Cardinality(MentionsInAligned(task[j].run))],
              "saveUnresolved")

\* unresolved_mentions.json: each unresolved mention with its cluster id.
SaveUnresolved(j) ==
    LET run == task[j].run IN
    /\ pc[j] = "saveUnresolved"
    /\ unresolvedFile' =
         Upsert(unresolvedFile,
                [r \in {run} |-> [i \in DOMAIN unresolvedRows[j] |->
                                    RowCluster(run, unresolvedRows[j][i])]])
    /\ Goto(j, "saveSummary")
    /\ UNCHANGED << graphVars, task, localVars, summaryFile, disturbed, used >>

\* Fault of ClustersCreated: a cluster is counted once for each of its rows.
RowsWritten(rows) == Cardinality(DOMAIN rows)

\* Fault of the next definition: what the two counts differ by, negative or not.
PendingUnclamped(seen) == seen.total - seen.aligned

ClustersPending(seen) ==
    IF seen.total > seen.aligned THEN seen.total - seen.aligned ELSE 0
ClustersCreated(rows) ==
    Cardinality({ << rows[i].type, rows[i].text >> : i \in DOMAIN rows })

LiveSummary(j) ==
    [status |-> "live", mode |-> task[j].mode,
     mentions   |-> Cardinality(DOMAIN snap[j]),
     resolved   |-> Cardinality(DOMAIN resolvedRows[j]),
     unresolved |-> Cardinality(DOMAIN unresolvedRows[j]),
     created    |-> ClustersCreated(unresolvedRows[j]),
     pending    |-> ClustersPending(coverage[j]),
     coverage   |-> coverage[j]]

DrySummary(mode) ==
    [status |-> "dry_run", mode |-> mode, mentions |-> 0, resolved |-> 0,
     unresolved |-> 0, created |-> 0, pending |-> 0, coverage |-> NoCoverage]

\* The summary is the stage's last write; the process then ends.
SaveSummary(j) ==
    /\ pc[j] = "saveSummary"
    /\ summaryFile' =
         Upsert(summaryFile, [r \in {task[j].run} |-> LiveSummary(j)])
    /\ Forget(j)
    /\ UNCHANGED << graphVars, unresolvedFile, used >>

\* A dry run touches no graph, and writes its two files in the other order.
SaveDrySummary(j) ==
    /\ pc[j] = "saveDrySummary"
    /\ summaryFile' = Upsert(summaryFile,
                             [r \in {task[j].run} |-> DrySummary(task[j].mode)])
    /\ Goto(j, "saveDryUnresolved")
    /\ UNCHANGED << graphVars, task, localVars, unresolvedFile, disturbed, used >>

SaveDryUnresolved(j) ==
    /\ pc[j] = "saveDryUnresolved"
    /\ unresolvedFile' = Upsert(unresolvedFile, [r \in {task[j].run} |-> NoRows])
    /\ Forget(j)
    /\ UNCHANGED << graphVars, summaryFile, used >>

-----------------------------------------------------------------------------
(* What happens around the passes.                                         *)

\* The process dies, or the driver raises, between two steps.
Crash(j) ==
    /\ Active(j)
    /\ used.crashes < MaxCrashes
    /\ Spend("crashes")
    /\ Forget(j)
    /\ UNCHANGED << graphVars, fileVars >>

\* Claim extraction of a run, or of part of it again.
Extract(run, rows) ==
    /\ used.extractions < MaxExtractions
    /\ Spend("extractions")
    /\ rows # NoRows
    /\ UpsertMentions(run, rows)
    /\ Disturb(run)
    /\ UNCHANGED << pc, task, localVars, fileVars >>

\* A structured ingest adds the entities of one structured run.
IngestStructured(run) ==
    /\ used.ingests < MaxIngests
    /\ Spend("ingests")
    /\ UpsertCanonicals({ k \in Canonicals : Entity[k].run = run })
    /\ UNCHANGED << pc, task, localVars, fileVars, disturbed >>

\* `reset' empties the graph under whatever is running; artifacts stay.
Reset ==
    /\ used.resets < MaxResets
    /\ Spend("resets")
    /\ DeleteDemoNodes
    /\ disturbed' = [j \in Jobs |-> Active(j)]
    /\ UNCHANGED << pc, task, localVars, fileVars >>

-----------------------------------------------------------------------------
Init ==
    /\ GraphInit
    /\ pc = [j \in Jobs |-> "idle"]
    /\ task = [j \in Jobs |-> NoTask]
    /\ snap = [j \in Jobs |-> NoRows]
    /\ unresolvedRows = [j \in Jobs |-> NoRows]
    /\ resolvedRows = [j \in Jobs |-> NoRows]
    /\ alignmentRows = [j \in Jobs |-> NoRows]
    /\ coverage = [j \in Jobs |-> NoCoverage]
    /\ summaryFile = NoRows
    /\ unresolvedFile = NoRows
    /\ disturbed = [j \in Jobs |-> FALSE]
    /\ used = [starts |-> 0, dryRuns |-> 0, extractions |-> 0, ingests |-> 0,
               resets |-> 0, crashes |-> 0]

\* One step of a started job.
JobStep(j) ==
    \/ ReadMentions(j) \/ ReadCanonicals(j)
    \/ PersistResolved(j) \/ PersistMemberships(j)
    \/ PersistCandidates(j) \/ PersistAlignments(j)
    \/ CountMembers(j) \/ CountClusters(j) \/ CountAligned(j)
    \/ CountByMethod(j) \/ CountMentionsInAligned(j)
    \/ SaveUnresolved(j) \/ SaveSummary(j)
    \/ SaveDrySummary(j) \/ SaveDryUnresolved(j)

Environment ==
    \/ \E run \in Runs, rows \in Snapshots : Extract(run, rows)
    \/ \E run \in StructuredRuns : IngestStructured(run)
    \/ Reset

Next ==
    \/ \E j \in Jobs : StartPass(j) \/ StartDryRun(j) \/ JobStep(j) \/ Crash(j)
    \/ Environment

Spec == Init /\ [][Next]_vars

\* A started process keeps running until it returns or dies.  Nobody is bound
\* to start one, to extract, to ingest or to reset.
Fairness == \A j \in Jobs : WF_vars(JobStep(j))
FairSpec == Spec /\ Fairness

-----------------------------------------------------------------------------
RowsTypeOK ==
    /\ DOMAIN snap = Jobs /\ DOMAIN unresolvedRows = Jobs
    /\ DOMAIN resolvedRows = Jobs /\ DOMAIN alignmentRows = Jobs
    /\ \A j \in Jobs :
        /\ IsPartialMap(snap[j], MentionIds, Props)
        /\ IsPartialMap(unresolvedRows[j], MentionIds, ClusterRow)
        /\ IsPartialMap(resolvedRows[j], MentionIds, ResolvedRow)
        /\ IsPartialMap(alignmentRows[j], Cluster, AlignmentRow)

ControlTypeOK ==
    /\ pc \in [Jobs -> {"idle"} \cup PassSteps \cup DryRunSteps]
    /\ task \in [Jobs -> Task]
    /\ disturbed \in [Jobs -> BOOLEAN]
    /\ used \in Budget

ReportTypeOK ==
    /\ coverage \in [Jobs -> Coverage]
    /\ IsPartialMap(summaryFile, Runs, Summary)
    /\ DOMAIN unresolvedFile \subseteq Runs
    /\ \A run \in DOMAIN unresolvedFile :
        IsPartialMap(unresolvedFile[run], MentionIds, Cluster)

TypeOK == GraphTypeOK /\ ControlTypeOK /\ RowsTypeOK /\ ReportTypeOK

-----------------------------------------------------------------------------
(* Safety.                                                                 *)

\* No edge crosses runs, however jobs for different runs interleave.
RunScoped ==
    /\ \A e \in DOMAIN memberOf \cup DOMAIN candidateMatch : e[1][1] = e[2].run
    /\ \A e \in DOMAIN alignedWith : e[1].run = e[3]

\* The writes of a pass are over.
Written(j) ==
    pc[j] \in {"countMembers", "countClusters", "countAligned", "countByMethod",
              "countMentions", "saveUnresolved", "saveSummary"}

\* When a pass has written, everything it computed is in the graph, whatever
\* other passes on the run wrote, crashed over or left half done meanwhile.
\* It may only fail to be if mentions were extracted or deleted under it.
RowsPersisted ==
    \A j \in Jobs : Written(j) /\ ~disturbed[j] =>
        LET run  == task[j].run
            rows == unresolvedRows[j]
            edge(i) == << <<run, i>>, RowCluster(run, rows[i]) >>
        IN  /\ \A i \in DOMAIN rows :
                /\ edge(i) \in DOMAIN memberOf
                /\ NeedsReview(rows[i]) => edge(i) \in DOMAIN candidateMatch
            /\ \A i \in DOMAIN resolvedRows[j] :
                << <<run, i>>, resolvedRows[j][i].canonical >> \in DOMAIN resolvesTo
            /\ \A c \in DOMAIN alignmentRows[j] :
                <<c, alignmentRows[j][c].canonical, run>> \in DOMAIN alignedWith

\* ... and no mention of the run is left out: each has a cluster or, after a
\* structured_anchor pass, a canonical entity.
Accounted(run, mode) ==
    \A m \in RunMentions(run) :
        \/ \E c \in RunClusters(run) : <<m, c>> \in DOMAIN memberOf
        \/ mode = "structured_anchor"
           /\ \E k \in canonicals : <<m, k>> \in DOMAIN resolvesTo
MentionsAccounted ==
    \A j \in Jobs : Written(j) /\ ~disturbed[j] => Accounted(task[j].run, task[j].mode)

\* The coverage a clustering pass reports is the doc's: every mention it read
\* is clustered and none is not.
CoverageTrue ==
    \A j \in Jobs :
        /\ pc[j] \in {"countClusters", "countAligned", "countByMethod",
                     "countMentions", "saveUnresolved", "saveSummary"}
        /\ task[j].mode # "structured_anchor"
        /\ ~disturbed[j]
        => /\ coverage[j].unclustered = 0
           /\ coverage[j].clustered = Cardinality(DOMAIN snap[j])

\* An alignment is justified by the text of its cluster, also when passes over
\* different catalogs updated it.
AlignmentJustified ==
    \A e \in DOMAIN alignedWith :
        LET entity == Entity[e[2]] IN
        \/ alignedWith[e] = "label_exact" /\ e[1].text = entity.label
        \/ alignedWith[e] = "alias_exact" /\ e[1].text \in entity.aliases

\* A reset breaks the next three: a pass it meets makes clusters for mentions
\* that are gone, a later extraction gives their ids back, and artifacts stay.
NoReset == used.resets = 0

\* The review queue lists memberships that exist, through crashes between the
\* two writes and reruns in other modes.
CandidateBacked == NoReset => DOMAIN candidateMatch \subseteq DOMAIN memberOf

\* No cluster without a member, though clusters are created before mentions
\* are looked up.
ClustersPopulated ==
    NoReset => \A c \in clusters : \E e \in DOMAIN memberOf : e[2] = c

\* The artifacts never run ahead of the graph: what unresolved_mentions.json
\* lists is in the graph, and so are the clusters a summary says it made.
ArtifactsBacked ==
    NoReset =>
        /\ \A run \in DOMAIN unresolvedFile : \A i \in DOMAIN unresolvedFile[run] :
            << <<run, i>>, unresolvedFile[run][i] >> \in DOMAIN memberOf
        /\ \A run \in DOMAIN summaryFile :
            summaryFile[run].created <= Cardinality(RunClusters(run))

-----------------------------------------------------------------------------
(* The abstract view.                                                      *)

RunStore(run) ==
    [mentions    |-> RunMentions(run),
     clusters    |-> RunClusters(run),
     members     |-> { e \in DOMAIN memberOf : e[1][1] = run },
     reviews     |-> { e \in DOMAIN candidateMatch : e[1][1] = run },
     resolutions |-> { e \in DOMAIN resolvesTo : e[1][1] = run },
     alignments  |-> { << e[1], e[2] >> :
                         e \in { e \in DOMAIN alignedWith : e[3] = run } }]

Stores == INSTANCE RunStores
            WITH store <- [run \in Runs |-> RunStore(run)], catalog <- canonicals

\* Resolution is additive and each run's part of the graph is its own.
AdditiveByRun == Stores!Spec

-----------------------------------------------------------------------------
(* Progress.                                                               *)

\* A started clustering pass ends with every mention of its run in a cluster,
\* unless the mentions change under it.  (Without crashes.)
PassClusters ==
    \A j \in Jobs, run \in Runs :
        (pc[j] = "readMentions" /\ task[j].run = run /\ task[j].mode # "structured_anchor")
        ~> Accounted(run, "hybrid") \/ disturbed[j]

-----------------------------------------------------------------------------
(* What documents of the repository say and the stage does not keep.       *)

\* "all existing MEMBER_OF edges and cluster nodes remain unchanged" (hybrid)
HybridKeepsMemberships ==
    [][\A j \in Jobs :
        task[j].mode = "hybrid" /\ pc[j] = "writeMemberships"
            /\ pc'[j] = "writeCandidates" =>
            \A e \in DOMAIN memberOf : memberOf'[e] = memberOf[e]]_vars
=============================================================================
