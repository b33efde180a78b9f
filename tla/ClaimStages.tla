---------------------------- MODULE ClaimStages ----------------------------
(***************************************************************************)
(* The extract-claims and claim-participation stages on a graph of chunks, *)
(* claims and mentions.  Extraction reads the chunks of a run, lets the    *)
(* model produce a graph, links its own rows and writes everything in one  *)
(* transaction.  Participation reads claims and mentions back in two       *)
(* queries, links them again and writes the edges.  Both then save what    *)
(* they report.  Jobs interleave, die between steps and are repeated.      *)
(***************************************************************************)
EXTENDS ClaimMatching

CONSTANTS
    Runs, Chunks, ClaimIds, MentionIds,
    Jobs,
    Outputs,    \* graphs the model may return for the chunks of a run
    MaxStarts, MaxDryRuns, MaxResets, MaxCrashes    \* bounds

ClaimRow == [slots : [Roles -> Texts \cup {NoText}], chunks : SUBSET Chunks]
MentionRow == [name : Texts, chunks : SUBSET Chunks]

\* f \in [S -> T] for some S \subseteq D
Partial(f, D, T) == DOMAIN f \subseteq D /\ \A x \in DOMAIN f : f[x] \in T
NoRows == [x \in {} |-> {}]
\* MERGE and SET: entries of g replace those of f.
Merge(f, g) ==
    [x \in (DOMAIN f) \cup (DOMAIN g) |-> IF x \in DOMAIN g THEN g[x] ELSE f[x]]

ASSUME OutputsAssumption ==
    \A out \in Outputs : /\ Partial(out.claims, ClaimIds, ClaimRow)
                         /\ Partial(out.mentions, MentionIds, MentionRow)

\* Ids are those of the rows of finitely many model answers.
ASSUME NodesAssumption == Runs # {} /\ IsFiniteSet(ClaimIds) /\ IsFiniteSet(MentionIds)

ASSUME StageBoundsAssumption ==
    {MaxStarts, MaxDryRuns, MaxResets, MaxCrashes} \subseteq Nat

VARIABLES
    chunks,         \* Chunk nodes, as << run, chunk >>
    claims,         \* slots of ExtractedClaim nodes, by << run, claim id >>
    mentions,       \* names of EntityMention nodes, by << run, mention id >>
    supportedBy, mentionedIn,   \* << node, chunk >> edges
    participant     \* match_method of HAS_PARTICIPANT, by << claim, role, mention >>

VARIABLES
    pc, task,       \* where each job is; its stage and run
    claimRows, mentionRows, edgeRows,   \* in the memory of each job
    summary,        \* summary files, by << stage, run >>
    metricsFile     \* participation_metrics.json, by run

\* Auxiliary variables: extractions written for each run, jobs whose run was
\* written by an extraction or deleted since they started, nodes whose texts
\* an extraction changed, and what the bounds count.
VARIABLES written, disturbed, rewritten, used

graphVars == << chunks, claims, mentions, supportedBy, mentionedIn, participant >>
rowVars   == << claimRows, mentionRows, edgeRows >>
fileVars  == << summary, metricsFile >>
history   == << written, disturbed, rewritten >>
vars == << graphVars, pc, task, rowVars, fileVars, history, used >>

Stages == {"extraction", "participation"}
Task == [stage : Stages, run : Runs]
NoTask == CHOOSE t \in Task : TRUE
ClaimNodes == Runs \X ClaimIds
MentionNodes == Runs \X MentionIds
Steps == {"idle", "readChunks", "writeExtraction", "saveExtraction", "readClaims",
          "readMentions", "writeEdges", "saveMetrics", "saveParticipation", "saveDry"}
Summary == [status : {"live", "dry_run"}, claims : Nat, mentions : Nat, edges : Nat]

Active(j) == pc[j] # "idle"
Goto(j, step) == pc' = [pc EXCEPT ![j] = step]
Spend(what) == used' = [used EXCEPT ![what] = @ + 1]
RunOf(j) == task[j].run

ChunksOf(links, node) == { c \in Chunks : << node, c >> \in links }

-----------------------------------------------------------------------------
(* Statements on the graph.                                                *)

\* SET claim += properties: a slot the row lacks keeps its value.
NewSlots(node, row) ==
    [role \in Roles |->
        IF row.slots[role] = NoText /\ node \in DOMAIN claims
        THEN claims[node][role] ELSE row.slots[role]]

ClaimsWritten(run, rows) ==
    Merge(claims, [n \in {run} \X DOMAIN rows |-> NewSlots(n, rows[n[2]])])
MentionsWritten(run, rows) ==
    Merge(mentions, [n \in {run} \X DOMAIN rows |-> rows[n[2]].name])

\* Fault of the next definition: rows are linked to every chunk of the run.
LinksToRun(run, rows) ==
    UNION { { << << run, i >>, c >> : c \in { c \in Chunks : << run, c >> \in chunks } } :
            i \in DOMAIN rows }

\* Links of rows to their chunks, those that are still there.
LinksOf(run, rows) ==
    UNION { { << << run, i >>, c >> : c \in { c \in rows[i].chunks : << run, c >> \in chunks } } :
            i \in DOMAIN rows }

\* Fault of the next definition: the ends are taken for granted.
EdgesUnmatched(run, rows, claimNodes, mentionNodes) ==
    LET key(e) == << << run, e[1] >>, e[2], << run, e[3] >> >>
    IN  Merge(participant, [k \in { key(e) : e \in DOMAIN rows } |->
                                rows[<< k[1][2], k[2], k[3][2] >>]])

\* MATCH both ends, MERGE the edge for its role, SET the method.
EdgesWritten(run, rows, claimNodes, mentionNodes) ==
    LET key(e) == << << run, e[1] >>, e[2], << run, e[3] >> >>
        there  == { e \in DOMAIN rows : /\ << run, e[1] >> \in claimNodes
                                        /\ << run, e[3] >> \in mentionNodes }
    IN  Merge(participant,
              [k \in { key(e) : e \in there } |-> rows[<< k[1][2], k[2], k[3][2] >>]])

-----------------------------------------------------------------------------
(* Jobs.                                                                   *)

Forget(j) ==
    /\ Goto(j, "idle")
    /\ claimRows' = [claimRows EXCEPT ![j] = NoRows]
    /\ mentionRows' = [mentionRows EXCEPT ![j] = NoRows]
    /\ edgeRows' = [edgeRows EXCEPT ![j] = NoRows]
    /\ disturbed' = disturbed \ {j}
    /\ task' = [task EXCEPT ![j] = NoTask]

Start(j) ==
    /\ ~Active(j) /\ used.starts < MaxStarts
    /\ Spend("starts")
    /\ \E t \in Task :
        /\ task' = [task EXCEPT ![j] = t]
        /\ Goto(j, IF t.stage = "extraction" THEN "readChunks" ELSE "readClaims")
    /\ UNCHANGED << graphVars, rowVars, fileVars, history >>

StartDry(j) ==
    /\ ~Active(j) /\ used.dryRuns < MaxDryRuns
    /\ Spend("dryRuns")
    /\ \E t \in Task : task' = [task EXCEPT ![j] = t]
    /\ Goto(j, "saveDry")
    /\ UNCHANGED << graphVars, rowVars, fileVars, history >>

\* prepare_extracted_rows links nodes to chunks that were read.
Prepared(rows, read) == [i \in DOMAIN rows |-> [rows[i] EXCEPT !.chunks = @ \cap read]]

\* Chunks are read, the model runs, rows are prepared and linked.
Extract(j) ==
    LET read == { c \in Chunks : << RunOf(j), c >> \in chunks } IN
    /\ pc[j] = "readChunks"
    /\ read # {}
    /\ \E out \in Outputs :
        LET cRows == Prepared(out.claims, read)
            mRows == Prepared(out.mentions, read)
        IN  /\ \A i \in DOMAIN cRows : cRows[i].chunks # {}
            /\ \A i \in DOMAIN mRows : mRows[i].chunks # {}
            /\ claimRows' = [claimRows EXCEPT ![j] = cRows]
            /\ mentionRows' = [mentionRows EXCEPT ![j] = mRows]
            /\ edgeRows' = [edgeRows EXCEPT ![j] = EdgeRows(cRows, mRows)]
    /\ Goto(j, "writeExtraction")
    /\ UNCHANGED << graphVars, task, fileVars, history, used >>

\* No chunk, or a node without one: the stage raises and has written nothing.
ExtractRaises(j) ==
    LET read == { c \in Chunks : << RunOf(j), c >> \in chunks } IN
    /\ pc[j] = "readChunks"
    /\ \/ read = {}
       \/ \E out \in Outputs :
            \/ \E i \in DOMAIN out.claims : out.claims[i].chunks \cap read = {}
            \/ \E i \in DOMAIN out.mentions : out.mentions[i].chunks \cap read = {}
    /\ Forget(j)
    /\ UNCHANGED << graphVars, fileVars, written, rewritten, used >>

\* write_all_extraction_data, one transaction.
WriteExtraction(j) ==
    LET run == RunOf(j) IN
    /\ pc[j] = "writeExtraction"
    /\ claims' = ClaimsWritten(run, claimRows[j])
    /\ mentions' = MentionsWritten(run, mentionRows[j])
    /\ supportedBy' = supportedBy \cup LinksOf(run, claimRows[j])
    /\ mentionedIn' = mentionedIn \cup LinksOf(run, mentionRows[j])
    /\ participant' = EdgesWritten(run, edgeRows[j], DOMAIN claims', DOMAIN mentions')
    /\ written' = [written EXCEPT ![run] = @ + 1]
    /\ disturbed' = disturbed \cup { k \in Jobs \ {j} : Active(k) /\ RunOf(k) = run }
    /\ rewritten' = rewritten
         \cup { n \in DOMAIN claims : claims'[n] # claims[n] }
         \cup { n \in DOMAIN mentions : mentions'[n] # mentions[n] }
    /\ Goto(j, "saveExtraction")
    /\ UNCHANGED << chunks, task, rowVars, fileVars, used >>

\* The first query of participation.
ReadClaims(j) ==
    LET node(i) == << RunOf(j), i >>
        found   == { i \in ClaimIds : node(i) \in DOMAIN claims }
    IN  /\ pc[j] = "readClaims"
        /\ claimRows' = [claimRows EXCEPT ![j] =
             [i \in found |-> [slots |-> claims[node(i)],
                               chunks |-> ChunksOf(supportedBy, node(i))]]]
        /\ Goto(j, "readMentions")
        /\ UNCHANGED << graphVars, task, mentionRows, edgeRows, fileVars, history, used >>

\* The second query; the edges are built from both answers.
ReadMentions(j) ==
    LET node(i) == << RunOf(j), i >>
        found   == { i \in MentionIds : node(i) \in DOMAIN mentions }
        mRows   == [i \in found |-> [name |-> mentions[node(i)],
                                     chunks |-> ChunksOf(mentionedIn, node(i))]]
    IN  /\ pc[j] = "readMentions"
        /\ mentionRows' = [mentionRows EXCEPT ![j] = mRows]
        /\ edgeRows' = [edgeRows EXCEPT ![j] = EdgeRows(claimRows[j], mRows)]
        /\ Goto(j, "writeEdges")
        /\ UNCHANGED << graphVars, task, claimRows, fileVars, history, used >>

\* write_participation_edges; no rows, no statement.
WriteEdges(j) ==
    /\ pc[j] = "writeEdges"
    /\ participant' = EdgesWritten(RunOf(j), edgeRows[j], DOMAIN claims, DOMAIN mentions)
    /\ Goto(j, "saveMetrics")
    /\ UNCHANGED << chunks, claims, mentions, supportedBy, mentionedIn, task, rowVars,
                    fileVars, history, used >>

SaveMetrics(j) ==
    /\ pc[j] = "saveMetrics"
    /\ metricsFile' = Merge(metricsFile,
         [r \in {RunOf(j)} |-> MatchMetrics(claimRows[j], mentionRows[j])])
    /\ Goto(j, "saveParticipation")
    /\ UNCHANGED << graphVars, task, rowVars, summary, history, used >>

SaveSummary(j, report) ==
    /\ summary' = Merge(summary, [k \in {<< task[j].stage, RunOf(j) >>} |-> report])
    /\ Forget(j)
    /\ UNCHANGED << graphVars, metricsFile, written, rewritten, used >>

Reported(j) ==
    [status |-> "live", claims |-> Cardinality(DOMAIN claimRows[j]),
     mentions |-> Cardinality(DOMAIN mentionRows[j]),
     edges |-> EdgeCount(claimRows[j], mentionRows[j])]

SaveLiveSummary(j) ==
    /\ pc[j] \in {"saveExtraction", "saveParticipation"}
    /\ SaveSummary(j, Reported(j))

SaveDrySummary(j) ==
    /\ pc[j] = "saveDry"
    /\ SaveSummary(j, [status |-> "dry_run", claims |-> 0, mentions |-> 0, edges |-> 0])

Crash(j) ==
    /\ Active(j) /\ used.crashes < MaxCrashes
    /\ Spend("crashes")
    /\ Forget(j)
    /\ UNCHANGED << graphVars, fileVars, written, rewritten >>

-----------------------------------------------------------------------------
(* The stages around them.                                                 *)

\* A PDF ingest writes the chunks of a run.  Run ids are not used twice, so
\* none comes back after a reset.
Ingest(run) ==
    /\ ~ \E c \in Chunks : << run, c >> \in chunks
    /\ used.resets = 0
    /\ \E C \in (SUBSET Chunks) \ {{}} : chunks' = chunks \cup ({run} \X C)
    /\ UNCHANGED << claims, mentions, supportedBy, mentionedIn, participant, pc, task,
                    rowVars, fileVars, history, used >>

Reset ==
    /\ used.resets < MaxResets
    /\ Spend("resets")
    /\ chunks' = {} /\ claims' = NoRows /\ mentions' = NoRows
    /\ supportedBy' = {} /\ mentionedIn' = {} /\ participant' = NoRows
    /\ written' = [run \in Runs |-> 0]
    /\ disturbed' = { j \in Jobs : Active(j) }
    /\ rewritten' = {}
    /\ UNCHANGED << pc, task, rowVars, fileVars >>

Init ==
    /\ chunks = {} /\ claims = NoRows /\ mentions = NoRows
    /\ supportedBy = {} /\ mentionedIn = {} /\ participant = NoRows
    /\ pc = [j \in Jobs |-> "idle"]
    /\ task = [j \in Jobs |-> NoTask]
    /\ claimRows = [j \in Jobs |-> NoRows]
    /\ mentionRows = [j \in Jobs |-> NoRows]
    /\ edgeRows = [j \in Jobs |-> NoRows]
    /\ summary = NoRows /\ metricsFile = NoRows
    /\ written = [run \in Runs |-> 0] /\ disturbed = {} /\ rewritten = {}
    /\ used = [starts |-> 0, dryRuns |-> 0, resets |-> 0, crashes |-> 0]

JobStep(j) ==
    \/ Start(j) \/ StartDry(j)
    \/ Extract(j) \/ ExtractRaises(j) \/ WriteExtraction(j)
    \/ ReadClaims(j) \/ ReadMentions(j) \/ WriteEdges(j) \/ SaveMetrics(j)
    \/ SaveLiveSummary(j) \/ SaveDrySummary(j) \/ Crash(j)

Next == (\E j \in Jobs : JobStep(j)) \/ (\E run \in Runs : Ingest(run)) \/ Reset

Spec == Init /\ [][Next]_vars
-----------------------------------------------------------------------------
(* Properties.                                                             *)

\* Types; edges lead from and to nodes that exist, also after resets under a job.
TypeOK ==
    /\ chunks \subseteq Runs \X Chunks
    /\ Partial(claims, ClaimNodes, [Roles -> Texts \cup {NoText}])
    /\ Partial(mentions, MentionNodes, Texts)
    /\ supportedBy \subseteq (DOMAIN claims) \X Chunks
    /\ mentionedIn \subseteq (DOMAIN mentions) \X Chunks
    /\ Partial(participant, (DOMAIN claims) \X Roles \X (DOMAIN mentions), Methods)
    /\ pc \in [Jobs -> Steps] /\ task \in [Jobs -> Task]
    /\ \A j \in Jobs :
        /\ Partial(claimRows[j], ClaimIds, ClaimRow)
        /\ Partial(mentionRows[j], MentionIds, MentionRow)
        /\ Partial(edgeRows[j], ClaimIds \X Roles \X MentionIds, Methods)
    /\ Partial(summary, Stages \X Runs, Summary)
    /\ Partial(metricsFile, Runs, Metrics)
    /\ written \in [Runs -> Nat] /\ disturbed \subseteq Jobs
    /\ rewritten \subseteq (DOMAIN claims) \cup (DOMAIN mentions)

NoReset == used.resets = 0

\* A claim and its participants are of one run and share a chunk of it, whatever
\* extractions and participation jobs overlapped or were repeated.  (A reset
\* between the reading of chunks and the write leaves nodes without chunks.)
EvidenceShared ==
    NoReset =>
        \A e \in DOMAIN participant :
            /\ e[1][1] = e[3][1]
            /\ ChunksOf(supportedBy, e[1]) \cap ChunksOf(mentionedIn, e[3]) # {}

\* What each method claims about a slot text and a name.
Justifies(method, text, name) ==
    IF method = "list_split"
    THEN \E k \in DOMAIN Parts[text], level \in 1 .. 3 :
            SameText(Levels[level], Parts[text][k], name)
    ELSE SameText(method, text, name)

\* match_method is true of the texts of claim and mention, unless an extraction
\* changed one of them after it was first written.  (A job that read before a
\* reset may link what an extraction wrote after it.)
EdgesJustified ==
    NoReset => \A e \in DOMAIN participant :
        {e[1], e[3]} \cap rewritten = {} =>
            /\ claims[e[1]][e[2]] # NoText
            /\ Justifies(participant[e], claims[e[1]][e[2]], mentions[e[3]])

\* Mentions that share a chunk with the claim and are named like its slot.
Namesakes(claim, role) ==
    { m \in DOMAIN mentions :
        /\ m[1] = claim[1] /\ mentions[m] = claims[claim][role]
        /\ ChunksOf(supportedBy, claim) \cap ChunksOf(mentionedIn, m) # {} }

\* No guesses: after one extraction of a run, a slot leads to the mention of its
\* name if there is exactly one, and to none of them if there are several.
NamesakesDecide ==
    NoReset =>
        \A claim \in DOMAIN claims, role \in Roles :
            written[claim[1]] = 1 =>
                \A m \in Namesakes(claim, role) :
                    << claim, role, m >> \in DOMAIN participant
                        <=> Namesakes(claim, role) = {m}

\* Each slot is counted once, and edges at most as often as slots and parts
\* matched; a summary claims no more edges and nodes than the graph has.
ReportsTrue ==
    /\ \A run \in DOMAIN metricsFile :
        LET m == metricsFile[run] IN
        /\ m.slots = m.exact + m.ambiguous + m.unmatched + m.full + m.partial
        /\ m.noSuccess <= m.unmatched
        /\ m.withEdge <= m.edges /\ m.withEdge <= m.claims
        /\ m.edges <= m.exact + m.matchedParts
    /\ NoReset =>
        \A k \in DOMAIN summary :
            /\ summary[k].edges <= Cardinality({ e \in DOMAIN participant : e[1][1] = k[2] })
            /\ summary[k].claims <= Cardinality({ n \in DOMAIN claims : n[1] = k[2] })
            /\ summary[k].mentions <= Cardinality({ n \in DOMAIN mentions : n[1] = k[2] })

\* claim-participation is an idempotent rebuild: after one extraction of the run
\* it finds from the graph exactly the edges the extraction found from its rows.
RebuildChangesNothing ==
    [][\A j \in Jobs :
        /\ pc[j] = "writeEdges" /\ pc'[j] = "saveMetrics"
        /\ j \notin disturbed /\ written[RunOf(j)] <= 1
        => participant' = participant]_vars
=============================================================================
