-------------------------- MODULE GraphReaderProofs --------------------------
(***************************************************************************)
(* What readers of the resolution graph may rely on, for all constants:    *)
(* the review queue and the artifacts are backed by memberships, clusters  *)
(* have members, a pass counts what it clustered, readers with queries of  *)
(* their own agree, and resolution is additive, run by run.                *)
(***************************************************************************)
EXTENDS GraphReaders, EntityResolutionProofs

-----------------------------------------------------------------------------
(* The invariant, on top of PassInv and RunScoped.                         *)

\* Rows for clusters have normalized types.
RowsNormalized ==
    \A j \in Jobs : \A i \in DOMAIN unresolvedRows[j] :
        NormalizeType[unresolvedRows[j][i].type] = unresolvedRows[j][i].type

\* Until a reset, mentions that a job read stay, and so do the memberships it wrote,
\* whether or not their run was extracted anew under the job.
RowsThere ==
    NoReset => \A j \in Jobs :
        HasRead(j) =>
            /\ \A i \in DOMAIN snap[j] : << task[j].run, i >> \in DOMAIN mentions
            /\ MembersWritten(j) =>
                \A i \in DOMAIN unresolvedRows[j] : RowEdge(j, i) \in DOMAIN memberOf

ReadInv ==
    /\ PassInv /\ RunScoped
    /\ RowsNormalized /\ RowsThere
    /\ CandidateBacked /\ ClustersPopulated

-----------------------------------------------------------------------------
(* Steps.                                                                  *)

\* What changes the graph.
LEMMA GraphSteps ==
    ASSUME [Next]_vars
    PROVE  \/ UNCHANGED graphVars
           \/ \E j \in Jobs : \/ PersistResolved(j) \/ PersistMemberships(j)
                              \/ PersistCandidates(j) \/ PersistAlignments(j)
           \/ \E run \in Runs, rows \in Snapshots : Extract(run, rows)
           \/ \E run \in StructuredRuns : IngestStructured(run)
           \/ Reset
  <1>1. ASSUME NEW j \in Jobs, StartPass(j) \/ StartDryRun(j) \/ Crash(j)
        PROVE  UNCHANGED graphVars
    BY <1>1 DEF StartPass, StartDryRun, Start, Crash
  <1>2. ASSUME NEW j \in Jobs, JobStep(j)
        PROVE  \/ UNCHANGED graphVars
               \/ PersistResolved(j) \/ PersistMemberships(j)
               \/ PersistCandidates(j) \/ PersistAlignments(j)
    <2>1. CASE ReadMentions(j) \/ ReadCanonicals(j)
      BY <2>1 DEF ReadMentions, ReadCanonicals
    <2>2. CASE \/ CountMembers(j) \/ CountClusters(j) \/ CountAligned(j)
               \/ CountByMethod(j) \/ CountMentionsInAligned(j)
      BY <2>2 DEF CountMembers, CountClusters, CountAligned, CountByMethod,
                  CountMentionsInAligned, Report
    <2>3. CASE \/ SaveUnresolved(j) \/ SaveSummary(j)
               \/ SaveDrySummary(j) \/ SaveDryUnresolved(j)
      BY <2>3 DEF SaveUnresolved, SaveSummary, SaveDrySummary, SaveDryUnresolved
    <2> QED
      BY <1>2, <2>1, <2>2, <2>3 DEF JobStep
  <1>3. CASE UNCHANGED vars
    BY <1>3 DEF vars
  <1> QED
    BY <1>1, <1>2, <1>3 DEF Next, Environment

\* A job's memberships: what the first write adds, and only that.
LEMMA MembersAdded ==
    ASSUME PassInv, NEW j \in Jobs, PersistMemberships(j)
    PROVE  /\ task[j].run \in Runs
           /\ IsPartialMap(unresolvedRows[j], MentionIds, ClusterRow)
           /\ HasRead(j)
           /\ UNCHANGED << mentions, canonicals, candidateMatch, resolvesTo, alignedWith >>
           /\ clusters' = clusters \cup { RowCluster(task[j].run, unresolvedRows[j][i]) :
                                            i \in DOMAIN unresolvedRows[j] }
           /\ DOMAIN memberOf \subseteq DOMAIN memberOf'
           /\ \A i \in DOMAIN unresolvedRows[j] :
                << task[j].run, i >> \in DOMAIN mentions => RowEdge(j, i) \in DOMAIN memberOf'
           /\ \A e \in (DOMAIN memberOf') \ DOMAIN memberOf :
                \E i \in DOMAIN unresolvedRows[j] :
                    e = RowEdge(j, i) /\ << task[j].run, i >> \in DOMAIN mentions
  <1>1. /\ pc[j] = "writeMemberships"
        /\ WriteClusterMemberships(task[j].run, unresolvedRows[j])
    BY DEF PersistMemberships
  <1>2. HasRows(j) /\ HasRead(j) /\ GraphTypeOK
    BY <1>1 DEF HasRows, HasRead, PassSteps, PassInv, TypeOK
  <1>3. /\ task[j].run \in Runs
        /\ IsPartialMap(unresolvedRows[j], MentionIds, ClusterRow)
    BY <1>2, RowsKnown
  <1>4. /\ UNCHANGED << mentions, canonicals, candidateMatch, resolvesTo, alignedWith >>
        /\ clusters' = clusters \cup { RowCluster(task[j].run, unresolvedRows[j][i]) :
                                         i \in DOMAIN unresolvedRows[j] }
    BY <1>1 DEF WriteClusterMemberships
  <1>5. /\ DOMAIN memberOf \subseteq DOMAIN memberOf'
        /\ \A i \in DOMAIN unresolvedRows[j] : << task[j].run, i >> \in DOMAIN mentions =>
             << << task[j].run, i >>, RowCluster(task[j].run, unresolvedRows[j][i]) >>
                \in DOMAIN memberOf'
        /\ \A e \in (DOMAIN memberOf') \ DOMAIN memberOf :
             \E i \in DOMAIN unresolvedRows[j] :
                /\ e = << << task[j].run, i >>, RowCluster(task[j].run, unresolvedRows[j][i]) >>
                /\ << task[j].run, i >> \in DOMAIN mentions
    BY <1>1, <1>2, <1>3, WriteClusterMembershipsAdds
  <1> QED
    BY <1>2, <1>3, <1>4, <1>5 DEF RowEdge

\* ... the second,
LEMMA CandidatesAdded ==
    ASSUME PassInv, NEW j \in Jobs, PersistCandidates(j)
    PROVE  /\ task[j].run \in Runs
           /\ IsPartialMap(unresolvedRows[j], MentionIds, ClusterRow)
           /\ HasRead(j) /\ MembersWritten(j)
           /\ UNCHANGED << mentions, canonicals, clusters, memberOf, resolvesTo, alignedWith >>
           /\ DOMAIN candidateMatch \subseteq DOMAIN candidateMatch'
           /\ \A e \in (DOMAIN candidateMatch') \ DOMAIN candidateMatch :
                \E i \in DOMAIN unresolvedRows[j] :
                    e = RowEdge(j, i) /\ << task[j].run, i >> \in DOMAIN mentions
  <1>1. /\ pc[j] = "writeCandidates"
        /\ WriteCandidateMatches(task[j].run, unresolvedRows[j])
    BY DEF PersistCandidates
  <1>2. HasRows(j) /\ HasRead(j) /\ MembersWritten(j) /\ GraphTypeOK
    BY <1>1 DEF HasRows, HasRead, MembersWritten, PassSteps, PassInv, TypeOK
  <1>3. /\ task[j].run \in Runs
        /\ IsPartialMap(unresolvedRows[j], MentionIds, ClusterRow)
    BY <1>2, RowsKnown
  <1>4. UNCHANGED << mentions, canonicals, clusters, memberOf, resolvesTo, alignedWith >>
    BY <1>1 DEF WriteCandidateMatches
  <1>5. /\ DOMAIN candidateMatch \subseteq DOMAIN candidateMatch'
        /\ \A e \in (DOMAIN candidateMatch') \ DOMAIN candidateMatch :
             \E i \in DOMAIN unresolvedRows[j] :
                /\ e = << << task[j].run, i >>, RowCluster(task[j].run, unresolvedRows[j][i]) >>
                /\ << task[j].run, i >> \in DOMAIN mentions
    BY <1>1, <1>2, <1>3, WriteCandidateMatchesAdds
  <1> QED
    BY <1>2, <1>3, <1>4, <1>5 DEF RowEdge

\* ... the resolutions of an anchored pass,
LEMMA ResolutionsAdded ==
    ASSUME PassInv, NEW j \in Jobs, PersistResolved(j)
    PROVE  /\ task[j].run \in Runs
           /\ HasRead(j)
           /\ UNCHANGED << mentions, canonicals, clusters, memberOf, candidateMatch, alignedWith >>
           /\ DOMAIN resolvesTo \subseteq DOMAIN resolvesTo'
           /\ \A e \in (DOMAIN resolvesTo') \ DOMAIN resolvesTo : e[1][1] = task[j].run
  <1>1. /\ pc[j] = "writeResolved"
        /\ WriteResolvedMentions(task[j].run, resolvedRows[j])
    BY DEF PersistResolved
  <1>2. HasRows(j) /\ HasRead(j) /\ GraphTypeOK
    BY <1>1 DEF HasRows, HasRead, PassSteps, PassInv, TypeOK
  <1>3. task[j].run \in Runs /\ IsPartialMap(resolvedRows[j], MentionIds, ResolvedRow)
    BY <1>2, RowsKnown
  <1>4. UNCHANGED << mentions, canonicals, clusters, memberOf, candidateMatch, alignedWith >>
    BY <1>1 DEF WriteResolvedMentions
  <1> QED
    BY <1>1, <1>2, <1>3, <1>4, WriteResolvedMentionsAdds

\* ... and the alignments.
LEMMA AlignmentsAdded ==
    ASSUME PassInv, NEW j \in Jobs, PersistAlignments(j)
    PROVE  /\ task[j].run \in Runs
           /\ HasRead(j) /\ MembersWritten(j)
           /\ UNCHANGED << mentions, canonicals, clusters, memberOf, candidateMatch, resolvesTo >>
           /\ DOMAIN alignedWith \subseteq DOMAIN alignedWith'
           /\ \A e \in (DOMAIN alignedWith') \ DOMAIN alignedWith : e[3] = task[j].run
  <1>1. /\ pc[j] = "writeAlignments"
        /\ WriteAlignments(task[j].run, alignmentRows[j])
    BY DEF PersistAlignments
  <1>2. HasRows(j) /\ HasRead(j) /\ MembersWritten(j) /\ GraphTypeOK
    BY <1>1 DEF HasRows, HasRead, MembersWritten, PassSteps, PassInv, TypeOK
  <1>3. task[j].run \in Runs /\ IsPartialMap(alignmentRows[j], Cluster, AlignmentRow)
    BY <1>2, RowsKnown
  <1>4. UNCHANGED << mentions, canonicals, clusters, memberOf, candidateMatch, resolvesTo >>
    BY <1>1 DEF WriteAlignments
  <1>5. /\ DOMAIN alignedWith \subseteq DOMAIN alignedWith'
        /\ \A e \in DOMAIN alignedWith' :
             \/ e \in DOMAIN alignedWith
             \/ \E c \in DOMAIN alignmentRows[j] :
                  e = << c, alignmentRows[j][c].canonical, task[j].run >>
    BY <1>1, <1>2, <1>3, WriteAlignmentsAdds
  <1> QED
    BY <1>2, <1>3, <1>4, <1>5

\* A step that is no reset adds to the graph; after one, NoReset is over.
LEMMA Grows ==
    ASSUME PassInv, [Next]_vars, NoReset'
    PROVE  NoReset /\ GraphGrows /\ DOMAIN mentions \subseteq DOMAIN mentions'
  <1>1. ~Reset
    <2>1. used.resets \in Nat /\ (Reset => used'.resets = used.resets + 1)
      BY DEF PassInv, TypeOK, ControlTypeOK, Budget, Reset, Spend
    <2> QED
      BY <2>1 DEF NoReset
  <1>2. NoReset
    <2>1. ASSUME NEW j \in Jobs, StartPass(j) \/ StartDryRun(j) \/ JobStep(j) \/ Crash(j)
          PROVE  used'.resets = used.resets
      <3>1. CASE StartPass(j) \/ StartDryRun(j) \/ Crash(j)
        BY <3>1 DEF StartPass, StartDryRun, Crash, Spend, PassInv, TypeOK, ControlTypeOK, Budget
      <3>2. CASE JobStep(j)
        BY <3>2 DEF JobStep, ReadMentions, ReadCanonicals, PersistResolved, PersistMemberships,
             PersistCandidates, PersistAlignments, CountMembers, CountClusters, CountAligned,
             CountByMethod, CountMentionsInAligned, Report, SaveUnresolved, SaveSummary,
             SaveDrySummary, SaveDryUnresolved
      <3> QED
        BY <2>1, <3>1, <3>2
    <2>2. ASSUME NEW run \in Runs, NEW rows \in Snapshots, Extract(run, rows)
          PROVE  used'.resets = used.resets
      BY <2>2 DEF Extract, Spend, PassInv, TypeOK, ControlTypeOK, Budget
    <2>3. ASSUME NEW run \in StructuredRuns, IngestStructured(run)
          PROVE  used'.resets = used.resets
      BY <2>3 DEF IngestStructured, Spend, PassInv, TypeOK, ControlTypeOK, Budget
    <2>4. UNCHANGED vars => used'.resets = used.resets
      BY DEF vars
    <2> QED
      BY <1>1, <2>1, <2>2, <2>3, <2>4 DEF Next, Environment, NoReset
  <1>3. CASE UNCHANGED graphVars
    BY <1>2, <1>3 DEF graphVars, GraphGrows
  <1>4. ASSUME NEW j \in Jobs, \/ PersistResolved(j) \/ PersistMemberships(j)
                               \/ PersistCandidates(j) \/ PersistAlignments(j)
        PROVE  GraphGrows /\ DOMAIN mentions \subseteq DOMAIN mentions'
    BY <1>4, MembersAdded, CandidatesAdded, ResolutionsAdded, AlignmentsAdded DEF GraphGrows
  <1>5. ASSUME NEW run \in Runs, NEW rows \in Snapshots, Extract(run, rows)
        PROVE  GraphGrows /\ DOMAIN mentions \subseteq DOMAIN mentions'
    <2>1. UNCHANGED << clusters, canonicals, memberOf, candidateMatch, resolvesTo, alignedWith >>
      BY <1>5 DEF Extract, UpsertMentions, edgeVars
    <2>2. DOMAIN mentions \subseteq DOMAIN mentions'
      <3> DEFINE new == [m \in {run} \X (DOMAIN rows) |-> rows[m[2]]]
      <3>1. mentions' = Upsert(mentions, new)
        BY <1>5 DEF Extract, UpsertMentions
      <3> HIDE DEF new
      <3> QED
        BY <3>1, UpsertDomain
    <2> QED
      BY <2>1, <2>2 DEF GraphGrows
  <1>6. ASSUME NEW run \in StructuredRuns, IngestStructured(run)
        PROVE  GraphGrows /\ DOMAIN mentions \subseteq DOMAIN mentions'
    BY <1>6 DEF IngestStructured, UpsertCanonicals, edgeVars, GraphGrows
  <1> QED
    BY <1>1, <1>2, <1>3, <1>4, <1>5, <1>6, GraphSteps

\* A step of one job leaves the memory of the others alone, ...
LEMMA OthersStay ==
    ASSUME PassInv, NEW j \in Jobs, NEW k \in Jobs, k # j,
           StartPass(j) \/ StartDryRun(j) \/ JobStep(j) \/ Crash(j)
    PROVE  JobKept(k) /\ disturbed'[k] = disturbed[k] /\ coverage'[k] = coverage[k]
  <1>0. /\ pc \in [Jobs -> {"idle"} \cup PassSteps \cup DryRunSteps]
        /\ DOMAIN task = Jobs /\ DOMAIN disturbed = Jobs /\ DOMAIN coverage = Jobs
        /\ DOMAIN snap = Jobs /\ DOMAIN unresolvedRows = Jobs
        /\ DOMAIN resolvedRows = Jobs /\ DOMAIN alignmentRows = Jobs
    BY DEF PassInv, TypeOK, ControlTypeOK, RowsTypeOK, ReportTypeOK
  <1>1. CASE StartPass(j) \/ StartDryRun(j)
    BY <1>0, <1>1 DEF StartPass, StartDryRun, Start, Goto, localVars, JobKept
  <1>2. CASE Forget(j)
    BY <1>0, <1>2 DEF Forget, Goto, JobKept
  <1>3. CASE ReadMentions(j)
    <2>1. unresolvedRows'[k] = unresolvedRows[k]
      BY <1>0, <1>3 DEF ReadMentions
    <2> QED
      BY <1>0, <1>3, <2>1 DEF ReadMentions, Goto, JobKept
  <1>4. CASE ReadCanonicals(j)
    <2>1. \E order, S : AlignClusters(j, order, S) \/ ResolveMentions(j, order, S)
      BY <1>4 DEF ReadCanonicals
    <2>2. /\ unresolvedRows'[k] = unresolvedRows[k] /\ resolvedRows'[k] = resolvedRows[k]
          /\ alignmentRows'[k] = alignmentRows[k]
      BY <1>0, <2>1 DEF AlignClusters, ResolveMentions
    <2> QED
      BY <1>0, <1>4, <2>2 DEF ReadCanonicals, Goto, JobKept
  <1>5. CASE PersistResolved(j) \/ PersistMemberships(j) \/ PersistCandidates(j) \/ PersistAlignments(j)
    BY <1>0, <1>5 DEF PersistResolved, PersistMemberships, PersistCandidates,
                      PersistAlignments, localVars, Goto, JobKept
  <1>6. CASE \/ CountMembers(j) \/ CountClusters(j) \/ CountAligned(j)
             \/ CountByMethod(j) \/ CountMentionsInAligned(j)
    <2>1. \E counts, step : Report(j, counts, step)
      BY <1>6 DEF CountMembers, CountClusters, CountAligned, CountByMethod, CountMentionsInAligned
    <2> QED
      BY <1>0, <2>1 DEF Report, Goto, JobKept
  <1>7. CASE SaveUnresolved(j) \/ SaveDrySummary(j)
    BY <1>0, <1>7 DEF SaveUnresolved, SaveDrySummary, localVars, Goto, JobKept
  <1> QED
    BY <1>1, <1>2, <1>3, <1>4, <1>5, <1>6, <1>7
       DEF JobStep, Crash, SaveSummary, SaveDryUnresolved

\* ... and other stages leave that of all alone, though they may disturb a job.
LEMMA StagesStay ==
    ASSUME PassInv, NEW k \in Jobs, Environment \/ UNCHANGED vars
    PROVE  /\ JobKept(k) /\ coverage' = coverage /\ unresolvedFile' = unresolvedFile
           /\ summaryFile' = summaryFile
           /\ disturbed[k] => disturbed'[k] \/ pc[k] = "idle"
  <1>1. /\ UNCHANGED << pc, task, localVars, fileVars >>
    BY DEF Environment, Extract, IngestStructured, Reset, vars
  <1>2. disturbed[k] => disturbed'[k] \/ pc[k] = "idle"
    BY DEF Environment, Extract, IngestStructured, Reset, vars, Disturb, Active
  <1> QED
    BY <1>1, <1>2 DEF JobKept, localVars, fileVars

\* What a job remembers: kept, forgotten, read, or carried on.
SameRows(j) ==
    task'[j] = task[j] /\ snap'[j] = snap[j] /\ unresolvedRows'[j] = unresolvedRows[j]
Anchored(j) ==
    \E D \in SUBSET DOMAIN snap[j] :
        unresolvedRows'[j] = [i \in D |-> UnresolvedRow(snap[j][i])]
LEMMA MemorySteps ==
    ASSUME PassInv, [Next]_vars, NEW k \in Jobs
    PROVE  \/ JobKept(k)
           \/ unresolvedRows'[k] = NoRows /\ ~HasRead(k)'
           \/ /\ ReadMentions(k) /\ ~HasRead(k) /\ ~MembersWritten(k)'
              /\ task'[k] = task[k] /\ snap'[k] = FetchMentions(task[k].run)
              /\ unresolvedRows'[k] \in {NoRows, ClusterRows(FetchMentions(task[k].run))}
           \/ /\ ReadCanonicals(k) /\ HasRead(k) /\ ~MembersWritten(k)'
              /\ task'[k] = task[k] /\ snap'[k] = snap[k]
              /\ unresolvedRows'[k] = unresolvedRows[k] \/ Anchored(k)
           \/ PersistResolved(k) /\ SameRows(k) /\ HasRead(k) /\ ~MembersWritten(k)'
           \/ PersistMemberships(k) /\ SameRows(k) /\ HasRead(k)
           \/ SameRows(k) /\ HasRead(k) /\ MembersWritten(k)
  <1>0. /\ pc \in [Jobs -> {"idle"} \cup PassSteps \cup DryRunSteps]
        /\ DOMAIN task = Jobs /\ DOMAIN snap = Jobs /\ DOMAIN unresolvedRows = Jobs
        /\ ~HasRead(k) => unresolvedRows[k] = NoRows
    BY DEF PassInv, TypeOK, ControlTypeOK, RowsTypeOK, MemoryInv
  <1>1. CASE \E j \in Jobs \ {k} : StartPass(j) \/ StartDryRun(j) \/ JobStep(j) \/ Crash(j)
    BY <1>1, OthersStay
  <1>2. CASE Environment \/ UNCHANGED vars
    BY <1>2, StagesStay
  <1>3. CASE StartPass(k) \/ StartDryRun(k)
    <2>1. PICK step \in {"readMentions", "saveDrySummary"} : Start(k, step)
      BY <1>3 DEF StartPass, StartDryRun
    <2>2. ~HasRead(k) /\ ~HasRead(k)' /\ unresolvedRows' = unresolvedRows
      BY <1>0, <2>1 DEF Start, Active, Goto, HasRead, PassSteps, localVars
    <2> QED
      BY <1>0, <2>2
  <1>4. CASE Forget(k)
    <2>1. ~HasRead(k)' /\ unresolvedRows'[k] = NoRows
      BY <1>0, <1>4 DEF Forget, Goto, HasRead, PassSteps
    <2> QED
      BY <2>1
  <1>5. CASE ReadMentions(k)
    <2>1. /\ pc[k] = "readMentions" /\ pc'[k] \in {"writeResolved", "readCanonicals"}
          /\ task' = task /\ snap'[k] = FetchMentions(task[k].run)
          /\ \/ unresolvedRows' = unresolvedRows
             \/ unresolvedRows'[k] = ClusterRows(FetchMentions(task[k].run))
      BY <1>0, <1>5 DEF ReadMentions, Goto
    <2>2. ~HasRead(k) /\ ~MembersWritten(k)'
      BY <2>1 DEF HasRead, MembersWritten, Written
    <2> QED
      BY <1>0, <1>5, <2>1, <2>2
  <1>6. CASE ReadCanonicals(k)
    <2>1. /\ pc[k] = "readCanonicals" /\ pc'[k] = "writeResolved"
          /\ task' = task /\ snap' = snap
      BY <1>0, <1>6 DEF ReadCanonicals, Goto
    <2>2. HasRead(k) /\ ~MembersWritten(k)'
      BY <2>1 DEF HasRead, MembersWritten, Written, PassSteps
    <2>3. \E order, S : AlignClusters(k, order, S) \/ ResolveMentions(k, order, S)
      BY <1>6 DEF ReadCanonicals
    <2>4. unresolvedRows' = unresolvedRows \/ Anchored(k)
      <3>1. PICK order, S : AlignClusters(k, order, S) \/ ResolveMentions(k, order, S)
        BY <2>3
      <3>2. CASE AlignClusters(k, order, S)
        BY <3>2 DEF AlignClusters
      <3>3. CASE ResolveMentions(k, order, S)
        <4> DEFINE D == SplitMentions(S, snap[k]).rest
        <4>1. D \subseteq DOMAIN snap[k]
          BY DEF SplitMentions
        <4>2. unresolvedRows'[k] = [i \in D |-> UnresolvedRow(snap[k][i])]
          BY <1>0, <3>3 DEF ResolveMentions
        <4> HIDE DEF D
        <4> QED
          BY <4>1, <4>2 DEF Anchored
      <3> QED
        BY <3>1, <3>2, <3>3
    <2> QED
      BY <1>6, <2>1, <2>2, <2>4
  <1>7. CASE PersistResolved(k)
    <2>1. pc[k] = "writeResolved" /\ pc'[k] = "writeMemberships" /\ SameRows(k)
      BY <1>0, <1>7 DEF PersistResolved, Goto, AfterResolved, localVars, SameRows
    <2> QED
      BY <1>7, <2>1 DEF HasRead, MembersWritten, Written, PassSteps
  <1>8. CASE PersistMemberships(k)
    BY <1>8 DEF PersistMemberships, localVars, SameRows, HasRead, PassSteps
  <1>9. CASE PersistCandidates(k) \/ PersistAlignments(k)
    BY <1>9 DEF PersistCandidates, PersistAlignments, localVars, SameRows, HasRead,
                MembersWritten, PassSteps
  <1>10. CASE \/ CountMembers(k) \/ CountClusters(k) \/ CountAligned(k)
              \/ CountByMethod(k) \/ CountMentionsInAligned(k) \/ SaveUnresolved(k)
    BY <1>10 DEF CountMembers, CountClusters, CountAligned, CountByMethod,
                 CountMentionsInAligned, Report, SaveUnresolved, localVars, SameRows, HasRead,
                 MembersWritten, Written, PassSteps
  <1>11. CASE SaveDrySummary(k)
    <2>1. ~HasRead(k) /\ ~HasRead(k)' /\ unresolvedRows' = unresolvedRows
      BY <1>0, <1>11 DEF SaveDrySummary, Goto, localVars, HasRead, PassSteps
    <2> QED
      BY <1>0, <2>1
  <1> QED
    BY <1>1, <1>2, <1>3, <1>4, <1>5, <1>6, <1>7, <1>8, <1>9, <1>10, <1>11
       DEF Next, JobStep, Crash, SaveSummary, SaveDryUnresolved

-----------------------------------------------------------------------------
(* The invariant is one.                                                   *)

\* Clustering gives rows normalized types, and so does anchoring.
LEMMA FetchedRowsNormalized ==
    ASSUME PassInv, NEW run \in Runs
    PROVE  LET rows == ClusterRows(FetchMentions(run)) IN
           \A i \in DOMAIN rows : NormalizeType[rows[i].type] = rows[i].type
  <1> DEFINE read == FetchMentions(run)
             rows == ClusterRows(read)
  <1>1. /\ IsPartialMap(read, MentionIds, Props) /\ DOMAIN rows = DOMAIN read
    BY FetchedRowsType DEF PassInv, TypeOK
  <1>2. read \in Snapshots
    BY <1>1 DEF IsPartialMap, Snapshots
  <1>3. \A i \in DOMAIN read : rows[i].type = NormalizeType[read[i].type]
    BY <1>2, ClusterRowsAssumption
  <1>4. \A i \in DOMAIN read : read[i].type \in RawTypes
    BY <1>1 DEF IsPartialMap, Props
  <1> HIDE DEF read, rows
  <1>5. \A i \in DOMAIN rows : NormalizeType[rows[i].type] = rows[i].type
    BY <1>1, <1>3, <1>4, PolicyAssumption
  <1> QED
    BY <1>5 DEF rows, read

LEMMA RowsNormalizedStep == PassInv /\ RowsNormalized /\ [Next]_vars => RowsNormalized'
  <1> SUFFICES ASSUME PassInv, RowsNormalized, [Next]_vars, NEW k \in Jobs
               PROVE  \A i \in DOMAIN unresolvedRows'[k] :
                        NormalizeType[unresolvedRows'[k][i].type] = unresolvedRows'[k][i].type
    BY DEF RowsNormalized
  <1>1. CASE unresolvedRows'[k] = unresolvedRows[k]
    BY <1>1 DEF RowsNormalized
  <1>2. CASE unresolvedRows'[k] = NoRows
    BY <1>2 DEF NoRows
  <1>3. CASE unresolvedRows'[k] = ClusterRows(FetchMentions(task[k].run))
    <2>1. task[k].run \in Runs
      BY DEF PassInv, TypeOK, ControlTypeOK, Task
    <2> QED
      BY <1>3, <2>1, FetchedRowsNormalized
  <1>4. CASE Anchored(k)
    <2>1. PICK D \in SUBSET DOMAIN snap[k] :
            unresolvedRows'[k] = [i \in D |-> UnresolvedRow(snap[k][i])]
      BY <1>4 DEF Anchored
    <2>2. \A i \in D : snap[k][i].type \in RawTypes
      BY DEF PassInv, TypeOK, RowsTypeOK, IsPartialMap, Props
    <2>3. \A i \in D : unresolvedRows'[k][i].type = NormalizeType[snap[k][i].type]
      BY <2>1 DEF UnresolvedRow
    <2>4. DOMAIN unresolvedRows'[k] = D
      BY <2>1
    <2> QED
      BY <2>2, <2>3, <2>4, PolicyAssumption
  <1> QED
    BY <1>1, <1>2, <1>3, <1>4, MemorySteps DEF JobKept, SameRows

\* What was read or written stays, as nothing but a reset deletes.
LEMMA RowsThereStep == PassInv /\ RowsThere /\ [Next]_vars => RowsThere'
  <1> SUFFICES ASSUME PassInv, RowsThere, [Next]_vars, NoReset', NEW k \in Jobs, HasRead(k)'
               PROVE  /\ \A i \in DOMAIN snap'[k] : << task'[k].run, i >> \in DOMAIN mentions'
                      /\ MembersWritten(k)' =>
                          \A i \in DOMAIN unresolvedRows'[k] : RowEdge(k, i)' \in DOMAIN memberOf'
    BY DEF RowsThere
  <1>1. NoReset /\ GraphGrows /\ DOMAIN mentions \subseteq DOMAIN mentions'
    BY Grows
  <1>2. DOMAIN memberOf \subseteq DOMAIN memberOf'
    BY <1>1 DEF GraphGrows
  <1>3. ASSUME HasRead(k), task'[k] = task[k], snap'[k] = snap[k]
        PROVE  \A i \in DOMAIN snap'[k] : << task'[k].run, i >> \in DOMAIN mentions'
    BY <1>1, <1>3 DEF RowsThere
  <1>4. ASSUME HasRead(k), MembersWritten(k), SameRows(k)
        PROVE  \A i \in DOMAIN unresolvedRows'[k] : RowEdge(k, i)' \in DOMAIN memberOf'
    BY <1>1, <1>2, <1>4 DEF RowsThere, SameRows, RowEdge
  <1>5. CASE JobKept(k)
    BY <1>3, <1>4, <1>5 DEF JobKept, SameRows, HasRead, MembersWritten, Written
  <1>6. CASE /\ ReadMentions(k) /\ ~MembersWritten(k)'
             /\ task'[k] = task[k] /\ snap'[k] = FetchMentions(task[k].run)
    <2>1. \A i \in DOMAIN FetchMentions(task[k].run) : << task[k].run, i >> \in DOMAIN mentions
      BY DEF FetchMentions
    <2> QED
      BY <1>1, <1>6, <2>1
  <1>7. CASE /\ HasRead(k) /\ ~MembersWritten(k)'
             /\ task'[k] = task[k] /\ snap'[k] = snap[k]
    BY <1>3, <1>7
  <1>8. CASE PersistMemberships(k) /\ SameRows(k) /\ HasRead(k)
    <2>1. \A i \in DOMAIN snap[k] : << task[k].run, i >> \in DOMAIN mentions
      BY <1>1, <1>8 DEF RowsThere
    <2>2. DOMAIN unresolvedRows[k] \subseteq DOMAIN snap[k]
      BY DEF PassInv, MemoryInv
    <2>3. \A i \in DOMAIN unresolvedRows[k] : RowEdge(k, i) \in DOMAIN memberOf'
      BY <1>8, <2>1, <2>2, MembersAdded
    <2>4. \A i \in DOMAIN unresolvedRows'[k] : RowEdge(k, i)' \in DOMAIN memberOf'
      BY <1>8, <2>3 DEF SameRows, RowEdge
    <2> QED
      BY <1>3, <1>8, <2>4 DEF SameRows
  <1>9. CASE SameRows(k) /\ HasRead(k) /\ MembersWritten(k)
    BY <1>3, <1>4, <1>9 DEF SameRows
  <1> QED
    BY <1>5, <1>6, <1>7, <1>8, <1>9, MemorySteps DEF SameRows

\* An entry of the review queue is written after its membership.
LEMMA CandidateBackedStep ==
    PassInv /\ RowsThere /\ CandidateBacked /\ [Next]_vars => CandidateBacked'
  <1> SUFFICES ASSUME PassInv, RowsThere, CandidateBacked, [Next]_vars, NoReset'
               PROVE  DOMAIN candidateMatch' \subseteq DOMAIN memberOf'
    BY DEF CandidateBacked
  <1>1. NoReset /\ DOMAIN memberOf \subseteq DOMAIN memberOf'
    BY Grows DEF GraphGrows
  <1>2. DOMAIN candidateMatch \subseteq DOMAIN memberOf
    BY <1>1 DEF CandidateBacked
  <1>3. CASE UNCHANGED candidateMatch
    BY <1>1, <1>2, <1>3
  <1>4. ASSUME NEW j \in Jobs, PersistCandidates(j)
        PROVE  DOMAIN candidateMatch' \subseteq DOMAIN memberOf'
    <2>1. \A e \in (DOMAIN candidateMatch') \ DOMAIN candidateMatch :
            \E i \in DOMAIN unresolvedRows[j] : e = RowEdge(j, i)
      BY <1>4, CandidatesAdded
    <2>2. \A i \in DOMAIN unresolvedRows[j] : RowEdge(j, i) \in DOMAIN memberOf
      BY <1>1, <1>4, CandidatesAdded DEF RowsThere
    <2> QED
      BY <1>1, <1>2, <2>1, <2>2
  <1>5. ASSUME Reset PROVE DOMAIN candidateMatch' \subseteq DOMAIN memberOf'
    BY <1>5 DEF Reset, DeleteDemoNodes, NoRows
  <1>6. ASSUME NEW j \in Jobs, PersistResolved(j) \/ PersistMemberships(j) \/ PersistAlignments(j)
        PROVE  UNCHANGED candidateMatch
    BY <1>6, MembersAdded, ResolutionsAdded, AlignmentsAdded
  <1>7. ASSUME NEW run \in Runs, NEW rows \in Snapshots, Extract(run, rows)
        PROVE  UNCHANGED candidateMatch
    BY <1>7 DEF Extract, UpsertMentions, edgeVars
  <1>8. ASSUME NEW run \in StructuredRuns, IngestStructured(run)
        PROVE  UNCHANGED candidateMatch
    BY <1>8 DEF IngestStructured, UpsertCanonicals, edgeVars
  <1> QED
    BY <1>3, <1>4, <1>5, <1>6, <1>7, <1>8, GraphSteps DEF graphVars

\* A cluster comes with the membership of the row it was made for.
LEMMA ClustersPopulatedStep ==
    PassInv /\ RowsThere /\ ClustersPopulated /\ [Next]_vars => ClustersPopulated'
  <1> SUFFICES ASSUME PassInv, RowsThere, ClustersPopulated, [Next]_vars, NoReset',
                      NEW c \in clusters'
               PROVE  \E e \in DOMAIN memberOf' : e[2] = c
    BY DEF ClustersPopulated
  <1>1. NoReset /\ DOMAIN memberOf \subseteq DOMAIN memberOf'
    BY Grows DEF GraphGrows
  <1>2. CASE c \in clusters
    BY <1>1, <1>2 DEF ClustersPopulated
  <1>3. ASSUME NEW j \in Jobs, PersistMemberships(j), c \notin clusters
        PROVE  \E e \in DOMAIN memberOf' : e[2] = c
    <2>1. PICK i \in DOMAIN unresolvedRows[j] : c = RowCluster(task[j].run, unresolvedRows[j][i])
      BY <1>3, MembersAdded
    <2>2. i \in DOMAIN snap[j] /\ HasRead(j)
      BY <1>3, MembersAdded DEF PassInv, MemoryInv
    <2>3. << task[j].run, i >> \in DOMAIN mentions
      BY <1>1, <2>2 DEF RowsThere
    <2>4. RowEdge(j, i) \in DOMAIN memberOf' /\ RowEdge(j, i)[2] = c
      BY <1>3, <2>1, <2>3, MembersAdded DEF RowEdge
    <2> QED
      BY <2>4
  <1>4. ASSUME Reset PROVE FALSE
    BY <1>4 DEF Reset, DeleteDemoNodes
  <1>5. ASSUME NEW j \in Jobs, PersistResolved(j) \/ PersistCandidates(j) \/ PersistAlignments(j)
        PROVE  UNCHANGED clusters
    BY <1>5, CandidatesAdded, ResolutionsAdded, AlignmentsAdded
  <1>6. ASSUME NEW run \in Runs, NEW rows \in Snapshots, Extract(run, rows)
        PROVE  UNCHANGED clusters
    BY <1>6 DEF Extract, UpsertMentions
  <1>7. ASSUME NEW run \in StructuredRuns, IngestStructured(run)
        PROVE  UNCHANGED clusters
    BY <1>7 DEF IngestStructured, UpsertCanonicals
  <1> QED
    BY <1>2, <1>3, <1>4, <1>5, <1>6, <1>7, GraphSteps DEF graphVars

LEMMA ReadInitially == Init => ReadInv
  <1> SUFFICES ASSUME Init PROVE ReadInv
    OBVIOUS
  <1>1. PassInv
    BY InitInv
  <1>2. DOMAIN NoRows = {}
    BY DEF NoRows
  <1>3. RunScoped /\ CandidateBacked /\ ClustersPopulated
    BY <1>2 DEF Init, GraphInit, RunScoped, CandidateBacked, ClustersPopulated
  <1>4. RowsNormalized
    BY <1>2 DEF Init, RowsNormalized
  <1>5. RowsThere
    BY DEF Init, RowsThere, HasRead, PassSteps
  <1> QED
    BY <1>1, <1>3, <1>4, <1>5 DEF ReadInv

LEMMA ReadAlways == Spec => []ReadInv
  <1>1. /\ PassInv /\ RowsNormalized /\ RowsThere /\ CandidateBacked /\ ClustersPopulated
        /\ [Next]_vars
        => RowsNormalized' /\ RowsThere' /\ CandidateBacked' /\ ClustersPopulated'
    BY RowsNormalizedStep, RowsThereStep, CandidateBackedStep, ClustersPopulatedStep
  <1>2. Init => RowsNormalized /\ RowsThere /\ CandidateBacked /\ ClustersPopulated
    BY ReadInitially DEF ReadInv
  <1>3. ReadInv <=> /\ PassInv /\ RunScoped
                    /\ RowsNormalized /\ RowsThere /\ CandidateBacked /\ ClustersPopulated
    BY DEF ReadInv
  <1> QED
    BY <1>1, <1>2, <1>3, Invariance, EdgesRunScoped, PTL DEF Spec

\* Until a reset, every entry of the review queue is a membership, through crashes
\* between the two writes and reruns in other modes.
THEOREM ReviewsBacked == Spec => []CandidateBacked
  BY ReadAlways, PTL DEF ReadInv

\* Until a reset, every cluster has a member, though clusters are created before
\* mentions are looked up.
THEOREM NoEmptyCluster == Spec => []ClustersPopulated
  BY ReadAlways, PTL DEF ReadInv

-----------------------------------------------------------------------------
(* The artifacts and the coverage of a pass.                               *)

\* What a step writes to the artifacts.
LEMMA FileSteps ==
    ASSUME PassInv, [Next]_vars
    PROVE  /\ \/ unresolvedFile' = unresolvedFile
              \/ \E j \in Jobs : SaveUnresolved(j) \/ SaveDryUnresolved(j)
           /\ \/ summaryFile' = summaryFile
              \/ \E j \in Jobs : SaveSummary(j) \/ SaveDrySummary(j)
  <1>1. CASE Environment \/ UNCHANGED vars
    BY <1>1 DEF Environment, Extract, IngestStructured, Reset, vars, fileVars
  <1>2. ASSUME NEW j \in Jobs, StartPass(j) \/ StartDryRun(j) \/ Crash(j)
        PROVE  unresolvedFile' = unresolvedFile /\ summaryFile' = summaryFile
    BY <1>2 DEF StartPass, StartDryRun, Start, Crash, fileVars
  <1>3. ASSUME NEW j \in Jobs, JobStep(j)
        PROVE  /\ \/ unresolvedFile' = unresolvedFile
                  \/ SaveUnresolved(j) \/ SaveDryUnresolved(j)
               /\ \/ summaryFile' = summaryFile
                  \/ SaveSummary(j) \/ SaveDrySummary(j)
    <2>1. CASE ReadMentions(j) \/ ReadCanonicals(j)
      BY <2>1 DEF ReadMentions, ReadCanonicals, fileVars
    <2>2. CASE \/ CountMembers(j) \/ CountClusters(j) \/ CountAligned(j)
               \/ CountByMethod(j) \/ CountMentionsInAligned(j)
      BY <2>2 DEF CountMembers, CountClusters, CountAligned, CountByMethod,
                  CountMentionsInAligned, Report, fileVars
    <2>3. CASE \/ PersistResolved(j) \/ PersistMemberships(j)
               \/ PersistCandidates(j) \/ PersistAlignments(j)
      BY <2>3 DEF PersistResolved, PersistMemberships, PersistCandidates, PersistAlignments,
                  fileVars
    <2>4. CASE \/ SaveUnresolved(j) \/ SaveSummary(j)
               \/ SaveDrySummary(j) \/ SaveDryUnresolved(j)
      BY <2>4 DEF SaveUnresolved, SaveSummary, SaveDrySummary, SaveDryUnresolved
    <2> QED
      BY <1>3, <2>1, <2>2, <2>3, <2>4 DEF JobStep
  <1> QED
    BY <1>1, <1>2, <1>3 DEF Next

\* The clusters a pass says it made are in the graph: rows with different types or texts
\* are rows for different clusters.
LEMMA CreatedThere ==
    ASSUME ReadInv, NoReset, NEW j \in Jobs, HasRead(j), MembersWritten(j)
    PROVE  ClustersCreated(unresolvedRows[j]) <= Cardinality(RunClusters(task[j].run))
  <1> DEFINE rows == unresolvedRows[j]
             run  == task[j].run
             made == { << rows[i].type, rows[i].text >> : i \in DOMAIN rows }
             f    == [p \in made |-> [run |-> run, type |-> p[1], text |-> p[2]]]
  <1>1. \A i \in DOMAIN rows : [run |-> run, type |-> rows[i].type, text |-> rows[i].text]
                                  \in RunClusters(run)
    <2> SUFFICES ASSUME NEW i \in DOMAIN rows
                 PROVE  [run |-> run, type |-> rows[i].type, text |-> rows[i].text]
                           \in RunClusters(run)
      OBVIOUS
    <2>1. RowEdge(j, i) \in DOMAIN memberOf
      BY DEF ReadInv, RowsThere
    <2>2. RowEdge(j, i)[2] \in clusters
      BY <2>1 DEF ReadInv, PassInv, TypeOK, GraphTypeOK, IsPartialMap
    <2>3. NormalizeType[rows[i].type] = rows[i].type
      BY DEF ReadInv, RowsNormalized
    <2> QED
      BY <2>2, <2>3 DEF RowEdge, RowCluster, ClusterId, RunClusters
  <1>2. f \in Injection(made, RunClusters(run))
    <2>1. ASSUME NEW p \in made
          PROVE  p = << p[1], p[2] >> /\ f[p] \in RunClusters(run)
      <3>1. PICK i \in DOMAIN rows : p = << rows[i].type, rows[i].text >>
        OBVIOUS
      <3>2. f[p] = [run |-> run, type |-> rows[i].type, text |-> rows[i].text]
        BY <3>1
      <3> HIDE DEF f, made
      <3> QED
        BY <1>1, <3>1, <3>2
    <2>2. \A p, q \in made : f[p] = f[q] => p = q
      <3> SUFFICES ASSUME NEW p \in made, NEW q \in made, f[p] = f[q] PROVE p = q
        OBVIOUS
      <3>1. p[1] = f[p].type /\ p[2] = f[p].text /\ q[1] = f[q].type /\ q[2] = f[q].text
        OBVIOUS
      <3> HIDE DEF f, made
      <3> QED
        BY <2>1, <3>1
    <2>3. f \in [made -> RunClusters(run)]
      BY <2>1
    <2> HIDE DEF f, made
    <2> QED
      BY <2>2, <2>3 DEF Injection, IsInjective
  <1>3. IsFiniteSet(RunClusters(run))
    <2>1. RunClusters(run) \in SUBSET Cluster
      BY DEF RunClusters, ReadInv, PassInv, TypeOK, GraphTypeOK
    <2> QED
      BY <2>1, NodesFinite, FS_Subset
  <1>4. Cardinality(made) <= Cardinality(RunClusters(run))
    <2> HIDE DEF f, made, run
    <2> QED
      BY <1>2, <1>3, FS_Injection
  <1> QED
    BY <1>4 DEF ClustersCreated

\* More clusters make larger counts.
LEMMA RunClustersGrow ==
    ASSUME PassInv, [Next]_vars, NoReset', NEW run \in Runs
    PROVE  /\ Cardinality(RunClusters(run)) \in Nat /\ Cardinality(RunClusters(run)') \in Nat
           /\ Cardinality(RunClusters(run)) <= Cardinality(RunClusters(run)')
  <1>1. clusters \subseteq clusters'
    BY Grows DEF GraphGrows
  <1>2. PassInv'
    BY StepInv
  <1>3. RunClusters(run)' \in SUBSET Cluster
    BY <1>2 DEF RunClusters, PassInv, TypeOK, GraphTypeOK
  <1>4. RunClusters(run) \in SUBSET (RunClusters(run)')
    BY <1>1 DEF RunClusters
  <1>5. IsFiniteSet(RunClusters(run)')
    BY <1>3, NodesFinite, FS_Subset
  <1> DEFINE S == RunClusters(run)
             T == RunClusters(run)'
  <1> HIDE DEF S, T
  <1>6. Cardinality(S) \in Nat /\ Cardinality(T) \in Nat /\ Cardinality(S) <= Cardinality(T)
    BY <1>4, <1>5, FS_Subset, FS_CardinalityType DEF S, T
  <1> QED
    BY <1>6 DEF S, T

\* Dropped the reset clause, what ArtifactsBacked says of each file.
ListBacked(run) ==
    \A i \in DOMAIN unresolvedFile[run] :
        << <<run, i>>, unresolvedFile[run][i] >> \in DOMAIN memberOf
CountBacked(run) == summaryFile[run].created <= Cardinality(RunClusters(run))

LEMMA ListBackedStep ==
    ASSUME ReadInv, [Next]_vars, NoReset', ArtifactsBacked, NEW run \in DOMAIN unresolvedFile'
    PROVE  ListBacked(run)'
  <1>1. NoReset /\ DOMAIN memberOf \subseteq DOMAIN memberOf' /\ PassInv
    BY Grows DEF GraphGrows, ReadInv
  <1>2. ASSUME run \in DOMAIN unresolvedFile, unresolvedFile'[run] = unresolvedFile[run]
        PROVE  ListBacked(run)'
    BY <1>1, <1>2 DEF ArtifactsBacked, ListBacked
  <1>3. CASE unresolvedFile' = unresolvedFile
    BY <1>2, <1>3
  <1>4. ASSUME NEW j \in Jobs, SaveUnresolved(j)
        PROVE  ListBacked(run)'
    <2> DEFINE list == [i \in DOMAIN unresolvedRows[j] |->
                          RowCluster(task[j].run, unresolvedRows[j][i])]
    <2>1. \/ run = task[j].run /\ unresolvedFile'[run] = list
          \/ run \in DOMAIN unresolvedFile /\ unresolvedFile'[run] = unresolvedFile[run]
      <3>1. unresolvedFile' = Upsert(unresolvedFile, [r \in {task[j].run} |-> list])
        BY <1>4 DEF SaveUnresolved
      <3> HIDE DEF list
      <3> QED
        BY <3>1 DEF Upsert
    <2>2. HasRead(j) /\ MembersWritten(j)
      BY <1>4 DEF SaveUnresolved, HasRead, MembersWritten, Written, PassSteps
    <2>3. ASSUME run = task[j].run, unresolvedFile'[run] = list
          PROVE  ListBacked(run)'
      <3>1. \A i \in DOMAIN unresolvedRows[j] : RowEdge(j, i) \in DOMAIN memberOf'
        BY <1>1, <2>2 DEF ReadInv, RowsThere
      <3>2. \A i \in DOMAIN list : << <<run, i>>, list[i] >> \in DOMAIN memberOf'
        BY <2>3, <3>1 DEF RowEdge
      <3> QED
        BY <2>3, <3>2 DEF ListBacked
    <2> QED
      BY <1>2, <2>1, <2>3
  <1>5. ASSUME NEW j \in Jobs, SaveDryUnresolved(j)
        PROVE  ListBacked(run)'
    <2>1. \/ run = task[j].run /\ unresolvedFile'[run] = NoRows
          \/ run \in DOMAIN unresolvedFile /\ unresolvedFile'[run] = unresolvedFile[run]
      <3>1. unresolvedFile' = Upsert(unresolvedFile, [r \in {task[j].run} |-> NoRows])
        BY <1>5 DEF SaveDryUnresolved
      <3> QED
        BY <3>1 DEF Upsert
    <2>2. ASSUME unresolvedFile'[run] = NoRows PROVE ListBacked(run)'
      BY <2>2 DEF ListBacked, NoRows
    <2> QED
      BY <1>2, <2>1, <2>2
  <1> QED
    BY <1>1, <1>3, <1>4, <1>5, FileSteps

LEMMA CountBackedStep ==
    ASSUME ReadInv, [Next]_vars, NoReset', ArtifactsBacked, NEW run \in DOMAIN summaryFile'
    PROVE  CountBacked(run)'
  <1>1. NoReset /\ PassInv /\ PassInv'
    BY Grows, StepInv DEF ReadInv
  <1>2. run \in Runs /\ summaryFile'[run] \in Summary
    BY <1>1 DEF PassInv, TypeOK, ReportTypeOK, IsPartialMap
  <1>3. /\ Cardinality(RunClusters(run)) \in Nat /\ Cardinality(RunClusters(run)') \in Nat
        /\ Cardinality(RunClusters(run)) <= Cardinality(RunClusters(run)')
    BY <1>1, <1>2, RunClustersGrow
  <1>4. summaryFile'[run].created \in Nat
    BY <1>2 DEF Summary
  <1>5. ASSUME summaryFile'[run].created <= Cardinality(RunClusters(run))
        PROVE  CountBacked(run)'
    BY <1>3, <1>4, <1>5 DEF CountBacked
  <1>6. ASSUME run \in DOMAIN summaryFile, summaryFile'[run] = summaryFile[run]
        PROVE  CountBacked(run)'
    BY <1>1, <1>5, <1>6 DEF ArtifactsBacked
  <1>7. ASSUME NEW j \in Jobs, SaveSummary(j)
        PROVE  CountBacked(run)'
    <2>1. \/ run = task[j].run /\ summaryFile'[run] = LiveSummary(j)
          \/ run \in DOMAIN summaryFile /\ summaryFile'[run] = summaryFile[run]
      <3>1. summaryFile' = Upsert(summaryFile, [r \in {task[j].run} |-> LiveSummary(j)])
        BY <1>7 DEF SaveSummary
      <3> QED
        BY <3>1 DEF Upsert
    <2>2. HasRead(j) /\ MembersWritten(j)
      BY <1>7 DEF SaveSummary, HasRead, MembersWritten, Written, PassSteps
    <2>3. LiveSummary(j).created <= Cardinality(RunClusters(task[j].run))
      BY <1>1, <2>2, CreatedThere DEF LiveSummary
    <2> QED
      BY <1>5, <1>6, <2>1, <2>3
  <1>8. ASSUME NEW j \in Jobs, SaveDrySummary(j)
        PROVE  CountBacked(run)'
    <2>1. \/ run = task[j].run /\ summaryFile'[run] = DrySummary(task[j].mode)
          \/ run \in DOMAIN summaryFile /\ summaryFile'[run] = summaryFile[run]
      <3>1. summaryFile' =
              Upsert(summaryFile, [r \in {task[j].run} |-> DrySummary(task[j].mode)])
        BY <1>8 DEF SaveDrySummary
      <3> QED
        BY <3>1 DEF Upsert
    <2>2. DrySummary(task[j].mode).created = 0
      BY DEF DrySummary
    <2> QED
      BY <1>3, <1>5, <1>6, <2>1, <2>2
  <1> QED
    BY <1>1, <1>6, <1>7, <1>8, FileSteps

\* Until a reset the artifacts never run ahead of the graph: what the list of unresolved
\* mentions says is a membership, and the clusters a summary says were made are there.
THEOREM ArtifactsFollow == Spec => []ArtifactsBacked
  <1>1. Init => ArtifactsBacked
    BY DEF Init, ArtifactsBacked, NoRows
  <1>2. ReadInv /\ ArtifactsBacked /\ [Next]_vars => ArtifactsBacked'
    <2> SUFFICES ASSUME ReadInv, ArtifactsBacked, [Next]_vars, NoReset'
                 PROVE  /\ \A run \in DOMAIN unresolvedFile' : ListBacked(run)'
                        /\ \A run \in DOMAIN summaryFile' : CountBacked(run)'
      BY DEF ArtifactsBacked, ListBacked, CountBacked
    <2> QED
      BY ListBackedStep, CountBackedStep
  <1> QED
    BY <1>1, <1>2, ReadAlways, PTL DEF Spec

\* When a clustering pass that nobody disturbed has written, every mention of its run is
\* in a cluster, and those are the mentions it read.
LEMMA AllClustered ==
    ASSUME PassInv, NEW j \in Jobs, Written(j), ~disturbed[j],
           task[j].mode # "structured_anchor"
    PROVE  LET counts == CountedMentions(task[j].run) IN
           counts.unclustered = 0 /\ counts.clustered = Cardinality(DOMAIN snap[j])
  <1> DEFINE run == task[j].run
             f   == [i \in DOMAIN snap[j] |-> << run, i >>]
  <1>1. ClusteredMentions(run) = RunMentions(run)
    <2>1. Accounted(run, task[j].mode)
      BY AllAccounted DEF MentionsAccounted
    <2> QED
      BY <2>1 DEF Accounted, ClusteredMentions
  <1>2. DOMAIN snap[j] \subseteq MentionIds
    BY DEF PassInv, TypeOK, RowsTypeOK, IsPartialMap
  <1>3. \A i \in MentionIds : i \in DOMAIN snap[j] <=> << run, i >> \in DOMAIN mentions
    BY DEF PassInv, GraphInv, HasRead, Written, PassSteps
  <1>4. f \in [DOMAIN snap[j] -> RunMentions(run)]
    BY <1>2, <1>3 DEF RunMentions
  <1>5. \A a, b \in DOMAIN snap[j] : f[a] = f[b] => a = b
    OBVIOUS
  <1>6. ASSUME NEW m \in RunMentions(run)
        PROVE  \E i \in DOMAIN snap[j] : f[i] = m
    <2>1. m \in Mention /\ m \in DOMAIN mentions /\ m[1] = run
      BY DEF RunMentions, PassInv, TypeOK, GraphTypeOK, IsPartialMap
    <2>2. m[2] \in MentionIds /\ m = << run, m[2] >>
      BY <2>1 DEF Mention
    <2> QED
      BY <1>3, <2>1, <2>2
  <1>7. IsFiniteSet(DOMAIN snap[j])
    BY <1>2, ScopeAssumption, FS_Subset
  <1>8. Cardinality(RunMentions(run)) = Cardinality(DOMAIN snap[j])
    <2> DEFINE S == DOMAIN snap[j]
               T == RunMentions(run)
    <2> HIDE DEF f, S, T, run
    <2>1. f \in Injection(S, T) /\ f \in Surjection(S, T)
      BY <1>4, <1>5, <1>6 DEF Injection, IsInjective, Surjection, S, T
    <2>2. IsFiniteSet(S)
      BY <1>7 DEF S
    <2>3. Cardinality(T) = Cardinality(S)
      BY <2>1, <2>2, FS_Surjection
    <2> QED
      BY <2>3 DEF S, T
  <1>9. Cardinality(RunMentions(run) \ ClusteredMentions(run)) = 0
    <2>1. RunMentions(run) \ ClusteredMentions(run) = {}
      BY <1>1
    <2> QED
      BY <2>1, FS_EmptySet
  <1> QED
    BY <1>1, <1>8, <1>9 DEF CountedMentions

\* Where a pass has counted its mentions.
CountsTaken == {"countClusters", "countAligned", "countByMethod", "countMentions",
                "saveUnresolved", "saveSummary"}
CountsTrue(j) ==
    /\ coverage[j].unclustered = 0
    /\ coverage[j].clustered = Cardinality(DOMAIN snap[j])

\* How a job gets or stays there.
LEMMA CountSteps ==
    ASSUME PassInv, [Next]_vars, NEW k \in Jobs,
           pc'[k] \in CountsTaken, task'[k].mode # "structured_anchor"
    PROVE  \/ /\ pc[k] \in CountsTaken /\ task'[k] = task[k] /\ snap'[k] = snap[k]
              /\ coverage'[k].unclustered = coverage[k].unclustered
              /\ coverage'[k].clustered = coverage[k].clustered
              /\ disturbed[k] => disturbed'[k]
           \/ CountMembers(k)
  <1>0. /\ pc \in [Jobs -> {"idle"} \cup PassSteps \cup DryRunSteps]
        /\ DOMAIN task = Jobs /\ DOMAIN snap = Jobs /\ coverage \in [Jobs -> Coverage]
        /\ disturbed \in [Jobs -> BOOLEAN]
    BY DEF PassInv, TypeOK, ControlTypeOK, RowsTypeOK, ReportTypeOK
  <1>1. CASE \E j \in Jobs \ {k} : StartPass(j) \/ StartDryRun(j) \/ JobStep(j) \/ Crash(j)
    BY <1>1, OthersStay DEF JobKept
  <1>2. CASE Environment \/ UNCHANGED vars
    BY <1>2, StagesStay DEF JobKept, CountsTaken
  <1>3. CASE StartPass(k) \/ StartDryRun(k)
    BY <1>0, <1>3 DEF StartPass, StartDryRun, Start, Goto, CountsTaken
  <1>4. CASE Forget(k)
    BY <1>0, <1>4 DEF Forget, Goto, CountsTaken
  <1>5. CASE ReadMentions(k) \/ ReadCanonicals(k) \/ PersistResolved(k) \/ PersistMemberships(k)
    BY <1>0, <1>5 DEF ReadMentions, ReadCanonicals, PersistResolved, PersistMemberships,
                      AfterResolved, Goto, CountsTaken
  <1>6. CASE PersistCandidates(k)
    <2>1. pc'[k] = AfterCandidates(k) /\ task' = task
      BY <1>0, <1>6 DEF PersistCandidates, Goto
    <2>2. task[k].mode \in {"unstructured_only", "hybrid"}
      BY <2>1 DEF PassInv, TypeOK, ControlTypeOK, Task, Modes
    <2>3. AfterCandidates(k) \notin CountsTaken
      BY <2>2 DEF AfterCandidates, CountsTaken
    <2> QED
      BY <2>1, <2>3
  <1>7. CASE PersistAlignments(k)
    BY <1>0, <1>7 DEF PersistAlignments, Goto, CountsTaken
  <1>8. CASE \/ CountClusters(k) \/ CountAligned(k)
             \/ CountByMethod(k) \/ CountMentionsInAligned(k)
    <2>1. pc[k] \in CountsTaken
      BY <1>8 DEF CountClusters, CountAligned, CountByMethod, CountMentionsInAligned, CountsTaken
    <2>2. task' = task /\ snap' = snap /\ disturbed' = disturbed
      BY <1>8 DEF CountClusters, CountAligned, CountByMethod, CountMentionsInAligned, Report
    <2>3. /\ coverage'[k].unclustered = coverage[k].unclustered
          /\ coverage'[k].clustered = coverage[k].clustered
      <3>1. coverage[k] \in Coverage
        BY <1>0
      <3>2. \A v : /\ [coverage[k] EXCEPT !.total = v].clustered = coverage[k].clustered
                   /\ [coverage[k] EXCEPT !.total = v].unclustered = coverage[k].unclustered
                   /\ [coverage[k] EXCEPT !.byMethod = v].clustered = coverage[k].clustered
                   /\ [coverage[k] EXCEPT !.byMethod = v].unclustered = coverage[k].unclustered
                   /\ [coverage[k] EXCEPT !.inAligned = v].clustered = coverage[k].clustered
                   /\ [coverage[k] EXCEPT !.inAligned = v].unclustered = coverage[k].unclustered
        BY <3>1 DEF Coverage
      <3>3. \A v, w :
              LET both == [coverage[k] EXCEPT !.aligned = v, !.entities = w]
              IN  /\ both.clustered = coverage[k].clustered
                  /\ both.unclustered = coverage[k].unclustered
        BY <3>1 DEF Coverage
      <3>4. CASE CountClusters(k)
        <4>1. coverage' = [coverage EXCEPT ![k] = [coverage[k] EXCEPT
                            !.total = Cardinality(RunClusters(task[k].run))]]
          BY <3>4 DEF CountClusters, Report
        <4> QED
          BY <1>0, <4>1, <3>2, <3>3
      <3>5. CASE CountAligned(k)
        <4>1. coverage' = [coverage EXCEPT ![k] = [coverage[k] EXCEPT
                            !.aligned = Cardinality(AlignedClusters(task[k].run)),
                            !.entities = Cardinality(AlignedCanonicals(task[k].run))]]
          BY <3>5 DEF CountAligned, Report
        <4> QED
          BY <1>0, <4>1, <3>2, <3>3
      <3>6. CASE CountByMethod(k)
        <4>1. coverage' = [coverage EXCEPT ![k] = [coverage[k] EXCEPT
                            !.byMethod = AlignmentBreakdown(task[k].run)]]
          BY <3>6 DEF CountByMethod, Report
        <4> QED
          BY <1>0, <4>1, <3>2, <3>3
      <3>7. CASE CountMentionsInAligned(k)
        <4>1. coverage' = [coverage EXCEPT ![k] = [coverage[k] EXCEPT
                            !.inAligned = Cardinality(MentionsInAligned(task[k].run))]]
          BY <3>7 DEF CountMentionsInAligned, Report
        <4> QED
          BY <1>0, <4>1, <3>2, <3>3
      <3> QED
        BY <1>8, <3>4, <3>5, <3>6, <3>7
    <2> QED
      BY <2>1, <2>2, <2>3
  <1>9. CASE SaveUnresolved(k)
    BY <1>9 DEF SaveUnresolved, CountsTaken, localVars
  <1>10. CASE SaveDrySummary(k)
    BY <1>0, <1>10 DEF SaveDrySummary, Goto, CountsTaken
  <1> QED
    BY <1>1, <1>2, <1>3, <1>4, <1>5, <1>6, <1>7, <1>8, <1>9, <1>10
       DEF Next, JobStep, Crash, SaveSummary, SaveDryUnresolved

\* The coverage a clustering pass reports is true of the mentions it read: all are
\* clustered, none is not, unless they changed under it.
THEOREM ReportedCoverage == Spec => []CoverageTrue
  <1>1. Init => CoverageTrue
    BY DEF Init, CoverageTrue
  <1>2. PassInv /\ CoverageTrue /\ [Next]_vars => CoverageTrue'
    <2> SUFFICES ASSUME PassInv, CoverageTrue, [Next]_vars, NEW k \in Jobs,
                        pc'[k] \in CountsTaken, task'[k].mode # "structured_anchor",
                        ~disturbed'[k]
                 PROVE  /\ coverage'[k].unclustered = 0
                        /\ coverage'[k].clustered = Cardinality(DOMAIN snap'[k])
      BY DEF CoverageTrue, CountsTaken
    <2>1. CASE /\ pc[k] \in CountsTaken /\ task'[k] = task[k] /\ snap'[k] = snap[k]
               /\ coverage'[k].unclustered = coverage[k].unclustered
               /\ coverage'[k].clustered = coverage[k].clustered
               /\ disturbed[k] => disturbed'[k]
      BY <2>1 DEF CoverageTrue, CountsTaken
    <2>2. CASE CountMembers(k)
      <3> DEFINE counts == CountedMentions(task[k].run)
      <3>1. Written(k) /\ ~disturbed[k] /\ task[k].mode # "structured_anchor" /\ snap' = snap
        BY <2>2 DEF CountMembers, Written, Report
      <3>2. counts.unclustered = 0 /\ counts.clustered = Cardinality(DOMAIN snap[k])
        BY <3>1, AllClustered
      <3>3. coverage' = [coverage EXCEPT ![k] = [coverage[k] EXCEPT
                            !.clustered = counts.clustered, !.unclustered = counts.unclustered]]
        BY <2>2 DEF CountMembers, Report
      <3>4. coverage \in [Jobs -> Coverage]
        BY DEF PassInv, TypeOK, ReportTypeOK
      <3> HIDE DEF counts
      <3> QED
        BY <3>1, <3>2, <3>3, <3>4 DEF Coverage
    <2> QED
      BY <2>1, <2>2, CountSteps
  <1> QED
    BY <1>1, <1>2, Invariance, PTL DEF Spec

-----------------------------------------------------------------------------
(* Readers with queries of their own.                                      *)

\* A part and the rest make up the whole.
LEMMA PartAndRest ==
    ASSUME NEW T, IsFiniteSet(T), NEW S, S \subseteq T
    PROVE  Cardinality(S) + Cardinality(T \ S) = Cardinality(T)
  <1>1. T \cap S = S /\ IsFiniteSet(S)
    BY FS_Subset
  <1>2. Cardinality(T \ S) = Cardinality(T) - Cardinality(S)
    BY <1>1, FS_Difference
  <1> QED
    BY <1>1, <1>2, FS_CardinalityType

\* Things are as many as the pairs of a thing and its run.
LEMMA CountedByRun ==
    ASSUME NEW S, IsFiniteSet(S), NEW run, DOMAIN run = S, NEW T,
           \A p \in T : \E x \in S : p = << run[x], x >>,
           \A x \in S : << run[x], x >> \in T
    PROVE  Cardinality(T) = Cardinality(S)
  <1> DEFINE f == [x \in S |-> << run[x], x >>]
  <1>1. f \in [S -> T] /\ \A a, b \in S : f[a] = f[b] => a = b
    OBVIOUS
  <1>2. \A p \in T : \E x \in S : f[x] = p
    OBVIOUS
  <1> HIDE DEF f
  <1>3. f \in Injection(S, T) /\ f \in Surjection(S, T)
    BY <1>1, <1>2 DEF Injection, IsInjective, Surjection
  <1> QED
    BY <1>3, FS_Surjection

\* What the types say of nodes and of the ends of edges.
LEMMA EdgeEnds ==
    ASSUME GraphTypeOK
    PROVE  /\ \A m \in DOMAIN mentions : m \in Mention /\ m[1] \in Runs
           /\ \A c \in clusters : c \in Cluster /\ c.run \in Runs
           /\ \A e \in DOMAIN memberOf :
                e = << e[1], e[2] >> /\ e[1] \in DOMAIN mentions /\ e[2] \in clusters
           /\ \A e \in DOMAIN alignedWith :
                /\ e = << e[1], e[2], e[3] >>
                /\ e[1] \in clusters /\ e[2] \in canonicals /\ e[3] \in Runs
  <1>1. \A m \in DOMAIN mentions : m \in Mention /\ m[1] \in Runs
    BY DEF GraphTypeOK, IsPartialMap, Mention
  <1>2. \A c \in clusters : c \in Cluster /\ c.run \in Runs
    BY DEF GraphTypeOK, Cluster
  <1>3. \A e \in DOMAIN memberOf :
          e = << e[1], e[2] >> /\ e[1] \in DOMAIN mentions /\ e[2] \in clusters
    BY DEF GraphTypeOK, IsPartialMap
  <1>4. \A e \in DOMAIN alignedWith :
          /\ e = << e[1], e[2], e[3] >>
          /\ e[1] \in clusters /\ e[2] \in canonicals /\ e[3] \in Runs
    BY DEF GraphTypeOK, IsPartialMap
  <1> QED
    BY <1>1, <1>2, <1>3, <1>4

\* The readers' sets of clustered mentions and aligned clusters are those a pass counts.
LEMMA SameSets ==
    ASSUME GraphTypeOK, RunScoped, NEW run \in Runs
    PROVE  /\ InScope({run}) = RunMentions(run) /\ ClustersIn({run}) = RunClusters(run)
           /\ ClusteredIn({run}) = ClusteredMentions(run)
           /\ AlignedIn({run}) = AlignedClusters(run)
  <1>1. InScope({run}) = RunMentions(run) /\ ClustersIn({run}) = RunClusters(run)
    BY DEF InScope, ClustersIn, RunMentions, RunClusters
  <1>2. ASSUME NEW m \in RunMentions(run)
        PROVE  (\E e \in DOMAIN memberOf : e[1] = m)
                 <=> \E c \in RunClusters(run) : << m, c >> \in DOMAIN memberOf
    <2>1. ASSUME NEW e \in DOMAIN memberOf, e[1] = m
          PROVE  e[2] \in RunClusters(run) /\ << m, e[2] >> \in DOMAIN memberOf
      BY <2>1, EdgeEnds DEF RunScoped, RunMentions, RunClusters
    <2>2. ASSUME NEW c, << m, c >> \in DOMAIN memberOf
          PROVE  \E e \in DOMAIN memberOf : e[1] = m
      <3>1. << m, c >>[1] = m
        OBVIOUS
      <3> QED
        BY <2>2, <3>1
    <2> QED
      BY <2>1, <2>2
  <1>3. ClusteredIn({run}) = ClusteredMentions(run)
    BY <1>1, <1>2 DEF ClusteredIn, ClusteredMentions
  <1>4. ASSUME NEW c \in AlignedIn({run}) PROVE c \in AlignedClusters(run)
    <2>1. PICK e \in DOMAIN alignedWith : e[1] = c /\ e[3] = run
      BY DEF AlignedIn
    <2>2. e \in RunAlignments(run)
      BY <2>1 DEF RunScoped, RunAlignments
    <2> QED
      BY <2>1, <2>2 DEF AlignedClusters
  <1>5. ASSUME NEW c \in AlignedClusters(run) PROVE c \in AlignedIn({run})
    <2>1. PICK e \in RunAlignments(run) : e[1] = c
      BY DEF AlignedClusters
    <2> QED
      BY <2>1, EdgeEnds DEF RunAlignments, AlignedIn, ClustersIn
  <1> QED
    BY <1>1, <1>3, <1>4, <1>5

\* Paths through the clusters of a run lead to its aligned entities, and come from its
\* mentions in aligned clusters: no edge leaves the run, no aligned cluster is empty.
LEMMA PathEnds ==
    ASSUME GraphTypeOK, RunScoped, NoReset, ClustersPopulated, NEW run \in Runs
    PROVE  /\ { p[2][2] : p \in Paths({run}) } = AlignedCanonicals(run)
           /\ { p[2][1] : p \in Paths({run}) } = AlignedClusters(run)
           /\ { p[1][1] : p \in Paths({run}) } = MentionsInAligned(run)
           /\ { p \in Paths(Runs) : /\ p[1][1] \in InScope({run})
                                   /\ p[2][3] = p[1][1][1] } = Paths({run})
  <1>1. ASSUME NEW p \in Paths({run})
        PROVE  /\ p \in (DOMAIN memberOf) \X (DOMAIN alignedWith)
               /\ p = << p[1], p[2] >> /\ p[1] \in DOMAIN memberOf /\ p[2] \in DOMAIN alignedWith
               /\ p[1][2] = p[2][1]
               /\ p[1][1] \in RunMentions(run) /\ p[2] \in RunAlignments(run)
               /\ p[1][1][1] = run /\ p[1][2].run = run /\ p[2][3] = run
    <2>1. /\ p \in (DOMAIN memberOf) \X (DOMAIN alignedWith)
          /\ p[1][2] = p[2][1]
          /\ p[1][1][1] = run /\ p[1][2].run = run /\ p[2][3] = run
      BY DEF Paths
    <2>2. p = << p[1], p[2] >> /\ p[1] \in DOMAIN memberOf /\ p[2] \in DOMAIN alignedWith
      BY <2>1
    <2> QED
      BY <2>1, <2>2, EdgeEnds DEF RunMentions, RunAlignments
  <1>2. ASSUME NEW e \in DOMAIN memberOf, NEW a \in RunAlignments(run), e[2] = a[1]
        PROVE  << e, a >> \in Paths({run})
    <2>1. a \in DOMAIN alignedWith /\ a[1].run = run /\ a[3] = run
      BY DEF RunAlignments
    <2>2. e[1][1] = run
      BY <1>2, <2>1 DEF RunScoped
    <2>3. << e, a >>[1] = e /\ << e, a >>[2] = a
      OBVIOUS
    <2> QED
      BY <1>2, <2>1, <2>2, <2>3 DEF Paths
  <1>3. ASSUME NEW a \in RunAlignments(run)
        PROVE  \E p \in Paths({run}) : p[2] = a
    <2>1. a[1] \in clusters
      BY EdgeEnds DEF RunAlignments
    <2>2. PICK e \in DOMAIN memberOf : e[2] = a[1]
      BY <2>1 DEF ClustersPopulated
    <2>3. << e, a >> \in Paths({run}) /\ << e, a >>[2] = a
      BY <1>2, <2>2
    <2> QED
      BY <2>3
  <1>4. { p[2][2] : p \in Paths({run}) } = AlignedCanonicals(run)
    BY <1>1, <1>3 DEF AlignedCanonicals
  <1>10. { p[2][1] : p \in Paths({run}) } = AlignedClusters(run)
    BY <1>1, <1>3 DEF AlignedClusters
  <1>5. ASSUME NEW m \in MentionsInAligned(run)
        PROVE  \E p \in Paths({run}) : p[1][1] = m
    <2>1. PICK c \in AlignedClusters(run) : << m, c >> \in DOMAIN memberOf
      BY DEF MentionsInAligned
    <2>2. PICK a \in RunAlignments(run) : a[1] = c
      BY DEF AlignedClusters
    <2>3. << << m, c >>, a >> \in Paths({run})
      BY <1>2, <2>1, <2>2
    <2>4. << << m, c >>, a >>[1][1] = m
      OBVIOUS
    <2> QED
      BY <2>3, <2>4
  <1>6. ASSUME NEW p \in Paths({run})
        PROVE  p[1][1] \in MentionsInAligned(run)
    <2>1. p[2][1] \in AlignedClusters(run)
      BY <1>1 DEF AlignedClusters
    <2>2. << p[1][1], p[2][1] >> \in DOMAIN memberOf
      BY <1>1, EdgeEnds
    <2> QED
      BY <1>1, <2>1, <2>2 DEF MentionsInAligned
  <1>7. { p[1][1] : p \in Paths({run}) } = MentionsInAligned(run)
    BY <1>5, <1>6
  <1>8. ASSUME NEW p \in Paths({run})
        PROVE  p \in Paths(Runs) /\ p[1][1] \in InScope({run}) /\ p[2][3] = p[1][1][1]
    BY <1>1 DEF Paths, InScope, RunMentions
  <1>9. ASSUME NEW p \in Paths(Runs), p[1][1] \in InScope({run}), p[2][3] = p[1][1][1]
        PROVE  p \in Paths({run})
    <2>1. p \in (DOMAIN memberOf) \X (DOMAIN alignedWith) /\ p[1][2] = p[2][1]
      BY DEF Paths
    <2>2. p[1] \in DOMAIN memberOf /\ p[1][1][1] = run /\ p[2][3] = run
      BY <1>9, <2>1 DEF InScope
    <2>3. p[1][2].run = run
      BY <2>2 DEF RunScoped
    <2> QED
      BY <2>1, <2>2, <2>3 DEF Paths
  <1> QED
    BY <1>4, <1>10, <1>7, <1>8, <1>9

\* The chain query has each node's mentions, and a row of the per-canonical query is what
\* the nodes called alike have together.
LEMMA RowsLeading ==
    ASSUME NEW run
    PROVE  LET paths == Paths({run})
               rows == PerCanonical({run})
               chain == ChainHealth({run})
           IN  /\ DOMAIN chain = { p[2][2] : p \in paths }
               /\ DOMAIN rows = { Shown[k] : k \in { p[2][2] : p \in paths } }
               /\ \A e \in DOMAIN rows : rows[e].mentions =
                    UNION { chain[k] : k \in { k \in DOMAIN chain : Shown[k] = e } }
               /\ UNION { rows[e].clusters : e \in DOMAIN rows } = { p[2][1] : p \in paths }
               /\ UNION { rows[e].mentions : e \in DOMAIN rows } = { p[1][1] : p \in paths }
  <1> DEFINE paths == Paths({run})
             rows == PerCanonical({run})
             chain == ChainHealth({run})
             K == { p[2][2] : p \in paths }
             here(e) == { p \in paths : Shown[p[2][2]] = e }
  <1>1. DOMAIN chain = K
        /\ \A k \in K : chain[k] = { p[1][1] : p \in { p \in paths : p[2][2] = k } }
    BY DEF ChainHealth
  <1>2. /\ DOMAIN rows = { Shown[p[2][2]] : p \in paths }
        /\ \A e \in DOMAIN rows : /\ rows[e].clusters = { p[2][1] : p \in here(e) }
                                  /\ rows[e].mentions = { p[1][1] : p \in here(e) }
    BY DEF PerCanonical
  <1> HIDE DEF rows, chain, paths
  <1>3. DOMAIN rows = { Shown[k] : k \in K }
    BY <1>2
  <1>4. ASSUME NEW p \in paths
        PROVE  /\ p[2][2] \in K /\ Shown[p[2][2]] \in DOMAIN rows
               /\ p[1][1] \in chain[p[2][2]]
               /\ p[2][1] \in rows[Shown[p[2][2]]].clusters
               /\ p[1][1] \in rows[Shown[p[2][2]]].mentions
    BY <1>1, <1>2
  <1>5. ASSUME NEW e \in DOMAIN rows
        PROVE  /\ \A m \in rows[e].mentions :
                    \E p \in paths : Shown[p[2][2]] = e /\ m = p[1][1]
               /\ \A c \in rows[e].clusters :
                    \E p \in paths : Shown[p[2][2]] = e /\ c = p[2][1]
    BY <1>2
  <1>6. ASSUME NEW k \in K, NEW m \in chain[k]
        PROVE  \E p \in paths : p[2][2] = k /\ m = p[1][1]
    BY <1>1
  <1> HIDE DEF K, here
  <1>7. ASSUME NEW e \in DOMAIN rows
        PROVE  rows[e].mentions =
                 UNION { chain[k] : k \in { k \in DOMAIN chain : Shown[k] = e } }
    <2>1. ASSUME NEW m \in rows[e].mentions
          PROVE  \E k \in DOMAIN chain : Shown[k] = e /\ m \in chain[k]
      <3>1. PICK p \in paths : Shown[p[2][2]] = e /\ m = p[1][1]
        BY <1>5
      <3> QED
        BY <3>1, <1>1, <1>4
    <2>2. ASSUME NEW k \in DOMAIN chain, Shown[k] = e, NEW m \in chain[k]
          PROVE  m \in rows[e].mentions
      <3>1. PICK p \in paths : p[2][2] = k /\ m = p[1][1]
        BY <1>1, <1>6
      <3> QED
        BY <3>1, <2>2, <1>4
    <2> QED
      BY <2>1, <2>2
  <1>8. UNION { rows[e].clusters : e \in DOMAIN rows } = { p[2][1] : p \in paths }
    <2>1. ASSUME NEW e \in DOMAIN rows, NEW c \in rows[e].clusters
          PROVE  c \in { p[2][1] : p \in paths }
      BY <1>5
    <2>2. ASSUME NEW p \in paths
          PROVE  p[2][1] \in UNION { rows[e].clusters : e \in DOMAIN rows }
      BY <1>4
    <2> QED
      BY <2>1, <2>2
  <1>9. UNION { rows[e].mentions : e \in DOMAIN rows } = { p[1][1] : p \in paths }
    <2>1. ASSUME NEW e \in DOMAIN rows, NEW m \in rows[e].mentions
          PROVE  m \in { p[1][1] : p \in paths }
      BY <1>5
    <2>2. ASSUME NEW p \in paths
          PROVE  p[1][1] \in UNION { rows[e].mentions : e \in DOMAIN rows }
      BY <1>4
    <2> QED
      BY <2>1, <2>2
  <1> QED
    BY <1>1, <1>3, <1>7, <1>8, <1>9 DEF rows, chain, K, paths

\* A report with room for all rows returns them all.
LEMMA AllListed ==
    ASSUME NEW rows, NEW S, IsFiniteSet(S), DOMAIN rows = { Shown[k] : k \in S },
           NEW top \in Listed(rows)
    PROVE  top \subseteq DOMAIN rows /\ (top = DOMAIN rows \/ Cardinality(S) > RowLimit)
  <1> DEFINE T == { Shown[k] : k \in S }
             f == [k \in S |-> Shown[k]]
  <1>1. f \in Surjection(S, T)
    BY DEF Surjection
  <1> HIDE DEF f, T
  <1>2. IsFiniteSet(T) /\ Cardinality(T) <= Cardinality(S)
    BY <1>1, FS_Surjection
  <1>3. Cardinality(T) \in Nat /\ Cardinality(S) \in Nat /\ RowLimit \in Nat
    BY <1>2, FS_CardinalityType, RowLimitAssumption
  <1>4. DOMAIN rows = T
    BY DEF T
  <1>5. CASE Cardinality(T) <= RowLimit
    BY <1>4, <1>5 DEF Listed
  <1>6. CASE ~(Cardinality(T) <= RowLimit)
    <2>1. top \subseteq DOMAIN rows
      BY <1>4, <1>6 DEF Listed
    <2>2. Cardinality(S) > RowLimit
      BY <1>2, <1>3, <1>6
    <2> QED
      BY <2>1, <2>2
  <1> QED
    BY <1>5, <1>6

\* What the report tells of a run's mentions and entities.
LEMMA RowsAgree ==
    ASSUME GraphTypeOK, RunScoped, NoReset, ClustersPopulated, NEW run \in Runs
    PROVE  LET rows == PerCanonical({run})
               chain == ChainHealth({run})
           IN  /\ DOMAIN chain = AlignedCanonicals(run)
               /\ DOMAIN rows = { Shown[k] : k \in AlignedCanonicals(run) }
               /\ \A e \in DOMAIN rows : rows[e].mentions =
                    UNION { chain[k] : k \in { k \in DOMAIN chain : Shown[k] = e } }
               /\ UNION { rows[e].clusters : e \in DOMAIN rows } = AlignedClusters(run)
               /\ \A top \in Listed(rows) :
                    LET told == UNION { rows[e].mentions : e \in top }
                    IN  /\ told \subseteq MentionsInAligned(run)
                        /\ told = MentionsInAligned(run)
                           \/ Cardinality(AlignedCanonicals(run)) > RowLimit
  <1> DEFINE rows == PerCanonical({run})
             chain == ChainHealth({run})
  <1>1. /\ DOMAIN chain = AlignedCanonicals(run)
        /\ DOMAIN rows = { Shown[k] : k \in AlignedCanonicals(run) }
        /\ \A e \in DOMAIN rows : rows[e].mentions =
             UNION { chain[k] : k \in { k \in DOMAIN chain : Shown[k] = e } }
        /\ UNION { rows[e].clusters : e \in DOMAIN rows } = AlignedClusters(run)
        /\ UNION { rows[e].mentions : e \in DOMAIN rows } = MentionsInAligned(run)
    BY PathEnds, RowsLeading
  <1>2. IsFiniteSet(AlignedCanonicals(run))
    <2>1. AlignedCanonicals(run) \in SUBSET Canonicals
      BY EdgeEnds DEF AlignedCanonicals, RunAlignments, GraphTypeOK
    <2> QED
      BY <2>1, ScopeAssumption, FS_Subset
  <1> HIDE DEF rows, chain
  <1>3. ASSUME NEW top \in Listed(rows)
        PROVE  LET told == UNION { rows[e].mentions : e \in top }
               IN  /\ told \subseteq MentionsInAligned(run)
                   /\ told = MentionsInAligned(run)
                      \/ Cardinality(AlignedCanonicals(run)) > RowLimit
    <2>1. /\ top \subseteq DOMAIN rows
          /\ top = DOMAIN rows \/ Cardinality(AlignedCanonicals(run)) > RowLimit
      BY <1>1, <1>2, AllListed
    <2>2. UNION { rows[e].mentions : e \in top } \subseteq MentionsInAligned(run)
      BY <1>1, <2>1
    <2> QED
      BY <1>1, <2>1, <2>2
  <1> QED
    BY <1>1, <1>3 DEF rows, chain

\* Readers with queries of their own agree in every state of the graph until a reset: the
\* coverage of a pass, the graph health report, the counts of the backend and retrieval.
THEOREM ReadersConsistent == Spec => []ReadersAgree
  <1>1. ReadInv => ReadersAgree
    <2> SUFFICES ASSUME ReadInv, NoReset PROVE ReadersAgree
      BY DEF ReadersAgree
    <2>1. GraphTypeOK /\ RunScoped /\ ClustersPopulated
      BY DEF ReadInv, PassInv, TypeOK
    <2>2. ASSUME NEW run \in Runs
          PROVE  LET mention == MentionHealth({run})
                     cluster == AlignmentHealth({run})
                     rows == PerCanonical({run})
                     chain == ChainHealth({run})
                 IN  /\ mention = CountedMentions(run)
                     /\ mention.clustered + mention.unclustered = RunCounts(run).mentions
                     /\ cluster.aligned = Cardinality(AlignedClusters(run))
                     /\ cluster.aligned + cluster.unaligned = RunCounts(run).clusters
                     /\ DOMAIN chain = AlignedCanonicals(run)
                     /\ DOMAIN rows = { Shown[k] : k \in AlignedCanonicals(run) }
                     /\ \A e \in DOMAIN rows : rows[e].mentions =
                          UNION { chain[k] : k \in { k \in DOMAIN chain : Shown[k] = e } }
                     /\ UNION { rows[e].clusters : e \in DOMAIN rows } = AlignedClusters(run)
                     /\ \A top \in Listed(rows) :
                         LET told == UNION { rows[e].mentions : e \in top }
                         IN  /\ told \subseteq MentionsInAligned(run)
                             /\ told = MentionsInAligned(run)
                                \/ Cardinality(AlignedCanonicals(run)) > RowLimit
                     /\ AlignedNames(InScope({run}))
                          = { Shown[k].name : k \in AlignedCanonicals(run) }
      <3>1. /\ InScope({run}) = RunMentions(run) /\ ClustersIn({run}) = RunClusters(run)
            /\ ClusteredIn({run}) = ClusteredMentions(run)
            /\ AlignedIn({run}) = AlignedClusters(run)
        BY <2>1, SameSets
      <3>2. IsFiniteSet(InScope({run})) /\ ClusteredIn({run}) \subseteq InScope({run})
        <4>1. InScope({run}) \in SUBSET Mention
          BY <2>1, EdgeEnds DEF InScope
        <4> QED
          BY <4>1, NodesFinite, FS_Subset DEF ClusteredIn
      <3>3. IsFiniteSet(ClustersIn({run})) /\ AlignedIn({run}) \subseteq ClustersIn({run})
        <4>1. ClustersIn({run}) \in SUBSET Cluster
          BY <2>1, EdgeEnds DEF ClustersIn
        <4> QED
          BY <4>1, NodesFinite, FS_Subset DEF AlignedIn
      <3>4. MentionHealth({run}) = CountedMentions(run)
        BY <3>1 DEF MentionHealth, CountedMentions
      <3>5. Cardinality(ClusteredIn({run})) + Cardinality(InScope({run}) \ ClusteredIn({run}))
              = Cardinality(InScope({run}))
        BY <3>2, PartAndRest
      <3>6. Cardinality(AlignedIn({run})) + Cardinality(ClustersIn({run}) \ AlignedIn({run}))
              = Cardinality(ClustersIn({run}))
        BY <3>3, PartAndRest
      <3>7. AlignedNames(InScope({run})) = { Shown[k].name : k \in AlignedCanonicals(run) }
        <4>1. AlignedNames(InScope({run})) = { Shown[p[2][2]].name : p \in Paths({run}) }
          BY <2>1, PathEnds DEF AlignedNames
        <4>2. { p[2][2] : p \in Paths({run}) } = AlignedCanonicals(run)
          BY <2>1, PathEnds
        <4> QED
          BY <4>1, <4>2
      <3>8. /\ MentionHealth({run}).clustered + MentionHealth({run}).unclustered
                 = RunCounts(run).mentions
            /\ AlignmentHealth({run}).aligned = Cardinality(AlignedClusters(run))
            /\ AlignmentHealth({run}).aligned + AlignmentHealth({run}).unaligned
                 = RunCounts(run).clusters
        BY <3>1, <3>5, <3>6 DEF MentionHealth, AlignmentHealth, RunCounts
      <3> QED
        BY <2>1, <3>4, <3>7, <3>8, RowsAgree
    <2>3. MentionHealth(Runs).clustered
            = Cardinality(UNION { {run} \X ClusteredIn({run}) : run \in Runs })
      <3> DEFINE S   == ClusteredIn(Runs)
                 T   == UNION { {run} \X ClusteredIn({run}) : run \in Runs }
                 own == [m \in S |-> m[1]]
      <3>1. IsFiniteSet(S)
        <4>1. S \in SUBSET Mention
          BY <2>1, EdgeEnds DEF ClusteredIn, InScope
        <4> HIDE DEF S
        <4> QED
          BY <4>1, NodesFinite, FS_Subset
      <3>2. ASSUME NEW p \in T PROVE \E x \in S : p = << own[x], x >>
        <4>1. PICK run \in Runs : p \in {run} \X ClusteredIn({run})
          OBVIOUS
        <4>2. p = << run, p[2] >> /\ p[2] \in ClusteredIn({run})
          BY <4>1
        <4>3. p[2] \in S /\ p[2][1] = run
          BY <4>2 DEF ClusteredIn, InScope
        <4> QED
          BY <4>2, <4>3
      <3>3. ASSUME NEW x \in S PROVE << own[x], x >> \in T
        <4>0. own[x] = x[1]
          OBVIOUS
        <4>1. x[1] \in Runs /\ x \in ClusteredIn({x[1]})
          BY DEF ClusteredIn, InScope
        <4>2. << x[1], x >> \in {x[1]} \X ClusteredIn({x[1]})
          BY <4>1
        <4> HIDE DEF own, S
        <4> QED
          BY <4>0, <4>1, <4>2
      <3>4. DOMAIN own = S
        OBVIOUS
      <3> HIDE DEF S, T, own
      <3>5. Cardinality(T) = Cardinality(S)
        BY <3>1, <3>2, <3>3, <3>4, CountedByRun
      <3> QED
        BY <3>5 DEF S, T, MentionHealth
    <2>4. AlignmentHealth(Runs).aligned
            = Cardinality(UNION { {run} \X AlignedIn({run}) : run \in Runs })
      <3> DEFINE S   == AlignedIn(Runs)
                 T   == UNION { {run} \X AlignedIn({run}) : run \in Runs }
                 own == [c \in S |-> c.run]
      <3>1. IsFiniteSet(S)
        <4>1. S \in SUBSET Cluster
          BY <2>1, EdgeEnds DEF AlignedIn, ClustersIn
        <4> HIDE DEF S
        <4> QED
          BY <4>1, NodesFinite, FS_Subset
      <3>2. ASSUME NEW p \in T PROVE \E x \in S : p = << own[x], x >>
        <4>1. PICK run \in Runs : p \in {run} \X AlignedIn({run})
          OBVIOUS
        <4>2. p = << run, p[2] >> /\ p[2] \in AlignedIn({run})
          BY <4>1
        <4>3. p[2] \in S /\ p[2].run = run
          BY <4>2 DEF AlignedIn, ClustersIn
        <4> QED
          BY <4>2, <4>3
      <3>3. ASSUME NEW x \in S PROVE << own[x], x >> \in T
        <4>0. own[x] = x.run
          OBVIOUS
        <4>1. x.run \in Runs /\ x \in AlignedIn({x.run})
          BY <2>1 DEF AlignedIn, ClustersIn, RunScoped
        <4>2. << x.run, x >> \in {x.run} \X AlignedIn({x.run})
          BY <4>1
        <4> HIDE DEF own, S
        <4> QED
          BY <4>0, <4>1, <4>2
      <3>4. DOMAIN own = S
        OBVIOUS
      <3> HIDE DEF S, T, own
      <3>5. Cardinality(T) = Cardinality(S)
        BY <3>1, <3>2, <3>3, <3>4, CountedByRun
      <3> QED
        BY <3>5 DEF S, T, AlignmentHealth
    <2> QED
      BY <2>2, <2>3, <2>4 DEF ReadersAgree
  <1> QED
    BY <1>1, ReadAlways, PTL

-----------------------------------------------------------------------------
(* The abstract view: resolution is additive, run by run.                  *)

\* A step that adds to the part of one run, and only to that, is a write of a pass.
LEMMA AddsToOneRun ==
    ASSUME GraphTypeOK', RunScoped', NEW R \in Runs, UNCHANGED << mentions, canonicals >>,
           clusters \subseteq clusters',
           \A c \in clusters' \ clusters : c.run = R,
           DOMAIN memberOf \subseteq DOMAIN memberOf',
           \A e \in (DOMAIN memberOf') \ DOMAIN memberOf : e[1][1] = R,
           DOMAIN candidateMatch \subseteq DOMAIN candidateMatch',
           \A e \in (DOMAIN candidateMatch') \ DOMAIN candidateMatch : e[1][1] = R,
           DOMAIN resolvesTo \subseteq DOMAIN resolvesTo',
           \A e \in (DOMAIN resolvesTo') \ DOMAIN resolvesTo : e[1][1] = R,
           DOMAIN alignedWith \subseteq DOMAIN alignedWith',
           \A e \in (DOMAIN alignedWith') \ DOMAIN alignedWith : e[3] = R
    PROVE  Stores!Resolve(R)
  <1>1. ASSUME NEW r \in Runs \ {R}
        PROVE  RunStore(r)' = RunStore(r)
    <2>1. RunMentions(r)' = RunMentions(r) /\ RunClusters(r)' = RunClusters(r)
      BY DEF RunMentions, RunClusters
    <2>2. { e \in DOMAIN memberOf' : e[1][1] = r } = { e \in DOMAIN memberOf : e[1][1] = r }
      OBVIOUS
    <2>3. { e \in DOMAIN candidateMatch' : e[1][1] = r }
            = { e \in DOMAIN candidateMatch : e[1][1] = r }
      OBVIOUS
    <2>4. { e \in DOMAIN resolvesTo' : e[1][1] = r } = { e \in DOMAIN resolvesTo : e[1][1] = r }
      OBVIOUS
    <2>5. { e \in DOMAIN alignedWith' : e[3] = r } = { e \in DOMAIN alignedWith : e[3] = r }
      OBVIOUS
    <2> QED
      BY <2>1, <2>2, <2>3, <2>4, <2>5 DEF RunStore
  <1>2. Stores!OthersKept(R)
    BY <1>1 DEF Stores!OthersKept
  <1> DEFINE old == RunStore(R)
             new == RunStore(R)'
  <1>3. /\ new.mentions = old.mentions /\ old.clusters \subseteq new.clusters
        /\ old.members \subseteq new.members /\ old.reviews \subseteq new.reviews
        /\ old.resolutions \subseteq new.resolutions /\ old.alignments \subseteq new.alignments
    BY DEF RunStore, RunMentions, RunClusters
  <1>4. Stores!Connected(new, canonicals)
    <2>1. ASSUME NEW e \in DOMAIN memberOf' \cup DOMAIN candidateMatch', e[1][1] = R
          PROVE  e \in new.mentions \X new.clusters
      <3>1. e = << e[1], e[2] >> /\ e[1] \in DOMAIN mentions' /\ e[2] \in clusters'
        BY DEF GraphTypeOK, IsPartialMap
      <3>2. e[2].run = R
        BY <2>1 DEF RunScoped
      <3> QED
        BY <2>1, <3>1, <3>2 DEF RunStore, RunMentions, RunClusters
    <2>2. ASSUME NEW e \in DOMAIN resolvesTo', e[1][1] = R
          PROVE  e \in new.mentions \X canonicals
      <3>1. e = << e[1], e[2] >> /\ e[1] \in DOMAIN mentions' /\ e[2] \in canonicals
        BY DEF GraphTypeOK, IsPartialMap
      <3> QED
        BY <2>2, <3>1 DEF RunStore, RunMentions
    <2>3. ASSUME NEW e \in DOMAIN alignedWith', e[3] = R
          PROVE  << e[1], e[2] >> \in new.clusters \X canonicals
      <3>1. e[1] \in clusters' /\ e[2] \in canonicals
        BY DEF GraphTypeOK, IsPartialMap
      <3>2. e[1].run = R
        BY <2>3 DEF RunScoped
      <3> QED
        BY <3>1, <3>2 DEF RunStore, RunClusters
    <2>4. /\ new.members = { e \in DOMAIN memberOf' : e[1][1] = R }
          /\ new.reviews = { e \in DOMAIN candidateMatch' : e[1][1] = R }
          /\ new.resolutions = { e \in DOMAIN resolvesTo' : e[1][1] = R }
          /\ new.alignments = { << e[1], e[2] >> :
                                  e \in { e \in DOMAIN alignedWith' : e[3] = R } }
      BY DEF RunStore
    <2> HIDE DEF new
    <2> QED
      BY <2>1, <2>2, <2>3, <2>4 DEF Stores!Connected
  <1> QED
    BY <1>2, <1>3, <1>4 DEF Stores!Resolve

\* Each write of a pass adds to its run.
LEMMA PersistResolves ==
    ASSUME ReadInv, ReadInv', NEW j \in Jobs,
           \/ PersistResolved(j) \/ PersistMemberships(j)
           \/ PersistCandidates(j) \/ PersistAlignments(j)
    PROVE  task[j].run \in Runs /\ Stores!Resolve(task[j].run)
  <1>1. PassInv /\ GraphTypeOK' /\ RunScoped'
    BY DEF ReadInv, PassInv, TypeOK
  <1>2. CASE PersistResolved(j)
    BY <1>1, <1>2, ResolutionsAdded, AddsToOneRun
  <1>3. CASE PersistMemberships(j)
    <2>1. /\ task[j].run \in Runs
          /\ IsPartialMap(unresolvedRows[j], MentionIds, ClusterRow)
          /\ UNCHANGED << mentions, canonicals, candidateMatch, resolvesTo, alignedWith >>
          /\ clusters' = clusters \cup { RowCluster(task[j].run, unresolvedRows[j][i]) :
                                           i \in DOMAIN unresolvedRows[j] }
          /\ DOMAIN memberOf \subseteq DOMAIN memberOf'
      BY <1>1, <1>3, MembersAdded
    <2>2. \A c \in clusters' \ clusters : c.run = task[j].run
      BY <2>1, RowClusterType DEF IsPartialMap
    <2>3. \A e \in (DOMAIN memberOf') \ DOMAIN memberOf : e[1][1] = task[j].run
      <3>1. \A e \in (DOMAIN memberOf') \ DOMAIN memberOf :
              \E i \in DOMAIN unresolvedRows[j] : e = RowEdge(j, i)
        BY <1>1, <1>3, MembersAdded
      <3>2. \A i : RowEdge(j, i)[1][1] = task[j].run
        BY DEF RowEdge
      <3> QED
        BY <3>1, <3>2
    <2> QED
      BY <1>1, <2>1, <2>2, <2>3, AddsToOneRun
  <1>4. CASE PersistCandidates(j)
    <2>1. /\ task[j].run \in Runs
          /\ UNCHANGED << mentions, canonicals, clusters, memberOf, resolvesTo, alignedWith >>
          /\ DOMAIN candidateMatch \subseteq DOMAIN candidateMatch'
          /\ \A e \in (DOMAIN candidateMatch') \ DOMAIN candidateMatch :
               \E i \in DOMAIN unresolvedRows[j] : e = RowEdge(j, i)
      BY <1>1, <1>4, CandidatesAdded
    <2>2. \A i : RowEdge(j, i)[1][1] = task[j].run
      BY DEF RowEdge
    <2>3. \A e \in (DOMAIN candidateMatch') \ DOMAIN candidateMatch : e[1][1] = task[j].run
      BY <2>1, <2>2
    <2> QED
      BY <1>1, <2>1, <2>3, AddsToOneRun
  <1>5. CASE PersistAlignments(j)
    BY <1>1, <1>5, AlignmentsAdded, AddsToOneRun
  <1> QED
    BY <1>2, <1>3, <1>4, <1>5

\* Claim extraction adds mentions to its run.
LEMMA ExtractExtracts ==
    ASSUME ReadInv, NEW run \in Runs, NEW rows \in Snapshots, Extract(run, rows)
    PROVE  Stores!Extract(run)
  <1>1. /\ UNCHANGED << clusters, canonicals, memberOf, candidateMatch, resolvesTo, alignedWith >>
        /\ UpsertMentions(run, rows)
    BY DEF Extract, UpsertMentions, edgeVars
  <1>2. IsPartialMap(rows, MentionIds, Props)
    BY DEF Snapshots, IsPartialMap
  <1>3. /\ DOMAIN mentions \subseteq DOMAIN mentions'
        /\ \A m \in (DOMAIN mentions') \ DOMAIN mentions : m[1] = run
    BY <1>1, <1>2, UpsertMentionsAdds DEF ReadInv, PassInv, TypeOK
  <1>4. \A r \in Runs \ {run} : RunMentions(r)' = RunMentions(r)
    BY <1>3 DEF RunMentions
  <1>5. RunMentions(run) \subseteq RunMentions(run)'
    BY <1>3 DEF RunMentions
  <1>6. \A r \in Runs : RunStore(r)' = [RunStore(r) EXCEPT !.mentions = RunMentions(r)']
    <2> SUFFICES ASSUME NEW r \in Runs
                 PROVE  RunStore(r)' = [RunStore(r) EXCEPT !.mentions = RunMentions(r)']
      OBVIOUS
    <2> DEFINE members == { e \in DOMAIN memberOf : e[1][1] = r }
               reviews == { e \in DOMAIN candidateMatch : e[1][1] = r }
               resolutions == { e \in DOMAIN resolvesTo : e[1][1] = r }
               alignments == { << e[1], e[2] >> : e \in { e \in DOMAIN alignedWith : e[3] = r } }
               parts(found) == [mentions |-> found, clusters |-> RunClusters(r),
                                members |-> members, reviews |-> reviews,
                                resolutions |-> resolutions, alignments |-> alignments]
    <2>1. RunClusters(r)' = RunClusters(r)
      BY <1>1 DEF RunClusters
    <2>2. RunStore(r) = parts(RunMentions(r))
      BY DEF RunStore
    <2>3. RunStore(r)' = parts(RunMentions(r)')
      BY <1>1, <2>1 DEF RunStore
    <2> HIDE DEF members, reviews, resolutions, alignments
    <2> QED
      BY <2>2, <2>3
  <1>7. \A r \in Runs : /\ RunStore(r).mentions = RunMentions(r)
                        /\ RunStore(r)'.mentions = RunMentions(r)'
    BY DEF RunStore
  <1>8. \A r \in Runs \ {run} : RunStore(r)' = RunStore(r)
    BY <1>4, <1>6 DEF RunStore
  <1> QED
    BY <1>1, <1>5, <1>6, <1>7, <1>8 DEF Stores!Extract, Stores!OthersKept

\* The detailed graph implements the stores: every step adds to one run, adds to the
\* catalog, empties everything or changes nothing of them.
THEOREM ResolutionIsAdditive == Spec => AdditiveByRun
  <1> DEFINE view == [run \in Runs |-> RunStore(run)]
  <1>1. Init => Stores!Init
    <2> SUFFICES ASSUME Init PROVE Stores!Init
      OBVIOUS
    <2>1. DOMAIN NoRows = {}
      BY DEF NoRows
    <2>2. ASSUME NEW r \in Runs PROVE RunStore(r) = Stores!EmptyStore
      BY <2>1 DEF Init, GraphInit, RunStore, RunMentions, RunClusters, Stores!EmptyStore
    <2>3. canonicals = {}
      BY DEF Init, GraphInit
    <2> QED
      BY <2>2, <2>3 DEF Stores!Init
  <1>2. ReadInv /\ ReadInv' /\ [Next]_vars => [Stores!Next]_<< view, canonicals >>
    <2> SUFFICES ASSUME ReadInv, ReadInv', [Next]_vars
                 PROVE  Stores!Next \/ UNCHANGED << view, canonicals >>
      OBVIOUS
    <2>1. CASE UNCHANGED graphVars
      <3>1. \A r : RunStore(r)' = RunStore(r)
        BY <2>1 DEF graphVars, RunStore, RunMentions, RunClusters
      <3> QED
        BY <2>1, <3>1 DEF graphVars
    <2>2. ASSUME NEW j \in Jobs, \/ PersistResolved(j) \/ PersistMemberships(j)
                                 \/ PersistCandidates(j) \/ PersistAlignments(j)
          PROVE  Stores!Next
      BY <2>2, PersistResolves DEF Stores!Next
    <2>3. ASSUME NEW run \in Runs, NEW rows \in Snapshots, Extract(run, rows)
          PROVE  Stores!Next
      BY <2>3, ExtractExtracts DEF Stores!Next
    <2>4. ASSUME NEW run \in StructuredRuns, IngestStructured(run)
          PROVE  Stores!Next
      <3>1. /\ canonicals \subseteq canonicals'
            /\ UNCHANGED << mentions, clusters, memberOf, candidateMatch, resolvesTo, alignedWith >>
        BY <2>4 DEF IngestStructured, UpsertCanonicals, edgeVars
      <3>2. \A r : RunStore(r)' = RunStore(r)
        BY <3>1 DEF RunStore, RunMentions, RunClusters
      <3>3. Stores!Ingest
        BY <3>1, <3>2 DEF Stores!Ingest
      <3> QED
        BY <3>3 DEF Stores!Next
    <2>5. ASSUME Reset PROVE Stores!Next
      <3>1. DOMAIN NoRows = {}
        BY DEF NoRows
      <3>2. ASSUME NEW r \in Runs PROVE RunStore(r)' = Stores!EmptyStore
        BY <2>5, <3>1 DEF Reset, DeleteDemoNodes, RunStore, RunMentions, RunClusters,
                          Stores!EmptyStore
      <3>3. canonicals' = {}
        BY <2>5 DEF Reset, DeleteDemoNodes
      <3>4. Stores!Reset
        BY <3>2, <3>3 DEF Stores!Reset
      <3> QED
        BY <3>4 DEF Stores!Next
    <2>6. PassInv
      BY DEF ReadInv
    <2> QED
      BY <2>1, <2>2, <2>3, <2>4, <2>5, <2>6, GraphSteps
  <1> QED
    BY <1>1, <1>2, ReadAlways, PTL DEF Spec, AdditiveByRun, Stores!Spec

-----------------------------------------------------------------------------
(* What the language model is told.                                        *)

\* A row is certain exactly when it is under the name the job read.
RowsCertain ==
    \A j \in Jobs : HasRead(j) =>
        \A i \in DOMAIN unresolvedRows[j] :
            Certain(unresolvedRows[j][i]) <=> unresolvedRows[j][i].text = snap[j][i].text

\* While mentions were extracted at most once: what jobs read is still so, a membership is
\* accepted exactly when the cluster has the mention's name, and one to review never is.
NamesTrue ==
    NoReset /\ used.extractions <= 1 =>
        /\ used.extractions = 0 => DOMAIN mentions = {}
        /\ \A j \in Jobs : HasRead(j) =>
            \A i \in DOMAIN snap[j] : snap[j][i] = mentions[<< task[j].run, i >>]
        /\ \A e \in DOMAIN memberOf :
            memberOf[e].status = "accepted" <=> e[2].text = mentions[e[1]].text
        /\ \A e \in DOMAIN candidateMatch : e[2].text # mentions[e[1]].text

LEMMA RowsCertainStep == PassInv /\ RowsCertain /\ [Next]_vars => RowsCertain'
  <1> SUFFICES ASSUME PassInv, RowsCertain, [Next]_vars, NEW k \in Jobs, HasRead(k)',
                      NEW i \in DOMAIN unresolvedRows'[k]
               PROVE  Certain(unresolvedRows'[k][i])
                        <=> unresolvedRows'[k][i].text = snap'[k][i].text
    BY DEF RowsCertain, Certain
  <1>1. CASE JobKept(k)
    BY <1>1 DEF RowsCertain, JobKept, HasRead
  <1>2. CASE SameRows(k) /\ HasRead(k)
    BY <1>2 DEF RowsCertain, SameRows
  <1>3. CASE /\ snap'[k] = FetchMentions(task[k].run)
             /\ unresolvedRows'[k] \in {NoRows, ClusterRows(FetchMentions(task[k].run))}
    <2>1. unresolvedRows'[k] = ClusterRows(FetchMentions(task[k].run))
      BY <1>3 DEF NoRows
    <2>2. task[k].run \in Runs /\ GraphTypeOK
      BY DEF PassInv, TypeOK, ControlTypeOK, Task
    <2>3. /\ IsPartialMap(FetchMentions(task[k].run), MentionIds, Props)
          /\ i \in DOMAIN FetchMentions(task[k].run)
      BY <2>1, <2>2, FetchedRowsType
    <2>4. FetchMentions(task[k].run) \in Snapshots
      BY <2>3 DEF IsPartialMap, Snapshots
    <2> QED
      BY <1>3, <2>1, <2>3, <2>4, CertainAssumption
  <1>4. CASE /\ HasRead(k) /\ snap'[k] = snap[k]
             /\ unresolvedRows'[k] = unresolvedRows[k] \/ Anchored(k)
    <2>1. CASE unresolvedRows'[k] = unresolvedRows[k]
      BY <1>4, <2>1 DEF RowsCertain
    <2>2. CASE Anchored(k)
      <3>1. PICK D \in SUBSET DOMAIN snap[k] :
              unresolvedRows'[k] = [n \in D |-> UnresolvedRow(snap[k][n])]
        BY <2>2 DEF Anchored
      <3>2. unresolvedRows'[k][i] = UnresolvedRow(snap[k][i])
        BY <3>1
      <3> QED
        BY <1>4, <3>2 DEF UnresolvedRow, Certain
    <2> QED
      BY <1>4, <2>1, <2>2
  <1> QED
    BY <1>1, <1>2, <1>3, <1>4, MemorySteps

\* A membership is accepted exactly when its row is certain, and then it needs no review.
LEMMA StatusOfRow ==
    ASSUME NEW row \in ClusterRow
    PROVE  /\ Membership(row).status = "accepted" <=> Certain(row)
           /\ NeedsReview(row) => ~Certain(row)
  <1>1. row.method \in {"label_cluster", "normalized_exact", "abbreviation", "fuzzy"}
    BY DEF ClusterRow, Methods
  <1>2. CASE Certain(row)
    BY <1>1, <1>2 DEF Membership, MembershipStatus, NeedsReview, Certain
  <1>3. CASE row.method = "abbreviation"
    BY <1>3 DEF Membership, MembershipStatus, NeedsReview, Certain
  <1>4. CASE row.method = "fuzzy"
    BY <1>4 DEF Membership, MembershipStatus, NeedsReview, Certain
  <1> QED
    BY <1>1, <1>2, <1>3, <1>4 DEF Certain

\* While at most one extraction came, mentions are as they were, or this is it.
LEMMA NamesSteps ==
    ASSUME PassInv, [Next]_vars, NoReset', used'.extractions <= 1
    PROVE  /\ used.extractions <= 1
           /\ \/ mentions' = mentions /\ used'.extractions = used.extractions
              \/ /\ used.extractions = 0 /\ used'.extractions = 1
                 /\ \E run \in Runs, rows \in Snapshots : Extract(run, rows)
  <1>0. used \in Budget
    BY DEF PassInv, TypeOK, ControlTypeOK
  <1>1. ASSUME NEW j \in Jobs, StartPass(j) \/ StartDryRun(j) \/ Crash(j)
        PROVE  mentions' = mentions /\ used'.extractions = used.extractions
    BY <1>0, <1>1 DEF StartPass, StartDryRun, Start, Crash, Spend, Budget, graphVars
  <1>2. ASSUME NEW j \in Jobs, JobStep(j)
        PROVE  mentions' = mentions /\ used' = used
    <2>1. used' = used
      BY <1>2 DEF JobStep, ReadMentions, ReadCanonicals, PersistResolved, PersistMemberships,
         PersistCandidates, PersistAlignments, CountMembers, CountClusters, CountAligned,
         CountByMethod, CountMentionsInAligned, Report, SaveUnresolved, SaveSummary,
         SaveDrySummary, SaveDryUnresolved
    <2>2. mentions' = mentions
      BY <1>2 DEF JobStep, ReadMentions, ReadCanonicals, PersistResolved, PersistMemberships,
         PersistCandidates, PersistAlignments, CountMembers, CountClusters, CountAligned,
         CountByMethod, CountMentionsInAligned, Report, SaveUnresolved, SaveSummary,
         SaveDrySummary, SaveDryUnresolved, graphVars, WriteResolvedMentions,
         WriteClusterMemberships, WriteCandidateMatches, WriteAlignments
    <2> QED
      BY <2>1, <2>2
  <1>3. ASSUME NEW run \in Runs, NEW rows \in Snapshots, Extract(run, rows)
        PROVE  used.extractions = 0 /\ used'.extractions = 1
    <2>1. used'.extractions = used.extractions + 1 /\ used.extractions \in Nat
      BY <1>0, <1>3 DEF Extract, Spend, Budget
    <2> QED
      BY <2>1
  <1>4. ASSUME NEW run \in StructuredRuns, IngestStructured(run)
        PROVE  mentions' = mentions /\ used'.extractions = used.extractions
    BY <1>0, <1>4 DEF IngestStructured, UpsertCanonicals, Spend, Budget
  <1>5. ~Reset
    <2>1. used.resets \in Nat /\ (Reset => used'.resets = used.resets + 1)
      BY <1>0 DEF Budget, Reset, Spend
    <2> QED
      BY <2>1 DEF NoReset
  <1>6. UNCHANGED vars => mentions' = mentions /\ used' = used
    BY DEF vars, graphVars
  <1>7. used.extractions \in Nat
    BY <1>0 DEF Budget
  <1> QED
    BY <1>1, <1>2, <1>3, <1>4, <1>5, <1>6, <1>7 DEF Next, Environment

\* What the two writes of a pass put on an edge.
LEMMA EdgesWritten ==
    ASSUME PassInv, NEW j \in Jobs, HasRead(j)
    PROVE  /\ PersistMemberships(j) => \A e \in DOMAIN memberOf' :
                \/ e \in DOMAIN memberOf /\ memberOf'[e] = memberOf[e]
                \/ \E i \in DOMAIN unresolvedRows[j] :
                     e = RowEdge(j, i) /\ memberOf'[e] = Membership(unresolvedRows[j][i])
           /\ PersistCandidates(j) => \A e \in DOMAIN candidateMatch' :
                \/ e \in DOMAIN candidateMatch
                \/ \E i \in DOMAIN unresolvedRows[j] :
                     e = RowEdge(j, i) /\ NeedsReview(unresolvedRows[j][i])
  <1> DEFINE run == task[j].run
             rows == unresolvedRows[j]
  <1>1. ASSUME PersistMemberships(j), NEW e \in DOMAIN memberOf'
        PROVE  \/ e \in DOMAIN memberOf /\ memberOf'[e] = memberOf[e]
               \/ \E i \in DOMAIN rows : e = RowEdge(j, i) /\ memberOf'[e] = Membership(rows[i])
    <2> DEFINE new == [x \in MembershipEdges(run, rows) |-> Membership(rows[x[1][2]])]
    <2>1. memberOf' = Upsert(memberOf, new)
      BY <1>1 DEF PersistMemberships, WriteClusterMemberships
    <2>2. ASSUME NEW x \in DOMAIN new
          PROVE  \E i \in DOMAIN rows : x = RowEdge(j, i) /\ new[x] = Membership(rows[i])
      <3>1. PICK i \in DOMAIN rows : x = << << run, i >>, RowCluster(run, rows[i]) >>
        BY DEF MembershipEdges, RowEdges
      <3>2. x[1][2] = i
        BY <3>1
      <3> QED
        BY <3>1, <3>2 DEF RowEdge
    <2> HIDE DEF new
    <2>3. /\ DOMAIN memberOf' = DOMAIN memberOf \cup DOMAIN new
          /\ \A x \in DOMAIN new : memberOf'[x] = new[x]
          /\ \A x \in (DOMAIN memberOf) \ DOMAIN new : memberOf'[x] = memberOf[x]
      BY <2>1 DEF Upsert
    <2> QED
      BY <1>1, <2>2, <2>3
  <1>2. ASSUME PersistCandidates(j), NEW e \in DOMAIN candidateMatch'
        PROVE  \/ e \in DOMAIN candidateMatch
               \/ \E i \in DOMAIN rows : e = RowEdge(j, i) /\ NeedsReview(rows[i])
    <2> DEFINE new == [x \in CandidateEdges(run, rows) |-> Membership(rows[x[1][2]])]
    <2>1. candidateMatch' = Upsert(candidateMatch, new)
      BY <1>2 DEF PersistCandidates, WriteCandidateMatches
    <2>2. ASSUME NEW x \in DOMAIN new
          PROVE  \E i \in DOMAIN rows : x = RowEdge(j, i) /\ NeedsReview(rows[i])
      BY DEF CandidateEdges, RowEdges, RowEdge
    <2> HIDE DEF new
    <2>3. /\ DOMAIN candidateMatch' = DOMAIN candidateMatch \cup DOMAIN new
          /\ \A x \in DOMAIN new : candidateMatch'[x] = new[x]
          /\ \A x \in (DOMAIN candidateMatch) \ DOMAIN new : candidateMatch'[x] = candidateMatch[x]
      BY <2>1 DEF Upsert
    <2> QED
      BY <1>2, <2>2, <2>3
  <1> QED
    BY <1>1, <1>2

\* The row of an edge has its cluster's name.
LEMMA NameOfRowEdge ==
    ASSUME NEW j \in Jobs, NEW i
    PROVE  RowEdge(j, i)[1] = << task[j].run, i >>
             /\ RowEdge(j, i)[2].text = unresolvedRows[j][i].text
  BY DEF RowEdge, RowCluster, ClusterId

\* The first extraction meets no mention, so no memory and no edge of one; afterwards
\* nothing changes the names.
LEMMA NamesTrueStep ==
    /\ PassInv /\ RowsThere /\ RowsCertain /\ NamesTrue /\ [Next]_vars
    => NamesTrue'
  <1> SUFFICES ASSUME PassInv, RowsThere, RowsCertain, NamesTrue, [Next]_vars,
                      NoReset', used'.extractions <= 1
               PROVE  /\ used'.extractions = 0 => DOMAIN mentions' = {}
                      /\ \A k \in Jobs : HasRead(k)' =>
                          \A i \in DOMAIN snap'[k] :
                              snap'[k][i] = mentions'[<< task'[k].run, i >>]
                      /\ \A e \in DOMAIN memberOf' :
                          memberOf'[e].status = "accepted" <=> e[2].text = mentions'[e[1]].text
                      /\ \A e \in DOMAIN candidateMatch' : e[2].text # mentions'[e[1]].text
    BY DEF NamesTrue
  <1>1. NoReset /\ used.extractions <= 1
    BY Grows, NamesSteps
  <1>2. /\ used.extractions = 0 => DOMAIN mentions = {}
        /\ \A j \in Jobs : HasRead(j) =>
            \A i \in DOMAIN snap[j] : snap[j][i] = mentions[<< task[j].run, i >>]
        /\ \A e \in DOMAIN memberOf :
            memberOf[e].status = "accepted" <=> e[2].text = mentions[e[1]].text
        /\ \A e \in DOMAIN candidateMatch : e[2].text # mentions[e[1]].text
    BY <1>1 DEF NamesTrue
  <1>3. CASE mentions' = mentions /\ used'.extractions = used.extractions
    <2>1. used'.extractions = 0 => DOMAIN mentions' = {}
      BY <1>2, <1>3
    <2>2. ASSUME NEW k \in Jobs, HasRead(k)', NEW i \in DOMAIN snap'[k]
          PROVE  snap'[k][i] = mentions[<< task'[k].run, i >>]
      <3>1. CASE HasRead(k) /\ task'[k] = task[k] /\ snap'[k] = snap[k]
        BY <1>2, <2>2, <3>1
      <3>2. CASE task'[k] = task[k] /\ snap'[k] = FetchMentions(task[k].run)
        BY <2>2, <3>2 DEF FetchMentions
      <3>3. CASE JobKept(k)
        BY <1>2, <2>2, <3>3 DEF JobKept, HasRead
      <3> QED
        BY <2>2, <3>1, <3>2, <3>3, MemorySteps DEF SameRows
    <2>3. ASSUME NEW j \in Jobs, HasRead(j), NEW i \in DOMAIN unresolvedRows[j]
          PROVE  /\ unresolvedRows[j][i] \in ClusterRow
                 /\ Certain(unresolvedRows[j][i])
                      <=> RowEdge(j, i)[2].text = mentions[RowEdge(j, i)[1]].text
      <3>1. unresolvedRows[j][i] \in ClusterRow
        BY <2>3 DEF PassInv, TypeOK, RowsTypeOK, IsPartialMap
      <3>2. i \in DOMAIN snap[j]
        BY <2>3 DEF PassInv, MemoryInv
      <3>3. snap[j][i] = mentions[<< task[j].run, i >>]
        BY <1>2, <2>3, <3>2
      <3>4. Certain(unresolvedRows[j][i]) <=> unresolvedRows[j][i].text = snap[j][i].text
        BY <2>3 DEF RowsCertain
      <3> QED
        BY <3>1, <3>3, <3>4, NameOfRowEdge
    <2>4. ASSUME NEW e \in DOMAIN memberOf'
          PROVE  memberOf'[e].status = "accepted" <=> e[2].text = mentions[e[1]].text
      <3>1. CASE e \in DOMAIN memberOf /\ memberOf'[e] = memberOf[e]
        BY <1>2, <3>1
      <3>2. ASSUME NEW j \in Jobs, PersistMemberships(j)
            PROVE  memberOf'[e].status = "accepted" <=> e[2].text = mentions[e[1]].text
        <4>1. HasRead(j)
          BY <3>2, MembersAdded
        <4>2. \/ e \in DOMAIN memberOf /\ memberOf'[e] = memberOf[e]
              \/ \E i \in DOMAIN unresolvedRows[j] :
                   e = RowEdge(j, i) /\ memberOf'[e] = Membership(unresolvedRows[j][i])
          BY <2>4, <3>2, <4>1, EdgesWritten
        <4>3. ASSUME NEW i \in DOMAIN unresolvedRows[j],
                     e = RowEdge(j, i), memberOf'[e] = Membership(unresolvedRows[j][i])
              PROVE  memberOf'[e].status = "accepted" <=> e[2].text = mentions[e[1]].text
          <5>1. /\ unresolvedRows[j][i] \in ClusterRow
                /\ Certain(unresolvedRows[j][i]) <=> e[2].text = mentions[e[1]].text
            BY <2>3, <4>1, <4>3
          <5> QED
            BY <4>3, <5>1, StatusOfRow
        <4> QED
          BY <3>1, <4>2, <4>3
      <3>3. ASSUME NEW j \in Jobs, PersistCandidates(j) \/ PersistAlignments(j)
            PROVE  memberOf' = memberOf
        BY <3>3, CandidatesAdded, AlignmentsAdded
      <3>4. memberOf' # NoRows
        BY <2>4 DEF NoRows
      <3> QED
        BY <2>4, <3>1, <3>2, <3>3, <3>4, EdgesKept
    <2>5. ASSUME NEW e \in DOMAIN candidateMatch'
          PROVE  e[2].text # mentions[e[1]].text
      <3>1. CASE e \in DOMAIN candidateMatch
        BY <1>2, <3>1
      <3>2. ASSUME NEW j \in Jobs, PersistCandidates(j)
            PROVE  e[2].text # mentions[e[1]].text
        <4>1. HasRead(j)
          BY <3>2, CandidatesAdded
        <4>2. \/ e \in DOMAIN candidateMatch
              \/ \E i \in DOMAIN unresolvedRows[j] :
                   e = RowEdge(j, i) /\ NeedsReview(unresolvedRows[j][i])
          BY <2>5, <3>2, <4>1, EdgesWritten
        <4>3. ASSUME NEW i \in DOMAIN unresolvedRows[j],
                     e = RowEdge(j, i), NeedsReview(unresolvedRows[j][i])
              PROVE  e[2].text # mentions[e[1]].text
          <5>1. /\ unresolvedRows[j][i] \in ClusterRow
                /\ Certain(unresolvedRows[j][i]) <=> e[2].text = mentions[e[1]].text
            BY <2>3, <4>1, <4>3
          <5> QED
            BY <4>3, <5>1, StatusOfRow
        <4> QED
          BY <3>1, <4>2, <4>3
      <3>3. ASSUME NEW j \in Jobs, PersistMemberships(j) \/ PersistAlignments(j)
            PROVE  candidateMatch' = candidateMatch
        BY <3>3, MembersAdded, AlignmentsAdded
      <3>4. candidateMatch' # NoRows
        BY <2>5 DEF NoRows
      <3> QED
        BY <2>5, <3>1, <3>2, <3>3, <3>4, EdgesKept
    <2> QED
      BY <1>3, <2>1, <2>2, <2>4, <2>5
  <1>4. CASE /\ used.extractions = 0 /\ used'.extractions = 1
             /\ \E run \in Runs, rows \in Snapshots : Extract(run, rows)
    <2>1. /\ DOMAIN mentions = {}
          /\ UNCHANGED << pc, task, localVars, memberOf, candidateMatch >>
      BY <1>2, <1>4 DEF Extract, UpsertMentions, edgeVars
    <2>2. GraphTypeOK
      BY DEF PassInv, TypeOK
    <2>3. DOMAIN memberOf = {} /\ DOMAIN candidateMatch = {}
      BY <2>1, <2>2 DEF GraphTypeOK, IsPartialMap
    <2>4. \A k \in Jobs : HasRead(k) => DOMAIN snap[k] = {}
      BY <1>1, <2>1 DEF RowsThere
    <2>5. \A k \in Jobs : HasRead(k)' => HasRead(k)
      BY <2>1 DEF HasRead
    <2> QED
      BY <1>4, <2>1, <2>3, <2>4, <2>5 DEF localVars
  <1> QED
    BY <1>3, <1>4, NamesSteps

\* The language model is told of every membership in the review queue that it is
\* tentative, and a cluster is called settled only by the name of a mention of the chunk.
THEOREM TentativeFlagged == Spec => []ReviewFlagged
  <1>1. Init => RowsCertain /\ NamesTrue
    <2> SUFFICES ASSUME Init PROVE RowsCertain /\ NamesTrue
      OBVIOUS
    <2>1. DOMAIN NoRows = {}
      BY DEF NoRows
    <2>2. \A j \in Jobs : ~HasRead(j)
      BY DEF Init, HasRead, PassSteps
    <2> QED
      BY <2>1, <2>2 DEF Init, GraphInit, RowsCertain, NamesTrue
  <1>2. /\ PassInv /\ RowsThere /\ RowsCertain /\ NamesTrue /\ [Next]_vars
        => RowsCertain' /\ NamesTrue'
    BY RowsCertainStep, NamesTrueStep
  <1>3. NamesTrue /\ CandidateBacked => ReviewFlagged
    <2> SUFFICES ASSUME NamesTrue, CandidateBacked, NoReset, used.extractions <= 1,
                        NEW S \in SUBSET DOMAIN mentions
                 PROVE  /\ \A e \in { e \in DOMAIN candidateMatch : e[1] \in S } :
                            \E line \in ClusterLines(S) : line.name = e[2].text /\ ~line.settled
                        /\ \A line \in { line \in ClusterLines(S) : line.settled } :
                            \E m \in S : mentions[m].text = line.name
      BY DEF ReviewFlagged
    <2> DEFINE told(e) == [name |-> e[2].text, method |-> memberOf[e].method,
                           settled |-> memberOf[e].status = "accepted"]
    <2>1. \A e : told(e).name = e[2].text
      OBVIOUS
    <2>2. \A e : told(e).settled <=> memberOf[e].status = "accepted"
      OBVIOUS
    <2>3. \A line : line \in ClusterLines(S) <=>
                      \E e \in DOMAIN memberOf : e[1] \in S /\ line = told(e)
      BY DEF ClusterLines
    <2> HIDE DEF told
    <2>4. ASSUME NEW e \in DOMAIN candidateMatch, e[1] \in S
          PROVE  \E line \in ClusterLines(S) : line.name = e[2].text /\ ~line.settled
      <3>1. e \in DOMAIN memberOf /\ e[2].text # mentions[e[1]].text
        BY DEF CandidateBacked, NamesTrue
      <3>2. memberOf[e].status # "accepted"
        BY <3>1 DEF NamesTrue
      <3>3. told(e) \in ClusterLines(S)
        BY <2>3, <2>4, <3>1
      <3> QED
        BY <2>1, <2>2, <3>2, <3>3
    <2>5. ASSUME NEW line \in ClusterLines(S), line.settled
          PROVE  \E m \in S : mentions[m].text = line.name
      <3>1. PICK e \in DOMAIN memberOf : e[1] \in S /\ line = told(e)
        BY <2>3
      <3>2. memberOf[e].status = "accepted"
        BY <2>2, <2>5, <3>1
      <3>3. e[2].text = mentions[e[1]].text
        BY <3>2 DEF NamesTrue
      <3> QED
        BY <2>1, <3>1, <3>3
    <2> QED
      BY <2>4, <2>5
  <1>4. Spec => [](PassInv /\ RowsThere /\ CandidateBacked)
    BY ReadAlways, PTL DEF ReadInv
  <1> QED
    BY <1>1, <1>2, <1>3, <1>4, PTL DEF Spec
=============================================================================
