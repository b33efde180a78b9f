----------------------- MODULE EntityResolutionProofs -----------------------
(***************************************************************************)
(* Safety of EntityResolution, for all constants: types, then that edges   *)
(* stay within their run, alignments are justified by the text of their    *)
(* cluster, and a pass that has written has what it computed in the graph. *)
(*                                                                         *)
(* The last three are not inductive by themselves: what a pass will write  *)
(* is decided when it reads.  MemoryInv says what the rows of a job are    *)
(* about, and GraphInv how far the graph agrees with them, for a job under *)
(* whose feet the mentions of its run did not change.                      *)
(***************************************************************************)
EXTENDS EntityResolution, FiniteSetTheorems, WellFoundedInduction, TLAPS

-----------------------------------------------------------------------------
(* The statements of ResolutionGraph: what each write keeps, adds and      *)
(* leaves alone, for all rows it may be given.                             *)


\* Upsert keeps the keys of both maps, and the second map wins.
LEMMA UpsertDomain ==
    ASSUME NEW f, NEW g
    PROVE  /\ DOMAIN Upsert(f, g) = DOMAIN f \cup DOMAIN g
           /\ \A x \in DOMAIN g : Upsert(f, g)[x] = g[x]
           /\ \A x \in (DOMAIN f) \ DOMAIN g : Upsert(f, g)[x] = f[x]
  BY DEF Upsert

\* Upsert of two maps of a type is a map of that type.
LEMMA UpsertType ==
    ASSUME NEW f, NEW g, NEW D, NEW R,
           IsPartialMap(f, D, R), IsPartialMap(g, D, R)
    PROVE  IsPartialMap(Upsert(f, g), D, R)
  BY DEF Upsert, IsPartialMap

\* A map's keys may be placed in a larger set: nodes are added under edges.
LEMMA PartialMapWiden ==
    ASSUME NEW f, NEW D, NEW E, NEW R, IsPartialMap(f, D, R), D \subseteq E
    PROVE  IsPartialMap(f, E, R)
  BY DEF IsPartialMap

\* The empty map has every type.
LEMMA NoRowsType ==
    ASSUME NEW D, NEW R
    PROVE  IsPartialMap(NoRows, D, R)
  BY DEF IsPartialMap, NoRows

-----------------------------------------------------------------------------
\* The properties a row gives an edge are those of an edge.
LEMMA MembershipType ==
    ASSUME NEW row \in ClusterRow
    PROVE  Membership(row) \in EdgeProps
  <1> DEFINE score == MembershipScore(row.method, row.confidence)
  <1>1. score \in Percent
    BY DEF ClusterRow, MembershipScore, Percent
  <1>2. MembershipStatus(row.method, score) \in Statuses
    BY DEF MembershipStatus, Statuses
  <1>3. row.method \in Methods
    BY DEF ClusterRow
  <1> QED
    BY <1>1, <1>2, <1>3 DEF Membership, EdgeProps

\* The cluster id of a row of a run is a cluster of that run.
LEMMA RowClusterType ==
    ASSUME NEW run \in Runs, NEW row \in ClusterRow
    PROVE  /\ RowCluster(run, row) \in Cluster
           /\ RowCluster(run, row).run = run
  BY PolicyAssumption DEF RowCluster, ClusterId, Cluster, ClusterRow

-----------------------------------------------------------------------------
\* MERGE of memberships: adds the edge of every row whose mention is there,
\* and nothing else; nothing of the graph goes.
LEMMA WriteClusterMembershipsAdds ==
    ASSUME NEW run \in Runs, NEW rows,
           GraphTypeOK, IsPartialMap(rows, MentionIds, ClusterRow),
           WriteClusterMemberships(run, rows)
    PROVE  /\ clusters \subseteq clusters'
           /\ clusters' \subseteq Cluster
           /\ \A c \in clusters' \ clusters : c.run = run
           /\ DOMAIN memberOf \subseteq DOMAIN memberOf'
           /\ \A i \in DOMAIN rows : <<run, i>> \in DOMAIN mentions =>
                 << <<run, i>>, RowCluster(run, rows[i]) >> \in DOMAIN memberOf'
           /\ \A e \in (DOMAIN memberOf') \ DOMAIN memberOf :
                 \E i \in DOMAIN rows :
                    /\ e = << <<run, i>>, RowCluster(run, rows[i]) >>
                    /\ <<run, i>> \in DOMAIN mentions
           /\ GraphTypeOK'
  <1> DEFINE found == { i \in DOMAIN rows : <<run, i>> \in DOMAIN mentions }
             edges == { << <<run, i>>, RowCluster(run, rows[i]) >> : i \in found }
             new == [e \in edges |-> Membership(rows[e[1][2]])]
  <1>1. \A i \in DOMAIN rows : /\ rows[i] \in ClusterRow
                               /\ RowCluster(run, rows[i]) \in Cluster
                               /\ RowCluster(run, rows[i]).run = run
    BY RowClusterType DEF IsPartialMap
  <1>2. /\ clusters' = clusters \cup { RowCluster(run, rows[i]) : i \in DOMAIN rows }
        /\ memberOf' = Upsert(memberOf, new)
        /\ UNCHANGED << mentions, canonicals, candidateMatch, resolvesTo, alignedWith >>
    BY DEF WriteClusterMemberships, MembershipEdges, RowEdges
  <1>3. DOMAIN memberOf' = DOMAIN memberOf \cup edges
    BY <1>2, UpsertDomain
  <1>4. /\ clusters \subseteq clusters'
        /\ clusters' \subseteq Cluster
        /\ \A c \in clusters' \ clusters : c.run = run
    BY <1>1, <1>2 DEF GraphTypeOK
  <1>5. IsPartialMap(new, (DOMAIN mentions) \X clusters', EdgeProps)
    <2>1. \A e \in edges : /\ e \in (DOMAIN mentions) \X clusters'
                           /\ e[1][2] \in DOMAIN rows
      <3> TAKE e \in edges
      <3>1. PICK i \in found : e = << <<run, i>>, RowCluster(run, rows[i]) >>
        OBVIOUS
      <3> QED
        BY <1>2, <3>1
    <2>2. \A e \in edges : Membership(rows[e[1][2]]) \in EdgeProps
      BY <1>1, <2>1, MembershipType
    <2> QED
      BY <2>1, <2>2 DEF IsPartialMap
  <1>6. GraphTypeOK'
    <2>1. IsPartialMap(memberOf, (DOMAIN mentions) \X clusters', EdgeProps)
      BY <1>4, PartialMapWiden DEF GraphTypeOK
    <2>2. IsPartialMap(memberOf', (DOMAIN mentions) \X clusters', EdgeProps)
      BY <1>2, <1>5, <2>1, UpsertType
    <2>3. IsPartialMap(candidateMatch', (DOMAIN mentions) \X clusters', EdgeProps)
      BY <1>2, <1>4, PartialMapWiden DEF GraphTypeOK
    <2>4. IsPartialMap(alignedWith', clusters' \X canonicals \X Runs, AlignmentMethods)
      BY <1>2, <1>4, PartialMapWiden DEF GraphTypeOK
    <2> QED
      BY <1>2, <1>4, <2>2, <2>3, <2>4 DEF GraphTypeOK
  <1> QED
    BY <1>3, <1>4, <1>6

\* MERGE of the review queue: adds the edge of every ambiguous row whose
\* mention and cluster are there, and nothing else.
LEMMA WriteCandidateMatchesAdds ==
    ASSUME NEW run \in Runs, NEW rows,
           GraphTypeOK, IsPartialMap(rows, MentionIds, ClusterRow),
           WriteCandidateMatches(run, rows)
    PROVE  /\ DOMAIN candidateMatch \subseteq DOMAIN candidateMatch'
           /\ \A i \in DOMAIN rows :
                 /\ NeedsReview(rows[i])
                 /\ <<run, i>> \in DOMAIN mentions
                 /\ RowCluster(run, rows[i]) \in clusters
                 => << <<run, i>>, RowCluster(run, rows[i]) >> \in DOMAIN candidateMatch'
           /\ \A e \in (DOMAIN candidateMatch') \ DOMAIN candidateMatch :
                 \E i \in DOMAIN rows :
                    /\ e = << <<run, i>>, RowCluster(run, rows[i]) >>
                    /\ <<run, i>> \in DOMAIN mentions
           /\ GraphTypeOK'
  <1> DEFINE found == { i \in DOMAIN rows :
                          /\ NeedsReview(rows[i])
                          /\ <<run, i>> \in DOMAIN mentions
                          /\ RowCluster(run, rows[i]) \in clusters }
             edges == { << <<run, i>>, RowCluster(run, rows[i]) >> : i \in found }
             new == [e \in edges |-> Membership(rows[e[1][2]])]
  <1>1. \A i \in DOMAIN rows : rows[i] \in ClusterRow
    BY DEF IsPartialMap
  <1>2. /\ candidateMatch' = Upsert(candidateMatch, new)
        /\ UNCHANGED << mentions, clusters, canonicals, memberOf, resolvesTo,
                        alignedWith >>
    BY DEF WriteCandidateMatches, CandidateEdges, RowEdges
  <1>3. DOMAIN candidateMatch' = DOMAIN candidateMatch \cup edges
    BY <1>2, UpsertDomain
  <1>4. IsPartialMap(new, (DOMAIN mentions) \X clusters, EdgeProps)
    <2>1. \A e \in edges : /\ e \in (DOMAIN mentions) \X clusters
                           /\ e[1][2] \in DOMAIN rows
      <3> TAKE e \in edges
      <3>1. PICK i \in found : e = << <<run, i>>, RowCluster(run, rows[i]) >>
        OBVIOUS
      <3> QED
        BY <3>1
    <2>2. \A e \in edges : Membership(rows[e[1][2]]) \in EdgeProps
      BY <1>1, <2>1, MembershipType
    <2> QED
      BY <2>1, <2>2 DEF IsPartialMap
  <1>5. GraphTypeOK'
    <2>1. IsPartialMap(candidateMatch', (DOMAIN mentions) \X clusters, EdgeProps)
      BY <1>2, <1>4, UpsertType DEF GraphTypeOK
    <2> QED
      BY <1>2, <2>1 DEF GraphTypeOK
  <1> QED
    BY <1>3, <1>5

\* MERGE of resolutions: adds the edge of every row whose mention and entity
\* are there, and nothing else.
LEMMA WriteResolvedMentionsAdds ==
    ASSUME NEW run \in Runs, NEW rows,
           GraphTypeOK, IsPartialMap(rows, MentionIds, ResolvedRow),
           WriteResolvedMentions(run, rows)
    PROVE  /\ DOMAIN resolvesTo \subseteq DOMAIN resolvesTo'
           /\ \A i \in DOMAIN rows :
                 /\ <<run, i>> \in DOMAIN mentions
                 /\ rows[i].canonical \in canonicals
                 => << <<run, i>>, rows[i].canonical >> \in DOMAIN resolvesTo'
           /\ \A e \in (DOMAIN resolvesTo') \ DOMAIN resolvesTo : e[1][1] = run
           /\ GraphTypeOK'
  <1> DEFINE found == { i \in DOMAIN rows :
                          /\ <<run, i>> \in DOMAIN mentions
                          /\ rows[i].canonical \in canonicals }
             edges == { << <<run, i>>, rows[i].canonical >> : i \in found }
             new == [e \in edges |-> rows[e[1][2]].method]
  <1>1. \A i \in DOMAIN rows : rows[i] \in ResolvedRow
    BY DEF IsPartialMap
  <1>2. /\ resolvesTo' = Upsert(resolvesTo, new)
        /\ UNCHANGED << mentions, clusters, canonicals, memberOf, candidateMatch,
                        alignedWith >>
    BY DEF WriteResolvedMentions
  <1>3. DOMAIN resolvesTo' = DOMAIN resolvesTo \cup edges
    BY <1>2, UpsertDomain
  <1>4. IsPartialMap(new, (DOMAIN mentions) \X canonicals, ResolveMethods)
    <2>1. \A e \in edges : /\ e \in (DOMAIN mentions) \X canonicals
                           /\ e[1][2] \in DOMAIN rows
      <3> TAKE e \in edges
      <3>1. PICK i \in found : e = << <<run, i>>, rows[i].canonical >>
        OBVIOUS
      <3> QED
        BY <3>1
    <2>2. \A e \in edges : rows[e[1][2]].method \in ResolveMethods
      BY <1>1, <2>1 DEF ResolvedRow
    <2> QED
      BY <2>1, <2>2 DEF IsPartialMap
  <1>5. GraphTypeOK'
    <2>1. IsPartialMap(resolvesTo', (DOMAIN mentions) \X canonicals, ResolveMethods)
      BY <1>2, <1>4, UpsertType DEF GraphTypeOK
    <2> QED
      BY <1>2, <2>1 DEF GraphTypeOK
  <1>6. \A e \in edges : e[1][1] = run
    <2> TAKE e \in edges
    <2>1. PICK i \in found : e = << <<run, i>>, rows[i].canonical >>
      OBVIOUS
    <2> QED
      BY <2>1
  <1> QED
    BY <1>3, <1>5, <1>6

\* MERGE of alignments: adds the edge of every row whose cluster and entity are
\* there, marked with the run, and nothing else; an edge's method changes only
\* to that of a row for it.
LEMMA WriteAlignmentsAdds ==
    ASSUME NEW run \in Runs, NEW rows,
           GraphTypeOK, IsPartialMap(rows, Cluster, AlignmentRow),
           WriteAlignments(run, rows)
    PROVE  /\ DOMAIN alignedWith \subseteq DOMAIN alignedWith'
           /\ \A c \in DOMAIN rows :
                 /\ c \in clusters
                 /\ rows[c].canonical \in canonicals
                 => <<c, rows[c].canonical, run>> \in DOMAIN alignedWith'
           /\ \A e \in DOMAIN alignedWith' :
                 \/ e \in DOMAIN alignedWith /\ alignedWith'[e] = alignedWith[e]
                 \/ \E c \in DOMAIN rows :
                       /\ e = <<c, rows[c].canonical, run>>
                       /\ alignedWith'[e] = rows[c].method
           /\ GraphTypeOK'
  <1> DEFINE found == { c \in DOMAIN rows :
                          c \in clusters /\ rows[c].canonical \in canonicals }
             edges == { <<c, rows[c].canonical, run>> : c \in found }
             new == [e \in edges |-> rows[e[1]].method]
  <1>1. \A c \in DOMAIN rows : rows[c] \in AlignmentRow
    BY DEF IsPartialMap
  <1>2. /\ alignedWith' = Upsert(alignedWith, new)
        /\ UNCHANGED << mentions, clusters, canonicals, memberOf, candidateMatch,
                        resolvesTo >>
    BY DEF WriteAlignments, MergeAlignments
  <1>3. /\ DOMAIN alignedWith' = DOMAIN alignedWith \cup edges
        /\ \A e \in edges : alignedWith'[e] = rows[e[1]].method
        /\ \A e \in (DOMAIN alignedWith) \ edges : alignedWith'[e] = alignedWith[e]
    <2>1. DOMAIN new = edges /\ \A e \in edges : new[e] = rows[e[1]].method
      OBVIOUS
    <2>2. /\ DOMAIN alignedWith' = DOMAIN alignedWith \cup DOMAIN new
          /\ \A e \in DOMAIN new : alignedWith'[e] = new[e]
          /\ \A e \in (DOMAIN alignedWith) \ DOMAIN new : alignedWith'[e] = alignedWith[e]
      <3>1. alignedWith' = Upsert(alignedWith, new)
        BY <1>2
      <3> HIDE DEF new
      <3> QED
        BY <3>1 DEF Upsert
    <2> HIDE DEF new, edges
    <2> QED
      BY <2>1, <2>2
  <1>4. \A e \in edges : /\ e \in clusters \X canonicals \X Runs
                         /\ e[1] \in DOMAIN rows
                         /\ e = <<e[1], rows[e[1]].canonical, run>>
    <2> TAKE e \in edges
    <2>1. PICK c \in found : e = <<c, rows[c].canonical, run>>
      OBVIOUS
    <2> QED
      BY <2>1
  <1>5. IsPartialMap(new, clusters \X canonicals \X Runs, AlignmentMethods)
    <2>1. \A e \in edges : rows[e[1]].method \in AlignmentMethods
      BY <1>1, <1>4 DEF AlignmentRow
    <2> QED
      BY <1>4, <2>1 DEF IsPartialMap
  <1>6. GraphTypeOK'
    <2>1. IsPartialMap(alignedWith', clusters \X canonicals \X Runs, AlignmentMethods)
      BY <1>2, <1>5, UpsertType DEF GraphTypeOK
    <2> QED
      BY <1>2, <2>1 DEF GraphTypeOK
  <1>7. ASSUME NEW e \in DOMAIN alignedWith'
        PROVE  \/ e \in DOMAIN alignedWith /\ alignedWith'[e] = alignedWith[e]
               \/ \E c \in DOMAIN rows :
                     /\ e = <<c, rows[c].canonical, run>>
                     /\ alignedWith'[e] = rows[c].method
    <2>1. CASE e \in edges
      BY <1>3, <1>4, <2>1
    <2>2. CASE e \notin edges
      BY <1>3, <2>2
    <2> QED
      BY <2>1, <2>2
  <1> QED
    BY <1>3, <1>6, <1>7

-----------------------------------------------------------------------------
\* Extraction keeps every mention, and adds mentions of its run only.
LEMMA UpsertMentionsAdds ==
    ASSUME NEW run \in Runs, NEW rows,
           GraphTypeOK, IsPartialMap(rows, MentionIds, Props),
           UpsertMentions(run, rows)
    PROVE  /\ DOMAIN mentions \subseteq DOMAIN mentions'
           /\ \A m \in (DOMAIN mentions') \ DOMAIN mentions : m[1] = run
           /\ \A m \in DOMAIN mentions :
                 m[1] # run => mentions'[m] = mentions[m]
           /\ GraphTypeOK'
  <1> DEFINE new == [m \in {run} \X (DOMAIN rows) |-> rows[m[2]]]
  <1>1. /\ mentions' = Upsert(mentions, new)
        /\ UNCHANGED << clusters, canonicals, memberOf, candidateMatch, resolvesTo,
                        alignedWith >>
    BY DEF UpsertMentions, edgeVars
  <1>2. IsPartialMap(new, Mention, Props)
    BY DEF IsPartialMap, Mention
  <1>3. IsPartialMap(mentions', Mention, Props)
    BY <1>1, <1>2, UpsertType DEF GraphTypeOK
  <1>4. /\ DOMAIN mentions' = DOMAIN mentions \cup DOMAIN new
        /\ \A m \in (DOMAIN mentions) \ DOMAIN new : mentions'[m] = mentions[m]
    <2> HIDE DEF new
    <2> QED
      BY <1>1, UpsertDomain
  <1>5. (DOMAIN mentions) \X clusters \subseteq (DOMAIN mentions') \X clusters
    BY <1>4
  <1>6. (DOMAIN mentions) \X canonicals \subseteq (DOMAIN mentions') \X canonicals
    BY <1>4
  <1>7. GraphTypeOK'
    <2>1. /\ IsPartialMap(memberOf, (DOMAIN mentions') \X clusters, EdgeProps)
          /\ IsPartialMap(candidateMatch, (DOMAIN mentions') \X clusters, EdgeProps)
      BY <1>5, PartialMapWiden DEF GraphTypeOK
    <2>2. IsPartialMap(resolvesTo, (DOMAIN mentions') \X canonicals, ResolveMethods)
      BY <1>6, PartialMapWiden DEF GraphTypeOK
    <2> QED
      BY <1>1, <1>3, <2>1, <2>2 DEF GraphTypeOK
  <1> QED
    BY <1>4, <1>7

\* Structured ingest keeps the store well formed.
LEMMA UpsertCanonicalsType ==
    ASSUME NEW new, new \subseteq Canonicals, GraphTypeOK, UpsertCanonicals(new)
    PROVE  GraphTypeOK'
  <1>1. /\ canonicals' = canonicals \cup new
        /\ UNCHANGED << mentions, clusters, memberOf, candidateMatch, resolvesTo,
                        alignedWith >>
    BY DEF UpsertCanonicals, edgeVars
  <1>2. IsPartialMap(resolvesTo, (DOMAIN mentions) \X canonicals', ResolveMethods)
    BY <1>1, PartialMapWiden DEF GraphTypeOK
  <1>3. IsPartialMap(alignedWith, clusters \X canonicals' \X Runs, AlignmentMethods)
    BY <1>1, PartialMapWiden DEF GraphTypeOK
  <1> QED
    BY <1>1, <1>2, <1>3 DEF GraphTypeOK

\* The empty store is well formed, at the start and after a reset.
LEMMA EmptyGraphType ==
    /\ GraphInit => GraphTypeOK
    /\ DeleteDemoNodes => GraphTypeOK'
  BY NoRowsType DEF GraphInit, DeleteDemoNodes, GraphTypeOK

-----------------------------------------------------------------------------
(* Types. *)

\* The task of an idle job is a task.
LEMMA NoTaskType == NoTask \in Task
  <1>1. "hybrid" \in Modes
    BY DEF Modes
  <1>2. PICK run \in Runs : TRUE
    BY ScopeAssumption
  <1>3. PICK dataset \in Datasets : TRUE
    BY ScopeAssumption
  <1>4. [run |-> run, mode |-> "hybrid", dataset |-> dataset] \in Task
    BY <1>1 DEF Task
  <1> QED
    BY <1>4 DEF NoTask

-----------------------------------------------------------------------------
\* The order in which rows are returned has a first row in every nonempty part.
LEMMA FirstRowIn ==
    ASSUME NEW S, NEW order \in RowOrders(S), NEW T, T \subseteq S, T # {}
    PROVE  FirstRow(order, T) \in T
  <1> DEFINE places == { order[a] : a \in T }
  <1>1. order \in [S -> 1 .. Cardinality(S)]
    BY DEF RowOrders
  <1>2. places \subseteq Nat /\ places # {}
    BY <1>1
  <1>3. PICK n \in places : \A m \in places : ~(<< m, n >> \in OpToRel(<, Nat))
    <2> HIDE DEF places
    <2> QED
      BY <1>2, NatLessThanWellFounded, WFMin
  <1>4. \A m \in places : n <= m
    <2>1. \A m, k : m \in Nat /\ k \in Nat /\ m < k => << m, k >> \in OpToRel(<, Nat)
      BY Zenon DEF OpToRel
    <2> HIDE DEF places
    <2>2. \A m \in places : ~(m < n)
      BY Zenon, <1>2, <1>3, <2>1
    <2> QED
      BY <1>2, <2>2
  <1>5. \E a \in T : \A b \in T : order[a] <= order[b]
    BY <1>4
  <1> QED
    BY <1>5 DEF FirstRow

\* A cluster row is matched to one of the fetched entities, by its text.
LEMMA AlignedRowType ==
    ASSUME NEW S \in SUBSET Canonicals, NEW order \in RowOrders(S), NEW text,
           Alignable(S, text)
    PROVE  /\ AlignedRow(order, S, text) \in AlignmentRow
           /\ AlignedRow(order, S, text).canonical \in S
           /\ LET row == AlignedRow(order, S, text)
                  entity == Entity[row.canonical]
              IN  \/ row.method = "label_exact" /\ text = entity.label
                  \/ row.method = "alias_exact" /\ text \in entity.aliases
  <1>1. CASE LabelMatches(S, text) # {}
    <2>1. FirstRow(order, LabelMatches(S, text)) \in LabelMatches(S, text)
      <3>1. LabelMatches(S, text) \subseteq S
        BY DEF LabelMatches
      <3> QED
        BY <1>1, <3>1, FirstRowIn
    <2> QED
      BY <1>1, <2>1 DEF AlignedRow, AlignmentRow, AlignmentMethods, LabelMatches
  <1>2. CASE LabelMatches(S, text) = {}
    <2>1. FirstRow(order, AliasMatches(S, text)) \in AliasMatches(S, text)
      <3>1. AliasMatches(S, text) \subseteq S /\ AliasMatches(S, text) # {}
        BY <1>2 DEF AliasMatches, Alignable
      <3> QED
        BY <3>1, FirstRowIn
    <2> QED
      BY <1>2, <2>1 DEF AlignedRow, AlignmentRow, AlignmentMethods, AliasMatches
  <1> QED
    BY <1>1, <1>2

\* A mention is resolved to one of the fetched entities.
LEMMA ResolvedToType ==
    ASSUME NEW S \in SUBSET Canonicals, NEW order \in RowOrders(S), NEW text,
           Resolvable(S, text)
    PROVE  /\ ResolvedTo(order, S, text) \in ResolvedRow
           /\ ResolvedTo(order, S, text).canonical \in S
  <1>1. CASE text \in Qids
    <2>1. QidMatches(S, text) \subseteq S /\ QidMatches(S, text) # {}
      BY <1>1 DEF QidMatches, Resolvable
    <2>2. FirstRow(order, QidMatches(S, text)) \in S
      BY <2>1, FirstRowIn
    <2> QED
      BY <1>1, <2>2 DEF ResolvedTo, ResolvedRow, ResolveMethods
  <1>2. CASE text \notin Qids
    <2>1. Alignable(S, text)
      BY <1>2 DEF Resolvable
    <2>2. /\ AlignedRow(order, S, text) \in AlignmentRow
          /\ AlignedRow(order, S, text).canonical \in S
      BY <2>1, AlignedRowType
    <2>3. AlignedRow(order, S, text) \in ResolvedRow
      BY <2>2 DEF AlignmentRow, ResolvedRow, AlignmentMethods, ResolveMethods
    <2> QED
      BY <1>2, <2>2, <2>3 DEF ResolvedTo
  <1> QED
    BY <1>1, <1>2

\* The row of a mention without a match.
LEMMA UnresolvedRowType ==
    ASSUME NEW mention \in Props
    PROVE  UnresolvedRow(mention) \in ClusterRow
  BY PolicyAssumption DEF UnresolvedRow, ClusterRow, Props, Methods, Percent

\* What is read is a snapshot, and clustering gives it well-formed rows.
LEMMA FetchedRowsType ==
    ASSUME NEW run \in Runs, GraphTypeOK
    PROVE  /\ IsPartialMap(FetchMentions(run), MentionIds, Props)
           /\ DOMAIN ClusterRows(FetchMentions(run)) = DOMAIN FetchMentions(run)
           /\ IsPartialMap(ClusterRows(FetchMentions(run)), MentionIds, ClusterRow)
  <1> DEFINE read == FetchMentions(run)
  <1>1. IsPartialMap(read, MentionIds, Props)
    BY DEF FetchMentions, IsPartialMap, GraphTypeOK
  <1>2. read \in Snapshots
    BY <1>1 DEF IsPartialMap, Snapshots
  <1>3. ClusterRows(read) \in [DOMAIN read -> ClusterRow]
    BY <1>2, ClusterRowsAssumption
  <1> QED
    BY <1>1, <1>3 DEF IsPartialMap

-----------------------------------------------------------------------------
(* What is counted is finite.                                              *)

\* There are finitely many clusters, and finitely many mentions.
LEMMA NodesFinite == IsFiniteSet(Mention) /\ IsFiniteSet(Cluster)
  <1>1. IsFiniteSet(Mention)
    BY ScopeAssumption, FS_Product DEF Mention
  <1> DEFINE D == Runs \X (RawTypes \X Texts)
             f == [d \in D |-> [run |-> d[1], type |-> d[2][1], text |-> d[2][2]]]
  <1>2. IsFiniteSet(D)
    BY ScopeAssumption, FS_Product
  <1>3. f \in [D -> Cluster]
    BY DEF Cluster
  <1>4. ASSUME NEW c \in Cluster
        PROVE  \E d \in D : f[d] = c
    <2>1. << c.run, << c.type, c.text >> >> \in D
      BY DEF Cluster
    <2>2. f[<< c.run, << c.type, c.text >> >>] = c
      BY <2>1 DEF Cluster
    <2> QED
      BY <2>1, <2>2
  <1>5. f \in Surjection(D, Cluster)
    BY <1>3, <1>4 DEF Surjection
  <1>6. IsFiniteSet(Cluster)
    <2> HIDE DEF f, D
    <2> QED
      BY <1>2, <1>5, FS_Surjection
  <1> QED
    BY <1>1, <1>6

\* There are finitely many alignment edges.
LEMMA AlignmentsFinite == IsFiniteSet(Cluster \X Canonicals \X Runs)
  <1> DEFINE D == (Cluster \X Canonicals) \X Runs
             T == Cluster \X Canonicals \X Runs
             f == [d \in D |-> << d[1][1], d[1][2], d[2] >>]
  <1>1. IsFiniteSet(D)
    BY ScopeAssumption, NodesFinite, FS_Product
  <1>2. f \in [D -> T]
    OBVIOUS
  <1>3. ASSUME NEW e \in T
        PROVE  \E d \in D : f[d] = e
    <2>1. << << e[1], e[2] >>, e[3] >> \in D
      OBVIOUS
    <2>2. f[<< << e[1], e[2] >>, e[3] >>] = e
      BY <2>1
    <2> QED
      BY <2>1, <2>2
  <1>4. f \in Surjection(D, T)
    BY <1>2, <1>3 DEF Surjection
  <1> HIDE DEF f, D, T
  <1>5. IsFiniteSet(T)
    BY <1>1, <1>4, FS_Surjection
  <1> QED
    BY <1>5 DEF T

\* A subset of a finite set has a natural number of elements.
LEMMA CountType ==
    ASSUME NEW S, IsFiniteSet(S), NEW T, T \subseteq S
    PROVE  Cardinality(T) \in Nat
  BY FS_Subset, FS_CardinalityType

\* Every count of the coverage queries is a number.
LEMMA CountsType ==
    ASSUME NEW run \in Runs, GraphTypeOK
    PROVE  /\ Cardinality(ClusteredMentions(run)) \in Nat
           /\ Cardinality(RunMentions(run) \ ClusteredMentions(run)) \in Nat
           /\ Cardinality(RunClusters(run)) \in Nat
           /\ Cardinality(AlignedClusters(run)) \in Nat
           /\ Cardinality(AlignedCanonicals(run)) \in Nat
           /\ AlignmentBreakdown(run) \in [AlignmentMethods -> Nat]
           /\ Cardinality(MentionsInAligned(run)) \in Nat
  <1>1. RunMentions(run) \subseteq Mention
    BY DEF RunMentions, GraphTypeOK, IsPartialMap
  <1>2. RunClusters(run) \subseteq Cluster
    BY DEF RunClusters, GraphTypeOK
  <1>3. RunAlignments(run) \subseteq Cluster \X Canonicals \X Runs
    BY DEF RunAlignments, GraphTypeOK, IsPartialMap
  <1>4. AlignedClusters(run) \subseteq Cluster
    BY <1>3 DEF AlignedClusters
  <1>5. AlignedCanonicals(run) \subseteq Canonicals
    BY <1>3 DEF AlignedCanonicals
  <1>6. /\ Cardinality(ClusteredMentions(run)) \in Nat
        /\ Cardinality(RunMentions(run) \ ClusteredMentions(run)) \in Nat
        /\ Cardinality(MentionsInAligned(run)) \in Nat
    <2>1. /\ ClusteredMentions(run) \subseteq Mention
          /\ RunMentions(run) \ ClusteredMentions(run) \subseteq Mention
          /\ MentionsInAligned(run) \subseteq Mention
      BY <1>1 DEF ClusteredMentions, MentionsInAligned
    <2> QED
      BY <2>1, NodesFinite, CountType
  <1>7. /\ Cardinality(RunClusters(run)) \in Nat
        /\ Cardinality(AlignedClusters(run)) \in Nat
        /\ Cardinality(AlignedCanonicals(run)) \in Nat
    BY <1>2, <1>4, <1>5, NodesFinite, ScopeAssumption, CountType
  <1>8. AlignmentBreakdown(run) \in [AlignmentMethods -> Nat]
    <2>1. ASSUME NEW method \in AlignmentMethods
          PROVE  Cardinality({ e \in RunAlignments(run) : alignedWith[e] = method }) \in Nat
      <3>1. { e \in RunAlignments(run) : alignedWith[e] = method }
              \subseteq Cluster \X Canonicals \X Runs
        BY <1>3
      <3> QED
        BY <3>1, AlignmentsFinite, CountType
    <2> QED
      BY <2>1 DEF AlignmentBreakdown
  <1> QED
    BY <1>6, <1>7, <1>8

\* A saved summary is well formed.
LEMMA LiveSummaryType ==
    ASSUME NEW j \in Jobs, ControlTypeOK, RowsTypeOK, coverage \in [Jobs -> Coverage]
    PROVE  LiveSummary(j) \in Summary
  <1> DEFINE rows == unresolvedRows[j]
             made == { << rows[i].type, rows[i].text >> : i \in DOMAIN rows }
  <1>1. /\ DOMAIN snap[j] \subseteq MentionIds
        /\ DOMAIN resolvedRows[j] \subseteq MentionIds
        /\ DOMAIN rows \subseteq MentionIds
        /\ \A i \in DOMAIN rows : rows[i] \in ClusterRow
    BY DEF RowsTypeOK, IsPartialMap
  <1>2. made \subseteq RawTypes \X Texts
    BY <1>1 DEF ClusterRow
  <1>3. /\ Cardinality(DOMAIN snap[j]) \in Nat
        /\ Cardinality(DOMAIN resolvedRows[j]) \in Nat
        /\ Cardinality(DOMAIN rows) \in Nat
    BY <1>1, ScopeAssumption, CountType
  <1>4. Cardinality(made) \in Nat
    <2>1. IsFiniteSet(RawTypes \X Texts)
      BY ScopeAssumption, FS_Product
    <2> HIDE DEF made
    <2> QED
      BY <1>2, <2>1, CountType
  <1>5. task[j].mode \in Modes
    BY DEF ControlTypeOK, Task
  <1>6. coverage[j] \in Coverage
    OBVIOUS
  <1>7. (IF coverage[j].total > coverage[j].aligned
         THEN coverage[j].total - coverage[j].aligned ELSE 0) \in Nat
    BY <1>6 DEF Coverage
  <1> HIDE DEF made
  <1> QED
    BY <1>3, <1>4, <1>5, <1>6, <1>7 DEF LiveSummary, Summary, ClustersCreated, ClustersPending, made

-----------------------------------------------------------------------------
(* The parts the actions share.                                            *)

Steps == {"idle"} \cup PassSteps \cup DryRunSteps

\* A budget stays a record of numbers.
LEMMA SpendType ==
    ASSUME used \in Budget,
           NEW what \in {"starts", "dryRuns", "extractions", "ingests", "resets", "crashes"},
           Spend(what)
    PROVE  used' \in Budget
  BY DEF Budget, Spend

\* A job that ends leaves well-formed control and memory.
LEMMA ForgetType ==
    ASSUME TypeOK, NEW j \in Jobs, Forget(j)
    PROVE  /\ pc' \in [Jobs -> Steps]
           /\ task' \in [Jobs -> Task]
           /\ disturbed' \in [Jobs -> BOOLEAN]
           /\ RowsTypeOK'
           /\ coverage' \in [Jobs -> Coverage]
  <1>1. pc' \in [Jobs -> Steps]
    BY DEF TypeOK, ControlTypeOK, Forget, Goto, Steps
  <1>2. task' \in [Jobs -> Task]
    BY NoTaskType DEF TypeOK, ControlTypeOK, Forget
  <1>3. disturbed' \in [Jobs -> BOOLEAN]
    BY DEF TypeOK, ControlTypeOK, Forget
  <1>4. RowsTypeOK'
    BY NoRowsType DEF TypeOK, RowsTypeOK, Forget
  <1>5. NoCoverage \in Coverage
    BY DEF NoCoverage, Coverage
  <1>6. coverage' \in [Jobs -> Coverage]
    BY <1>5 DEF TypeOK, ReportTypeOK, Forget
  <1> QED
    BY <1>1, <1>2, <1>3, <1>4, <1>6

\* A step that leaves a part of the state alone keeps its type.
LEMMA UnchangedTypes ==
    /\ GraphTypeOK /\ UNCHANGED graphVars => GraphTypeOK'
    /\ RowsTypeOK /\ UNCHANGED << snap, unresolvedRows, resolvedRows, alignmentRows >>
         => RowsTypeOK'
    /\ ReportTypeOK /\ UNCHANGED << coverage, fileVars >> => ReportTypeOK'
  BY DEF GraphTypeOK, graphVars, RowsTypeOK, ReportTypeOK, fileVars

\* A step that moves a job and leaves tasks, disturbances and budget alone.
LEMMA GotoType ==
    ASSUME ControlTypeOK, NEW j \in Jobs, NEW step \in Steps, Goto(j, step),
           UNCHANGED << task, disturbed, used >>
    PROVE  ControlTypeOK'
  BY DEF ControlTypeOK, Goto, Steps

-----------------------------------------------------------------------------
(* The actions, one by one.                                                *)

\* Starting a job.
LEMMA StartType ==
    ASSUME TypeOK, NEW j \in Jobs, StartPass(j) \/ StartDryRun(j)
    PROVE  TypeOK'
  <1>1. used' \in Budget
    BY SpendType DEF TypeOK, ControlTypeOK, StartPass, StartDryRun
  <1>2. PICK step \in Steps : Start(j, step)
    BY DEF StartPass, StartDryRun, Steps, PassSteps, DryRunSteps
  <1>3. ControlTypeOK'
    BY <1>1, <1>2 DEF TypeOK, ControlTypeOK, Start, Goto, Steps
  <1>4. GraphTypeOK' /\ RowsTypeOK' /\ ReportTypeOK'
    BY <1>2, UnchangedTypes DEF TypeOK, Start, localVars
  <1> QED
    BY <1>3, <1>4 DEF TypeOK

\* The first read, with clustering.
LEMMA ReadMentionsType ==
    ASSUME TypeOK, NEW j \in Jobs, ReadMentions(j)
    PROVE  TypeOK'
  <1> DEFINE read == FetchMentions(task[j].run)
  <1>1. task[j].run \in Runs
    BY DEF TypeOK, ControlTypeOK, Task
  <1>2. /\ IsPartialMap(read, MentionIds, Props)
        /\ IsPartialMap(ClusterRows(read), MentionIds, ClusterRow)
    BY <1>1, FetchedRowsType DEF TypeOK
  <1>3. /\ snap' = [snap EXCEPT ![j] = read]
        /\ \/ unresolvedRows' = unresolvedRows
           \/ unresolvedRows' = [unresolvedRows EXCEPT ![j] = ClusterRows(read)]
        /\ UNCHANGED << resolvedRows, alignmentRows >>
    BY DEF ReadMentions
  <1>4. RowsTypeOK'
    <2> HIDE DEF read
    <2> QED
      BY <1>2, <1>3 DEF TypeOK, RowsTypeOK
  <1>5. ControlTypeOK'
    <2>1. {"writeResolved", "readCanonicals"} \subseteq Steps
      BY DEF Steps, PassSteps
    <2> QED
      BY <2>1, GotoType DEF TypeOK, ReadMentions
  <1>6. GraphTypeOK' /\ ReportTypeOK'
    BY UnchangedTypes DEF TypeOK, ReadMentions
  <1> QED
    BY <1>4, <1>5, <1>6 DEF TypeOK

\* Hybrid alignment gives each found cluster a row for a fetched entity.
LEMMA AlignClustersType ==
    ASSUME TypeOK, NEW j \in Jobs, NEW S \in SUBSET Canonicals,
           NEW order \in RowOrders(S), AlignClusters(j, order, S), UNCHANGED snap
    PROVE  RowsTypeOK'
  <1> DEFINE run == task[j].run
             found == { RowCluster(run, unresolvedRows[j][i]) :
                          i \in DOMAIN unresolvedRows[j] }
             rows == [c \in { c \in found : Alignable(S, c.text) } |->
                        AlignedRow(order, S, c.text)]
  <1>1. run \in Runs
    BY DEF TypeOK, ControlTypeOK, Task
  <1>2. found \subseteq Cluster
    BY <1>1, RowClusterType DEF TypeOK, RowsTypeOK, IsPartialMap
  <1>3. IsPartialMap(rows, Cluster, AlignmentRow)
    <2>1. \A c \in DOMAIN rows : rows[c] \in AlignmentRow
      BY AlignedRowType
    <2> QED
      BY <1>2, <2>1 DEF IsPartialMap
  <1>4. /\ alignmentRows' = [alignmentRows EXCEPT ![j] = rows]
        /\ UNCHANGED << unresolvedRows, resolvedRows >>
    BY DEF AlignClusters
  <1> HIDE DEF rows
  <1> QED
    BY <1>3, <1>4 DEF TypeOK, RowsTypeOK

\* Anchoring puts each mention in one of the two row lists.
LEMMA ResolveMentionsType ==
    ASSUME TypeOK, NEW j \in Jobs, NEW S \in SUBSET Canonicals,
           NEW order \in RowOrders(S), ResolveMentions(j, order, S), UNCHANGED snap
    PROVE  RowsTypeOK'
  <1> DEFINE hits == { i \in DOMAIN snap[j] : Resolvable(S, snap[j][i].text) }
             resolved == [i \in hits |-> ResolvedTo(order, S, snap[j][i].text)]
             rest == [i \in (DOMAIN snap[j]) \ hits |-> UnresolvedRow(snap[j][i])]
  <1>1. DOMAIN snap[j] \subseteq MentionIds /\ \A i \in DOMAIN snap[j] : snap[j][i] \in Props
    BY DEF TypeOK, RowsTypeOK, IsPartialMap
  <1>2. IsPartialMap(resolved, MentionIds, ResolvedRow)
    <2>1. \A i \in hits : resolved[i] \in ResolvedRow
      BY ResolvedToType
    <2> QED
      BY <1>1, <2>1 DEF IsPartialMap
  <1>3. IsPartialMap(rest, MentionIds, ClusterRow)
    <2>1. \A i \in DOMAIN rest : rest[i] \in ClusterRow
      BY <1>1, UnresolvedRowType
    <2> QED
      BY <1>1, <2>1 DEF IsPartialMap
  <1>4. /\ resolvedRows' = [resolvedRows EXCEPT ![j] = resolved]
        /\ unresolvedRows' = [unresolvedRows EXCEPT ![j] = rest]
        /\ UNCHANGED alignmentRows
    BY DEF ResolveMentions, SplitMentions
  <1> HIDE DEF resolved, rest
  <1> QED
    BY <1>2, <1>3, <1>4 DEF TypeOK, RowsTypeOK

\* The second read.
LEMMA ReadCanonicalsType ==
    ASSUME TypeOK, NEW j \in Jobs, ReadCanonicals(j)
    PROVE  TypeOK'
  <1> DEFINE S == FetchCanonicals(task[j].dataset)
  <1>1. S \in SUBSET Canonicals
    BY DEF TypeOK, GraphTypeOK, FetchCanonicals
  <1>2. PICK order \in RowOrders(S) :
            AlignClusters(j, order, S) \/ ResolveMentions(j, order, S)
    BY DEF ReadCanonicals
  <1>3. RowsTypeOK'
    <2>1. UNCHANGED snap
      BY DEF ReadCanonicals
    <2> HIDE DEF S
    <2> QED
      BY <1>1, <1>2, <2>1, AlignClustersType, ResolveMentionsType
  <1>4. ControlTypeOK'
    <2>1. "writeResolved" \in Steps
      BY DEF Steps, PassSteps
    <2> QED
      BY <2>1, GotoType DEF TypeOK, ReadCanonicals
  <1>5. GraphTypeOK' /\ ReportTypeOK'
    BY UnchangedTypes DEF TypeOK, ReadCanonicals
  <1> QED
    BY <1>3, <1>4, <1>5 DEF TypeOK

\* The four writes.
LEMMA PersistType ==
    ASSUME TypeOK, NEW j \in Jobs,
           \/ PersistResolved(j) \/ PersistMemberships(j)
           \/ PersistCandidates(j) \/ PersistAlignments(j)
    PROVE  TypeOK'
  <1>1. /\ task[j].run \in Runs
        /\ IsPartialMap(unresolvedRows[j], MentionIds, ClusterRow)
        /\ IsPartialMap(resolvedRows[j], MentionIds, ResolvedRow)
        /\ IsPartialMap(alignmentRows[j], Cluster, AlignmentRow)
    BY DEF TypeOK, ControlTypeOK, RowsTypeOK, Task
  <1>2. GraphTypeOK'
    <2>1. CASE PersistResolved(j)
      BY <1>1, <2>1, WriteResolvedMentionsAdds DEF TypeOK, PersistResolved
    <2>2. CASE PersistMemberships(j)
      BY <1>1, <2>2, WriteClusterMembershipsAdds DEF TypeOK, PersistMemberships
    <2>3. CASE PersistCandidates(j)
      BY <1>1, <2>3, WriteCandidateMatchesAdds DEF TypeOK, PersistCandidates
    <2>4. CASE PersistAlignments(j)
      BY <1>1, <2>4, WriteAlignmentsAdds DEF TypeOK, PersistAlignments
    <2> QED
      BY <2>1, <2>2, <2>3, <2>4
  <1>3. UNCHANGED << task, localVars, fileVars, disturbed, used >>
    BY DEF PersistResolved, PersistMemberships, PersistCandidates, PersistAlignments
  <1>4. \E step \in Steps : Goto(j, step)
    <2>1. AfterResolved(j) \in Steps /\ AfterCandidates(j) \in Steps
          /\ {"writeCandidates", "countMembers"} \subseteq Steps
      BY DEF AfterResolved, AfterCandidates, Steps, PassSteps
    <2> QED
      BY <2>1 DEF PersistResolved, PersistMemberships, PersistCandidates, PersistAlignments
  <1>5. RowsTypeOK' /\ ReportTypeOK'
    BY <1>3, UnchangedTypes DEF TypeOK, localVars
  <1>6. ControlTypeOK'
    BY <1>3, <1>4, GotoType DEF TypeOK
  <1> QED
    BY <1>2, <1>5, <1>6 DEF TypeOK

\* The five counts.
LEMMA ReportType ==
    ASSUME TypeOK, NEW j \in Jobs,
           \/ CountMembers(j) \/ CountClusters(j) \/ CountAligned(j)
           \/ CountByMethod(j) \/ CountMentionsInAligned(j)
    PROVE  TypeOK'
  <1> DEFINE run == task[j].run
  <1>1. run \in Runs /\ coverage[j] \in Coverage
    BY DEF TypeOK, ControlTypeOK, ReportTypeOK, Task
  <1>2. \E counts \in Coverage, step \in Steps : Report(j, counts, step)
    <2>1. {"countClusters", "countAligned", "countByMethod", "countMentions",
           "saveUnresolved"} \subseteq Steps
      BY DEF Steps, PassSteps
    <2>2. CASE CountMembers(j)
      <3>1. [coverage[j] EXCEPT
               !.clustered = Cardinality(ClusteredMentions(run)),
               !.unclustered = Cardinality(RunMentions(run) \ ClusteredMentions(run))]
              \in Coverage
        BY <1>1, CountsType DEF TypeOK, Coverage
      <3> QED
        BY <2>1, <2>2, <3>1 DEF CountMembers, CountedMentions, AfterMembers
    <2>3. CASE CountClusters(j)
      <3>1. [coverage[j] EXCEPT !.total = Cardinality(RunClusters(run))] \in Coverage
        BY <1>1, CountsType DEF TypeOK, Coverage
      <3> QED
        BY <2>1, <2>3, <3>1 DEF CountClusters
    <2>4. CASE CountAligned(j)
      <3>1. [coverage[j] EXCEPT
               !.aligned = Cardinality(AlignedClusters(run)),
               !.entities = Cardinality(AlignedCanonicals(run))] \in Coverage
        BY <1>1, CountsType DEF TypeOK, Coverage
      <3> QED
        BY <2>1, <2>4, <3>1 DEF CountAligned
    <2>5. CASE CountByMethod(j)
      <3>1. [coverage[j] EXCEPT !.byMethod = AlignmentBreakdown(run)] \in Coverage
        BY <1>1, CountsType DEF TypeOK, Coverage
      <3> QED
        BY <2>1, <2>5, <3>1 DEF CountByMethod
    <2>6. CASE CountMentionsInAligned(j)
      <3>1. [coverage[j] EXCEPT !.inAligned = Cardinality(MentionsInAligned(run))]
              \in Coverage
        BY <1>1, CountsType DEF TypeOK, Coverage
      <3> QED
        BY <2>1, <2>6, <3>1 DEF CountMentionsInAligned
    <2> QED
      BY <2>2, <2>3, <2>4, <2>5, <2>6
  <1>3. PICK counts \in Coverage, step \in Steps : Report(j, counts, step)
    BY <1>2
  <1>4. ReportTypeOK'
    BY <1>3 DEF TypeOK, ReportTypeOK, Report, fileVars
  <1>5. ControlTypeOK'
    BY <1>3, GotoType DEF TypeOK, Report
  <1>6. GraphTypeOK' /\ RowsTypeOK'
    BY <1>3, UnchangedTypes DEF TypeOK, Report
  <1> QED
    BY <1>4, <1>5, <1>6 DEF TypeOK

\* Saving one file of a live pass or of a dry run leaves both files well formed.
LEMMA SummaryFileType ==
    ASSUME ReportTypeOK, NEW run \in Runs, NEW summary \in Summary,
           summaryFile' = Upsert(summaryFile, [r \in {run} |-> summary])
    PROVE  IsPartialMap(summaryFile', Runs, Summary)
  <1>1. IsPartialMap([r \in {run} |-> summary], Runs, Summary)
    BY DEF IsPartialMap
  <1> QED
    BY <1>1, UpsertType DEF ReportTypeOK

LEMMA UnresolvedFileType ==
    ASSUME ReportTypeOK, NEW run \in Runs, NEW file,
           IsPartialMap(file, MentionIds, Cluster),
           unresolvedFile' = Upsert(unresolvedFile, [r \in {run} |-> file])
    PROVE  /\ DOMAIN unresolvedFile' \subseteq Runs
           /\ \A r \in DOMAIN unresolvedFile' :
                IsPartialMap(unresolvedFile'[r], MentionIds, Cluster)
  BY DEF ReportTypeOK, Upsert

\* The artifacts of a live pass.
LEMMA SaveLiveType ==
    ASSUME TypeOK, NEW j \in Jobs, SaveUnresolved(j) \/ SaveSummary(j)
    PROVE  TypeOK'
  <1> DEFINE run == task[j].run
  <1>1. run \in Runs
    BY DEF TypeOK, ControlTypeOK, Task
  <1>2. CASE SaveUnresolved(j)
    <2> DEFINE file == [i \in DOMAIN unresolvedRows[j] |->
                          RowCluster(run, unresolvedRows[j][i])]
    <2>1. IsPartialMap(file, MentionIds, Cluster)
      BY <1>1, RowClusterType DEF TypeOK, RowsTypeOK, IsPartialMap
    <2>2. /\ unresolvedFile' = Upsert(unresolvedFile, [r \in {run} |-> file])
          /\ UNCHANGED << summaryFile, coverage >>
      BY <1>2 DEF SaveUnresolved, localVars
    <2>3. ReportTypeOK'
      <3> HIDE DEF file
      <3> QED
        BY <1>1, <2>1, <2>2, UnresolvedFileType DEF TypeOK, ReportTypeOK
    <2>4. ControlTypeOK'
      BY <1>2, GotoType DEF TypeOK, SaveUnresolved, Steps, PassSteps
    <2>5. GraphTypeOK' /\ RowsTypeOK'
      BY <1>2, UnchangedTypes DEF TypeOK, SaveUnresolved, localVars
    <2> QED
      BY <2>3, <2>4, <2>5 DEF TypeOK
  <1>3. CASE SaveSummary(j)
    <2>1. LiveSummary(j) \in Summary
      BY LiveSummaryType DEF TypeOK, ReportTypeOK
    <2>2. IsPartialMap(summaryFile', Runs, Summary)
      BY <1>1, <1>3, <2>1, SummaryFileType DEF TypeOK, SaveSummary
    <2> QED
      BY <1>3, <2>2, ForgetType, UnchangedTypes
         DEF TypeOK, ReportTypeOK, ControlTypeOK, SaveSummary, Steps
  <1> QED
    BY <1>2, <1>3

\* The artifacts of a dry run.
LEMMA SaveDryType ==
    ASSUME TypeOK, NEW j \in Jobs, SaveDrySummary(j) \/ SaveDryUnresolved(j)
    PROVE  TypeOK'
  <1>1. task[j].run \in Runs /\ task[j].mode \in Modes
    BY DEF TypeOK, ControlTypeOK, Task
  <1>2. CASE SaveDrySummary(j)
    <2>1. DrySummary(task[j].mode) \in Summary
      BY <1>1 DEF DrySummary, NoCoverage, Coverage, Summary
    <2>2. IsPartialMap(summaryFile', Runs, Summary)
      BY <1>1, <1>2, <2>1, SummaryFileType DEF TypeOK, SaveDrySummary
    <2>3. ReportTypeOK'
      BY <1>2, <2>2 DEF TypeOK, ReportTypeOK, SaveDrySummary, localVars
    <2>4. ControlTypeOK'
      BY <1>2, GotoType DEF TypeOK, SaveDrySummary, Steps, DryRunSteps
    <2>5. GraphTypeOK' /\ RowsTypeOK'
      BY <1>2, UnchangedTypes DEF TypeOK, SaveDrySummary, localVars
    <2> QED
      BY <2>3, <2>4, <2>5 DEF TypeOK
  <1>3. CASE SaveDryUnresolved(j)
    <2>1. IsPartialMap(NoRows, MentionIds, Cluster)
      BY NoRowsType
    <2>2. unresolvedFile' = Upsert(unresolvedFile, [r \in {task[j].run} |-> NoRows])
      BY <1>3 DEF SaveDryUnresolved
    <2>3. /\ DOMAIN unresolvedFile' \subseteq Runs
          /\ \A r \in DOMAIN unresolvedFile' :
               IsPartialMap(unresolvedFile'[r], MentionIds, Cluster)
      BY <1>1, <2>1, <2>2, UnresolvedFileType DEF TypeOK
    <2> QED
      BY <1>3, <2>3, ForgetType, UnchangedTypes
         DEF TypeOK, ReportTypeOK, ControlTypeOK, SaveDryUnresolved, Steps
  <1> QED
    BY <1>2, <1>3

\* A crash.
LEMMA CrashType ==
    ASSUME TypeOK, NEW j \in Jobs, Crash(j)
    PROVE  TypeOK'
  <1>1. used' \in Budget
    BY SpendType DEF TypeOK, ControlTypeOK, Crash
  <1> QED
    BY <1>1, ForgetType, UnchangedTypes
       DEF TypeOK, ReportTypeOK, ControlTypeOK, Crash, fileVars, Steps

\* The other stages.
LEMMA EnvironmentType ==
    ASSUME TypeOK, Environment
    PROVE  TypeOK'
  <1>1. CASE \E run \in Runs, rows \in Snapshots : Extract(run, rows)
    <2>1. PICK run \in Runs, rows \in Snapshots : Extract(run, rows)
      BY <1>1
    <2>2. IsPartialMap(rows, MentionIds, Props)
      BY DEF Snapshots, IsPartialMap
    <2>3. GraphTypeOK'
      BY <2>1, <2>2, UpsertMentionsAdds DEF TypeOK, Extract
    <2>4. used' \in Budget
      BY <2>1, SpendType DEF TypeOK, ControlTypeOK, Extract
    <2>5. ControlTypeOK'
      BY <2>1, <2>4 DEF TypeOK, ControlTypeOK, Extract, Disturb, Active
    <2>6. RowsTypeOK' /\ ReportTypeOK'
      BY <2>1, UnchangedTypes DEF TypeOK, Extract, localVars
    <2> QED
      BY <2>3, <2>5, <2>6 DEF TypeOK
  <1>2. CASE \E run \in StructuredRuns : IngestStructured(run)
    <2>1. PICK run \in StructuredRuns : IngestStructured(run)
      BY <1>2
    <2>2. GraphTypeOK'
      BY <2>1, UpsertCanonicalsType DEF TypeOK, IngestStructured
    <2>3. used' \in Budget
      BY <2>1, SpendType DEF TypeOK, ControlTypeOK, IngestStructured
    <2>4. ControlTypeOK'
      BY <2>1, <2>3 DEF TypeOK, ControlTypeOK, IngestStructured
    <2>5. RowsTypeOK' /\ ReportTypeOK'
      BY <2>1, UnchangedTypes DEF TypeOK, IngestStructured, localVars
    <2> QED
      BY <2>2, <2>4, <2>5 DEF TypeOK
  <1>3. CASE Reset
    <2>1. used' \in Budget
      BY <1>3, SpendType DEF TypeOK, ControlTypeOK, Reset
    <2>2. GraphTypeOK'
      BY <1>3, EmptyGraphType DEF Reset
    <2>3. ControlTypeOK'
      BY <1>3, <2>1 DEF TypeOK, ControlTypeOK, Reset, Active
    <2>4. RowsTypeOK' /\ ReportTypeOK'
      BY <1>3, UnchangedTypes DEF TypeOK, Reset, localVars
    <2> QED
      BY <2>2, <2>3, <2>4 DEF TypeOK
  <1> QED
    BY <1>1, <1>2, <1>3 DEF Environment

-----------------------------------------------------------------------------
\* Initially no job is under way and nothing is stored.
LEMMA InitType == Init => TypeOK
  <1> SUFFICES ASSUME Init PROVE TypeOK
    OBVIOUS
  <1>1. GraphTypeOK
    BY EmptyGraphType DEF Init
  <1>2. ControlTypeOK
    BY NoTaskType DEF Init, ControlTypeOK, Budget
  <1>3. RowsTypeOK
    BY NoRowsType DEF Init, RowsTypeOK
  <1>4. ReportTypeOK
    <2>1. NoCoverage \in Coverage
      BY DEF NoCoverage, Coverage
    <2>2. IsPartialMap(summaryFile, Runs, Summary)
      BY NoRowsType DEF Init
    <2>3. DOMAIN unresolvedFile = {}
      BY DEF Init, NoRows
    <2> QED
      BY <2>1, <2>2, <2>3 DEF Init, ReportTypeOK
  <1> QED
    BY <1>1, <1>2, <1>3, <1>4 DEF TypeOK

\* Whatever a step does, every variable keeps its type.
LEMMA StepType == TypeOK /\ [Next]_vars => TypeOK'
  <1> SUFFICES ASSUME TypeOK, [Next]_vars PROVE TypeOK'
    OBVIOUS
  <1>1. ASSUME NEW j \in Jobs, StartPass(j) \/ StartDryRun(j) \/ JobStep(j) \/ Crash(j)
        PROVE  TypeOK'
    BY <1>1, StartType, ReadMentionsType, ReadCanonicalsType, PersistType,
       ReportType, SaveLiveType, SaveDryType, CrashType DEF JobStep
  <1>2. CASE Environment
    BY <1>2, EnvironmentType
  <1>3. CASE UNCHANGED vars
    BY <1>3, UnchangedTypes
       DEF TypeOK, ControlTypeOK, vars, localVars
  <1> QED
    BY <1>1, <1>2, <1>3 DEF Next

\* For any runs, mentions, entities, number of jobs and bounds, every variable
\* keeps its type, and no edge of the graph ever lacks one of its two nodes.
THEOREM TypeCorrect == Spec => []TypeOK
  BY InitType, StepType, PTL DEF Spec

-----------------------------------------------------------------------------
(* Memory and graph. *)

\* A job has its mentions, its rows; has written its resolutions, ...
HasRead(j)           == pc[j] \in PassSteps \ {"readMentions"}
HasRows(j)           == pc[j] \in PassSteps \ {"readMentions", "readCanonicals"}
ResolvedWritten(j)   == pc[j] \in PassSteps \ {"readMentions", "readCanonicals",
                                              "writeResolved"}
MembersWritten(j)    == Written(j) \/ pc[j] \in {"writeCandidates", "writeAlignments"}
CandidatesWritten(j) == Written(j) \/ pc[j] = "writeAlignments"

RowEdge(j, i) ==
    << <<task[j].run, i>>, RowCluster(task[j].run, unresolvedRows[j][i]) >>

Justified(text, entity, method) ==
    \/ method = "label_exact" /\ text = entity.label
    \/ method = "alias_exact" /\ text \in entity.aliases

\* Every mention read has a row, every cluster to align is that of a row, and
\* every alignment is justified.
MemoryInv(j) ==
    /\ ~HasRead(j) => /\ unresolvedRows[j] = NoRows
                      /\ resolvedRows[j] = NoRows
                      /\ alignmentRows[j] = NoRows
    /\ task[j].mode # "hybrid" => alignmentRows[j] = NoRows
    /\ pc[j] = "readCanonicals" => task[j].mode # "unstructured_only"
    /\ DOMAIN unresolvedRows[j] \subseteq DOMAIN snap[j]
    /\ DOMAIN resolvedRows[j] \subseteq DOMAIN snap[j]
    /\ HasRead(j) /\ task[j].mode # "structured_anchor" =>
         DOMAIN snap[j] \subseteq DOMAIN unresolvedRows[j]
    /\ HasRows(j) =>
         DOMAIN snap[j] \subseteq DOMAIN unresolvedRows[j] \cup DOMAIN resolvedRows[j]
    /\ \A c \in DOMAIN alignmentRows[j] :
         /\ \E i \in DOMAIN unresolvedRows[j] :
               c = RowCluster(task[j].run, unresolvedRows[j][i])
         /\ Justified(c.text, Entity[alignmentRows[j][c].canonical],
                      alignmentRows[j][c].method)

\* The job's mentions and entities are in the graph, and so is what its past
\* steps were to write.
GraphInv(j) ==
    HasRead(j) /\ ~disturbed[j] =>
        /\ \A i \in MentionIds :
             i \in DOMAIN snap[j] <=> <<task[j].run, i>> \in DOMAIN mentions
        /\ \A i \in DOMAIN resolvedRows[j] : resolvedRows[j][i].canonical \in canonicals
        /\ \A c \in DOMAIN alignmentRows[j] : alignmentRows[j][c].canonical \in canonicals
        /\ ResolvedWritten(j) => \A i \in DOMAIN resolvedRows[j] :
             << <<task[j].run, i>>, resolvedRows[j][i].canonical >> \in DOMAIN resolvesTo
        /\ MembersWritten(j) => \A i \in DOMAIN unresolvedRows[j] :
             RowEdge(j, i) \in DOMAIN memberOf
        /\ CandidatesWritten(j) => \A i \in DOMAIN unresolvedRows[j] :
             NeedsReview(unresolvedRows[j][i]) => RowEdge(j, i) \in DOMAIN candidateMatch
        /\ Written(j) => \A c \in DOMAIN alignmentRows[j] :
             <<c, alignmentRows[j][c].canonical, task[j].run>> \in DOMAIN alignedWith

PassInv == TypeOK /\ \A j \in Jobs : MemoryInv(j) /\ GraphInv(j)

-----------------------------------------------------------------------------
(* Steps that leave a job alone.                                           *)

\* A step of others: job j is where it was and remembers what it did.
JobKept(j) ==
    /\ pc'[j] = pc[j]
    /\ task'[j] = task[j]
    /\ snap'[j] = snap[j]
    /\ unresolvedRows'[j] = unresolvedRows[j]
    /\ resolvedRows'[j] = resolvedRows[j]
    /\ alignmentRows'[j] = alignmentRows[j]

\* No node or edge goes, and the mentions of a run stay as they are.
GraphGrows ==
    /\ clusters \subseteq clusters'
    /\ canonicals \subseteq canonicals'
    /\ DOMAIN memberOf \subseteq DOMAIN memberOf'
    /\ DOMAIN candidateMatch \subseteq DOMAIN candidateMatch'
    /\ DOMAIN resolvesTo \subseteq DOMAIN resolvesTo'
    /\ DOMAIN alignedWith \subseteq DOMAIN alignedWith'
MentionsKept(run) ==
    \A i \in MentionIds : <<run, i>> \in DOMAIN mentions' <=> <<run, i>> \in DOMAIN mentions

\* What a job remembers does not depend on others.
LEMMA MemoryKept ==
    ASSUME NEW j \in Jobs, MemoryInv(j), JobKept(j)
    PROVE  MemoryInv(j)'
  BY DEF MemoryInv, JobKept, HasRead, HasRows, Justified

\* A graph that grows keeps agreeing with an undisturbed job.
LEMMA GraphKept ==
    ASSUME NEW j \in Jobs, GraphInv(j), JobKept(j),
           disturbed'[j] \/ (~disturbed[j] /\ GraphGrows /\ MentionsKept(task[j].run))
    PROVE  GraphInv(j)'
  <1> SUFFICES ASSUME HasRead(j)', ~disturbed'[j]
               PROVE  GraphInv(j)'
    BY DEF GraphInv
  <1>1. HasRead(j) /\ ~disturbed[j] /\ GraphGrows /\ MentionsKept(task[j].run)
    BY DEF HasRead, JobKept
  <1> QED
    BY <1>1 DEF GraphInv, JobKept, HasRead, ResolvedWritten, MembersWritten,
                CandidatesWritten, Written, RowEdge, GraphGrows, MentionsKept

\* A step of one job that leaves the others' disturbances alone.
LEMMA OthersKept ==
    ASSUME PassInv, NEW j \in Jobs, NEW k \in Jobs, JobKept(k),
           disturbed'[k] = disturbed[k], GraphGrows, UNCHANGED mentions
    PROVE  MemoryInv(k)' /\ GraphInv(k)'
  <1>1. MentionsKept(task[k].run)
    BY DEF MentionsKept
  <1>2. disturbed[k] \in BOOLEAN
    BY DEF PassInv, TypeOK, ControlTypeOK
  <1>3. disturbed'[k] \/ (~disturbed[k] /\ GraphGrows /\ MentionsKept(task[k].run))
    BY <1>1, <1>2
  <1> QED
    BY <1>3, MemoryKept, GraphKept DEF PassInv

-----------------------------------------------------------------------------
(* The job's own steps.                                                    *)

\* Starting a job: it has read nothing.
LEMMA StartInv ==
    ASSUME PassInv, NEW j \in Jobs, StartPass(j) \/ StartDryRun(j)
    PROVE  \A k \in Jobs : MemoryInv(k)' /\ GraphInv(k)'
  <1> TAKE k \in Jobs
  <1>1. PICK step \in {"readMentions", "saveDrySummary"} : Start(j, step)
    BY DEF StartPass, StartDryRun
  <1>2. CASE k # j
    <2>1. JobKept(k) /\ disturbed'[k] = disturbed[k] /\ GraphGrows /\ UNCHANGED mentions
      BY <1>1, <1>2 DEF Start, Goto, JobKept, GraphGrows, graphVars, localVars,
                        PassInv, TypeOK, ControlTypeOK
    <2> QED
      BY <2>1, OthersKept
  <1>3. CASE k = j
    <2>1. ~HasRead(j) /\ pc'[j] = step
      BY <1>1 DEF Start, Active, Goto, HasRead, PassSteps, PassInv, TypeOK, ControlTypeOK
    <2>2. ~HasRead(j)' /\ ~HasRows(j)' /\ pc'[j] # "readCanonicals"
      BY <2>1 DEF HasRead, HasRows, PassSteps
    <2>3. /\ unresolvedRows'[j] = NoRows
          /\ resolvedRows'[j] = NoRows
          /\ alignmentRows'[j] = NoRows
      BY <1>1, <2>1 DEF Start, localVars, PassInv, MemoryInv
    <2>4. DOMAIN NoRows = {}
      BY DEF NoRows
    <2> QED
      BY <1>3, <2>2, <2>3, <2>4 DEF MemoryInv, GraphInv
  <1> QED
    BY <1>2, <1>3

\* Ending a job: it remembers nothing.
LEMMA ForgetInv ==
    ASSUME PassInv, NEW j \in Jobs, Forget(j), UNCHANGED graphVars
    PROVE  \A k \in Jobs : MemoryInv(k)' /\ GraphInv(k)'
  <1> TAKE k \in Jobs
  <1>1. CASE k # j
    <2>1. JobKept(k) /\ disturbed'[k] = disturbed[k] /\ GraphGrows /\ UNCHANGED mentions
      BY <1>1 DEF Forget, Goto, JobKept, GraphGrows, graphVars,
                  PassInv, TypeOK, ControlTypeOK, RowsTypeOK
    <2> QED
      BY <2>1, OthersKept
  <1>2. CASE k = j
    <2>1. pc'[j] = "idle"
      BY DEF Forget, Goto, PassInv, TypeOK, ControlTypeOK
    <2>2. ~HasRead(j)' /\ ~HasRows(j)' /\ pc'[j] # "readCanonicals"
      BY <2>1 DEF HasRead, HasRows, PassSteps
    <2>3. /\ unresolvedRows'[j] = NoRows
          /\ resolvedRows'[j] = NoRows
          /\ alignmentRows'[j] = NoRows
      BY DEF Forget, PassInv, TypeOK, RowsTypeOK
    <2>4. DOMAIN NoRows = {}
      BY DEF NoRows
    <2> QED
      BY <1>2, <2>2, <2>3, <2>4 DEF MemoryInv, GraphInv
  <1> QED
    BY <1>1, <1>2

\* The first read: the mentions of the run, and a row for each if the pass
\* clusters.
LEMMA ReadMentionsInv ==
    ASSUME PassInv, NEW j \in Jobs, ReadMentions(j)
    PROVE  \A k \in Jobs : MemoryInv(k)' /\ GraphInv(k)'
  <1> TAKE k \in Jobs
  <1> DEFINE run == task[j].run
             read == FetchMentions(run)
             next == IF task[j].mode = "unstructured_only" THEN "writeResolved"
                                                          ELSE "readCanonicals"
  <1>1. CASE k # j
    <2>1. JobKept(k) /\ disturbed'[k] = disturbed[k] /\ GraphGrows /\ UNCHANGED mentions
      BY <1>1 DEF ReadMentions, Goto, JobKept, GraphGrows, graphVars,
                  PassInv, TypeOK, ControlTypeOK, RowsTypeOK
    <2> QED
      BY <2>1, OthersKept
  <1>2. CASE k = j
    <2>1. /\ pc[j] = "readMentions"
          /\ pc' = [pc EXCEPT ![j] = next]
          /\ snap' = [snap EXCEPT ![j] = read]
          /\ UNCHANGED << mentions, canonicals, task, resolvedRows, alignmentRows, disturbed >>
      BY DEF ReadMentions, Goto, graphVars
    <2>2. run \in Runs /\ pc'[j] = next /\ snap'[j] = read
      BY <2>1 DEF PassInv, TypeOK, ControlTypeOK, RowsTypeOK, Task
    <2>3. ~HasRead(j) /\ HasRead(j)'
      BY <2>1, <2>2 DEF HasRead, PassSteps
    <2>4. /\ unresolvedRows[j] = NoRows
          /\ resolvedRows'[j] = NoRows
          /\ alignmentRows'[j] = NoRows
          /\ DOMAIN NoRows = {}
      BY <2>1, <2>3 DEF PassInv, MemoryInv, NoRows
    <2>5. /\ DOMAIN unresolvedRows'[j] \subseteq DOMAIN read
          /\ task[j].mode # "structured_anchor" => DOMAIN unresolvedRows'[j] = DOMAIN read
      <3>1. DOMAIN ClusterRows(read) = DOMAIN read
        BY <2>2, FetchedRowsType DEF PassInv, TypeOK
      <3>2. IF task[j].mode = "structured_anchor"
            THEN UNCHANGED unresolvedRows
            ELSE unresolvedRows' = [unresolvedRows EXCEPT ![j] = ClusterRows(read)]
        BY DEF ReadMentions
      <3> HIDE DEF read
      <3> QED
        BY <2>4, <3>1, <3>2 DEF PassInv, TypeOK, RowsTypeOK
    <2>6. HasRows(j)' => task[j].mode = "unstructured_only"
      BY <2>2 DEF HasRows
    <2>7. MemoryInv(j)'
      <3>1. task'[j] = task[j]
        BY <2>1
      <3>2. pc'[j] = "readCanonicals" => task[j].mode # "unstructured_only"
        BY <2>2
      <3> HIDE DEF read, next
      <3> QED
        BY <2>2, <2>3, <2>4, <2>5, <2>6, <3>1, <3>2 DEF MemoryInv
    <2>8. GraphInv(j)'
      <3>1. \A i \in MentionIds : i \in DOMAIN read <=> <<run, i>> \in DOMAIN mentions
        BY DEF FetchMentions
      <3>2. ~ResolvedWritten(j)' /\ ~MembersWritten(j)' /\ ~CandidatesWritten(j)' /\ ~Written(j)'
        BY <2>2 DEF ResolvedWritten, MembersWritten, CandidatesWritten, Written
      <3> HIDE DEF read, next
      <3> QED
        BY <2>1, <2>2, <2>4, <3>1, <3>2 DEF GraphInv
    <2> QED
      BY <1>2, <2>7, <2>8
  <1> QED
    BY <1>1, <1>2

\* Hybrid alignment: each row is for a cluster of the job and an entity that is
\* there, and its method is justified.
LEMMA AlignClustersRows ==
    ASSUME PassInv, NEW j \in Jobs, NEW S \in SUBSET Canonicals,
           NEW order \in RowOrders(S), AlignClusters(j, order, S)
    PROVE  /\ \A c \in DOMAIN alignmentRows'[j] :
                /\ \E i \in DOMAIN unresolvedRows[j] :
                      c = RowCluster(task[j].run, unresolvedRows[j][i])
                /\ alignmentRows'[j][c].canonical \in S
                /\ Justified(c.text, Entity[alignmentRows'[j][c].canonical],
                             alignmentRows'[j][c].method)
           /\ \A k \in Jobs \ {j} : alignmentRows'[k] = alignmentRows[k]
           /\ UNCHANGED << unresolvedRows, resolvedRows >>
  <1> DEFINE found == { RowCluster(task[j].run, unresolvedRows[j][i]) :
                          i \in DOMAIN unresolvedRows[j] }
             rows == [c \in { c \in found : Alignable(S, c.text) } |->
                        AlignedRow(order, S, c.text)]
  <1>1. /\ alignmentRows' = [alignmentRows EXCEPT ![j] = rows]
        /\ UNCHANGED << unresolvedRows, resolvedRows >>
    BY DEF AlignClusters
  <1>2. \A c \in DOMAIN rows :
          /\ \E i \in DOMAIN unresolvedRows[j] :
                c = RowCluster(task[j].run, unresolvedRows[j][i])
          /\ rows[c].canonical \in S
          /\ Justified(c.text, Entity[rows[c].canonical], rows[c].method)
    BY AlignedRowType DEF Justified
  <1>3. DOMAIN alignmentRows = Jobs
    BY DEF PassInv, TypeOK, RowsTypeOK
  <1> HIDE DEF rows
  <1> QED
    BY <1>1, <1>2, <1>3

\* Anchoring: each mention has a row, in one of the two lists, and each
\* resolution is to an entity that is there.
LEMMA ResolveMentionsRows ==
    ASSUME PassInv, NEW j \in Jobs, NEW S \in SUBSET Canonicals,
           NEW order \in RowOrders(S), ResolveMentions(j, order, S)
    PROVE  /\ DOMAIN unresolvedRows'[j] \subseteq DOMAIN snap[j]
           /\ DOMAIN resolvedRows'[j] \subseteq DOMAIN snap[j]
           /\ DOMAIN snap[j] \subseteq DOMAIN unresolvedRows'[j] \cup DOMAIN resolvedRows'[j]
           /\ \A i \in DOMAIN resolvedRows'[j] : resolvedRows'[j][i].canonical \in S
           /\ \A k \in Jobs \ {j} : /\ unresolvedRows'[k] = unresolvedRows[k]
                                    /\ resolvedRows'[k] = resolvedRows[k]
           /\ UNCHANGED alignmentRows
  <1> DEFINE hits == { i \in DOMAIN snap[j] : Resolvable(S, snap[j][i].text) }
             resolved == [i \in hits |-> ResolvedTo(order, S, snap[j][i].text)]
             rest == [i \in (DOMAIN snap[j]) \ hits |-> UnresolvedRow(snap[j][i])]
  <1>1. /\ resolvedRows' = [resolvedRows EXCEPT ![j] = resolved]
        /\ unresolvedRows' = [unresolvedRows EXCEPT ![j] = rest]
        /\ UNCHANGED alignmentRows
    BY DEF ResolveMentions, SplitMentions
  <1>2. /\ DOMAIN resolved = hits
        /\ DOMAIN rest = (DOMAIN snap[j]) \ hits
        /\ hits \subseteq DOMAIN snap[j]
    OBVIOUS
  <1>3. \A i \in DOMAIN resolved : resolved[i].canonical \in S
    BY ResolvedToType
  <1>4. DOMAIN unresolvedRows = Jobs /\ DOMAIN resolvedRows = Jobs
    BY DEF PassInv, TypeOK, RowsTypeOK
  <1> HIDE DEF resolved, rest, hits
  <1> QED
    BY <1>1, <1>2, <1>3, <1>4

\* The second read.
LEMMA ReadCanonicalsInv ==
    ASSUME PassInv, NEW j \in Jobs, ReadCanonicals(j)
    PROVE  \A k \in Jobs : MemoryInv(k)' /\ GraphInv(k)'
  <1> DEFINE S == FetchCanonicals(task[j].dataset)
  <1>1. S \in SUBSET Canonicals /\ S \subseteq canonicals
    BY DEF PassInv, TypeOK, GraphTypeOK, FetchCanonicals
  <1>2. PICK order \in RowOrders(S) :
            IF task[j].mode = "hybrid" THEN AlignClusters(j, order, S)
                                       ELSE ResolveMentions(j, order, S)
    BY DEF ReadCanonicals
  <1>3. /\ pc[j] = "readCanonicals"
        /\ pc' = [pc EXCEPT ![j] = "writeResolved"]
        /\ UNCHANGED << graphVars, task, snap, disturbed >>
    BY DEF ReadCanonicals, Goto
  <1>4. DOMAIN pc = Jobs /\ DOMAIN task = Jobs
    BY DEF PassInv, TypeOK, ControlTypeOK
  <1>5. UNCHANGED << mentions, canonicals >> /\ GraphGrows
    BY <1>3 DEF graphVars, GraphGrows
  <1> HIDE DEF S
  <1> TAKE k \in Jobs
  <1>6. CASE k # j
    <2>1. JobKept(k) /\ disturbed'[k] = disturbed[k]
      BY <1>1, <1>2, <1>3, <1>4, <1>6, AlignClustersRows, ResolveMentionsRows DEF JobKept
    <2> QED
      BY <1>5, <2>1, OthersKept
  <1>7. CASE k = j
    <2>1. /\ pc'[j] = "writeResolved" /\ task'[j] = task[j] /\ snap'[j] = snap[j]
          /\ HasRead(j) /\ HasRead(j)' /\ HasRows(j)'
      BY <1>3, <1>4 DEF HasRead, HasRows, PassSteps
    <2>2. ~ResolvedWritten(j)' /\ ~MembersWritten(j)' /\ ~CandidatesWritten(j)' /\ ~Written(j)'
      BY <2>1 DEF ResolvedWritten, MembersWritten, CandidatesWritten, Written
    <2>3. /\ task[j].mode # "unstructured_only"
          /\ task[j].mode # "hybrid" => alignmentRows[j] = NoRows
          /\ DOMAIN unresolvedRows[j] \subseteq DOMAIN snap[j]
          /\ DOMAIN resolvedRows[j] \subseteq DOMAIN snap[j]
          /\ task[j].mode # "structured_anchor" =>
                DOMAIN snap[j] \subseteq DOMAIN unresolvedRows[j]
      BY <1>3, <2>1 DEF PassInv, MemoryInv
    <2>4. task[j].mode \in {"hybrid", "structured_anchor"}
      BY <2>3 DEF PassInv, TypeOK, ControlTypeOK, Task, Modes
    <2>5. ~disturbed'[j] =>
            /\ \A i \in MentionIds :
                  i \in DOMAIN snap'[j] <=> <<task'[j].run, i>> \in DOMAIN mentions'
            /\ \A i \in DOMAIN resolvedRows[j] : resolvedRows[j][i].canonical \in canonicals
      BY <1>3, <1>5, <2>1 DEF PassInv, GraphInv
    <2>6. CASE task[j].mode = "hybrid"
      <3>1. /\ unresolvedRows'[j] = unresolvedRows[j]
            /\ resolvedRows'[j] = resolvedRows[j]
            /\ \A c \in DOMAIN alignmentRows'[j] :
                  /\ \E i \in DOMAIN unresolvedRows[j] :
                        c = RowCluster(task[j].run, unresolvedRows[j][i])
                  /\ alignmentRows'[j][c].canonical \in S
                  /\ Justified(c.text, Entity[alignmentRows'[j][c].canonical],
                               alignmentRows'[j][c].method)
        BY <1>1, <1>2, <2>6, AlignClustersRows
      <3>2. MemoryInv(j)'
        BY <2>1, <2>3, <2>6, <3>1 DEF MemoryInv, Justified
      <3>3. GraphInv(j)'
        BY <1>1, <1>5, <2>2, <2>5, <3>1 DEF GraphInv
      <3> QED
        BY <1>7, <3>2, <3>3
    <2>7. CASE task[j].mode = "structured_anchor"
      <3>1. /\ DOMAIN unresolvedRows'[j] \subseteq DOMAIN snap[j]
            /\ DOMAIN resolvedRows'[j] \subseteq DOMAIN snap[j]
            /\ DOMAIN snap[j] \subseteq
                  DOMAIN unresolvedRows'[j] \cup DOMAIN resolvedRows'[j]
            /\ \A i \in DOMAIN resolvedRows'[j] : resolvedRows'[j][i].canonical \in S
            /\ alignmentRows'[j] = alignmentRows[j]
        BY <1>1, <1>2, <2>7, ResolveMentionsRows
      <3>2. alignmentRows'[j] = NoRows /\ DOMAIN NoRows = {}
        BY <2>3, <2>7, <3>1 DEF NoRows
      <3>3. MemoryInv(j)'
        BY <2>1, <2>7, <3>1, <3>2 DEF MemoryInv
      <3>4. GraphInv(j)'
        BY <1>1, <1>5, <2>2, <2>5, <3>1, <3>2 DEF GraphInv
      <3> QED
        BY <1>7, <3>3, <3>4
    <2> QED
      BY <2>4, <2>6, <2>7
  <1> QED
    BY <1>6, <1>7

\* A step after the reads moves the job on and leaves its memory alone: it only
\* remains to show that the graph has what the step was to write.
LEMMA AdvanceInv ==
    ASSUME PassInv, NEW j \in Jobs, NEW step, HasRows(j), Goto(j, step),
           step \in PassSteps \ {"readMentions", "readCanonicals"},
           UNCHANGED << mentions, task, snap, unresolvedRows, resolvedRows,
                        alignmentRows, disturbed >>,
           GraphGrows,
           ~disturbed[j] =>
             /\ ResolvedWritten(j)' => \A i \in DOMAIN resolvedRows[j] :
                  << <<task[j].run, i>>, resolvedRows[j][i].canonical >> \in DOMAIN resolvesTo'
             /\ MembersWritten(j)' => \A i \in DOMAIN unresolvedRows[j] :
                  RowEdge(j, i) \in DOMAIN memberOf'
             /\ CandidatesWritten(j)' => \A i \in DOMAIN unresolvedRows[j] :
                  NeedsReview(unresolvedRows[j][i]) =>
                      RowEdge(j, i) \in DOMAIN candidateMatch'
             /\ Written(j)' => \A c \in DOMAIN alignmentRows[j] :
                  <<c, alignmentRows[j][c].canonical, task[j].run>> \in DOMAIN alignedWith'
    PROVE  \A k \in Jobs : MemoryInv(k)' /\ GraphInv(k)'
  <1> TAKE k \in Jobs
  <1>1. DOMAIN pc = Jobs
    BY DEF PassInv, TypeOK, ControlTypeOK
  <1>2. CASE k # j
    <2>1. JobKept(k) /\ disturbed'[k] = disturbed[k]
      BY <1>1, <1>2 DEF Goto, JobKept
    <2> QED
      BY <2>1, OthersKept
  <1>3. CASE k = j
    <2>1. pc'[j] = step /\ HasRead(j) /\ HasRead(j)' /\ HasRows(j)'
      BY <1>1 DEF Goto, HasRead, HasRows
    <2>2. MemoryInv(j)'
      BY <2>1 DEF PassInv, MemoryInv, Justified
    <2>3. ~disturbed'[j] =>
            /\ \A i \in MentionIds :
                  i \in DOMAIN snap'[j] <=> <<task'[j].run, i>> \in DOMAIN mentions'
            /\ \A i \in DOMAIN resolvedRows'[j] : resolvedRows'[j][i].canonical \in canonicals'
            /\ \A c \in DOMAIN alignmentRows'[j] : alignmentRows'[j][c].canonical \in canonicals'
      BY <2>1 DEF PassInv, GraphInv, GraphGrows
    <2>4. GraphInv(j)'
      BY <2>3 DEF GraphInv, RowEdge
    <2> QED
      BY <1>3, <2>2, <2>4
  <1> QED
    BY <1>2, <1>3

\* What is known of a job's rows when it writes.
LEMMA RowsKnown ==
    ASSUME PassInv, NEW j \in Jobs, HasRows(j)
    PROVE  /\ task[j].run \in Runs
           /\ IsPartialMap(unresolvedRows[j], MentionIds, ClusterRow)
           /\ IsPartialMap(resolvedRows[j], MentionIds, ResolvedRow)
           /\ IsPartialMap(alignmentRows[j], Cluster, AlignmentRow)
           /\ ~disturbed[j] =>
                /\ \A i \in DOMAIN unresolvedRows[j] : <<task[j].run, i>> \in DOMAIN mentions
                /\ \A i \in DOMAIN resolvedRows[j] :
                     /\ <<task[j].run, i>> \in DOMAIN mentions
                     /\ resolvedRows[j][i].canonical \in canonicals
                /\ \A c \in DOMAIN alignmentRows[j] :
                     alignmentRows[j][c].canonical \in canonicals
  <1>1. /\ task[j].run \in Runs
        /\ IsPartialMap(unresolvedRows[j], MentionIds, ClusterRow)
        /\ IsPartialMap(resolvedRows[j], MentionIds, ResolvedRow)
        /\ IsPartialMap(alignmentRows[j], Cluster, AlignmentRow)
    BY DEF PassInv, TypeOK, ControlTypeOK, RowsTypeOK, Task
  <1>2. DOMAIN unresolvedRows[j] \subseteq MentionIds /\ DOMAIN resolvedRows[j] \subseteq MentionIds
    BY <1>1 DEF IsPartialMap
  <1>3. HasRead(j)
    BY DEF HasRead, HasRows
  <1> QED
    BY <1>1, <1>2, <1>3 DEF PassInv, MemoryInv, GraphInv

\* First write: the resolutions.
LEMMA PersistResolvedInv ==
    ASSUME PassInv, NEW j \in Jobs, PersistResolved(j)
    PROVE  \A k \in Jobs : MemoryInv(k)' /\ GraphInv(k)'
  <1>1. /\ pc[j] = "writeResolved" /\ Goto(j, "writeMemberships")
        /\ UNCHANGED << mentions, clusters, canonicals, memberOf, candidateMatch, alignedWith,
                        task, snap, unresolvedRows, resolvedRows, alignmentRows, disturbed >>
    BY DEF PersistResolved, WriteResolvedMentions, AfterResolved, localVars
  <1>2. HasRows(j) /\ pc'[j] = "writeMemberships"
    BY <1>1 DEF HasRows, PassSteps, Goto, PassInv, TypeOK, ControlTypeOK
  <1>3. /\ DOMAIN resolvesTo \subseteq DOMAIN resolvesTo'
        /\ ~disturbed[j] => \A i \in DOMAIN resolvedRows[j] :
             << <<task[j].run, i>>, resolvedRows[j][i].canonical >> \in DOMAIN resolvesTo'
    BY <1>2, RowsKnown, WriteResolvedMentionsAdds DEF PersistResolved, PassInv, TypeOK
  <1>4. GraphGrows
    BY <1>1, <1>3 DEF GraphGrows
  <1>5. ~MembersWritten(j)' /\ ~CandidatesWritten(j)' /\ ~Written(j)'
    BY <1>2 DEF MembersWritten, CandidatesWritten, Written
  <1> QED
    BY <1>1, <1>2, <1>3, <1>4, <1>5, AdvanceInv DEF PassSteps

\* Second write: the clusters and memberships.
LEMMA PersistMembershipsInv ==
    ASSUME PassInv, NEW j \in Jobs, PersistMemberships(j)
    PROVE  \A k \in Jobs : MemoryInv(k)' /\ GraphInv(k)'
  <1>1. /\ pc[j] = "writeMemberships" /\ Goto(j, "writeCandidates")
        /\ UNCHANGED << mentions, canonicals, candidateMatch, resolvesTo, alignedWith,
                        task, snap, unresolvedRows, resolvedRows, alignmentRows, disturbed >>
    BY DEF PersistMemberships, WriteClusterMemberships, localVars
  <1>2. HasRows(j) /\ HasRead(j) /\ ResolvedWritten(j) /\ pc'[j] = "writeCandidates"
    BY <1>1 DEF HasRows, HasRead, ResolvedWritten, PassSteps, Goto, PassInv, TypeOK, ControlTypeOK
  <1>3. /\ clusters \subseteq clusters'
        /\ DOMAIN memberOf \subseteq DOMAIN memberOf'
        /\ ~disturbed[j] => \A i \in DOMAIN unresolvedRows[j] :
             RowEdge(j, i) \in DOMAIN memberOf'
    BY <1>2, RowsKnown, WriteClusterMembershipsAdds DEF PersistMemberships, PassInv, TypeOK, RowEdge
  <1>4. GraphGrows
    BY <1>1, <1>3 DEF GraphGrows
  <1>5. ~CandidatesWritten(j)' /\ ~Written(j)'
    BY <1>2 DEF CandidatesWritten, Written
  <1>6. ~disturbed[j] => \A i \in DOMAIN resolvedRows[j] :
          << <<task[j].run, i>>, resolvedRows[j][i].canonical >> \in DOMAIN resolvesTo'
    BY <1>1, <1>2 DEF PassInv, GraphInv
  <1> QED
    BY <1>1, <1>2, <1>3, <1>4, <1>5, <1>6, AdvanceInv DEF PassSteps

\* Third write: the review queue.  Passes that align nothing have then written.
LEMMA PersistCandidatesInv ==
    ASSUME PassInv, NEW j \in Jobs, PersistCandidates(j)
    PROVE  \A k \in Jobs : MemoryInv(k)' /\ GraphInv(k)'
  <1> DEFINE next == CASE task[j].mode = "hybrid" -> "writeAlignments"
                       [] task[j].mode = "unstructured_only" -> "countMembers"
                       [] OTHER -> "saveUnresolved"
  <1>1. /\ pc[j] = "writeCandidates" /\ Goto(j, next)
        /\ UNCHANGED << mentions, clusters, canonicals, memberOf, resolvesTo, alignedWith,
                        task, snap, unresolvedRows, resolvedRows, alignmentRows, disturbed >>
    BY DEF PersistCandidates, WriteCandidateMatches, AfterCandidates, localVars
  <1>2. /\ HasRows(j) /\ HasRead(j) /\ ResolvedWritten(j) /\ MembersWritten(j)
        /\ pc'[j] = next /\ next \in PassSteps \ {"readMentions", "readCanonicals"}
    BY <1>1 DEF HasRows, HasRead, ResolvedWritten, MembersWritten, PassSteps, Goto,
                PassInv, TypeOK, ControlTypeOK
  <1>3. ~disturbed[j] =>
          /\ \A i \in DOMAIN resolvedRows[j] :
               << <<task[j].run, i>>, resolvedRows[j][i].canonical >> \in DOMAIN resolvesTo'
          /\ \A i \in DOMAIN unresolvedRows[j] : RowEdge(j, i) \in DOMAIN memberOf'
    BY <1>1, <1>2 DEF PassInv, GraphInv
  <1>4. ~disturbed[j] => \A i \in DOMAIN unresolvedRows[j] :
          RowCluster(task[j].run, unresolvedRows[j][i]) \in clusters
    BY <1>1, <1>3 DEF PassInv, TypeOK, GraphTypeOK, IsPartialMap, RowEdge
  <1>5. /\ DOMAIN candidateMatch \subseteq DOMAIN candidateMatch'
        /\ ~disturbed[j] => \A i \in DOMAIN unresolvedRows[j] :
             NeedsReview(unresolvedRows[j][i]) => RowEdge(j, i) \in DOMAIN candidateMatch'
    <2>1. WriteCandidateMatches(task[j].run, unresolvedRows[j]) /\ GraphTypeOK
      BY DEF PersistCandidates, PassInv, TypeOK
    <2> QED
      BY <1>2, <1>4, <2>1, RowsKnown, WriteCandidateMatchesAdds DEF RowEdge
  <1>6. GraphGrows
    BY <1>1, <1>5 DEF GraphGrows
  <1>7. Written(j)' => DOMAIN alignmentRows[j] = {}
    <2>1. Written(j)' => task[j].mode # "hybrid"
      BY <1>2 DEF Written
    <2> QED
      BY <2>1 DEF PassInv, MemoryInv, NoRows
  <1> HIDE DEF next
  <1> QED
    BY <1>1, <1>2, <1>3, <1>5, <1>6, <1>7, AdvanceInv

\* Fourth write: the alignments, of clusters that the second write made.
LEMMA PersistAlignmentsInv ==
    ASSUME PassInv, NEW j \in Jobs, PersistAlignments(j)
    PROVE  \A k \in Jobs : MemoryInv(k)' /\ GraphInv(k)'
  <1>1. /\ pc[j] = "writeAlignments" /\ Goto(j, "countMembers")
        /\ UNCHANGED << mentions, clusters, canonicals, memberOf, candidateMatch, resolvesTo,
                        task, snap, unresolvedRows, resolvedRows, alignmentRows, disturbed >>
    BY DEF PersistAlignments, WriteAlignments, localVars
  <1>2. /\ HasRows(j) /\ HasRead(j) /\ ResolvedWritten(j) /\ MembersWritten(j)
        /\ CandidatesWritten(j)
    BY <1>1 DEF HasRows, HasRead, ResolvedWritten, MembersWritten, CandidatesWritten, PassSteps
  <1>3. ~disturbed[j] =>
          /\ \A i \in DOMAIN resolvedRows[j] :
               << <<task[j].run, i>>, resolvedRows[j][i].canonical >> \in DOMAIN resolvesTo'
          /\ \A i \in DOMAIN unresolvedRows[j] : RowEdge(j, i) \in DOMAIN memberOf'
          /\ \A i \in DOMAIN unresolvedRows[j] :
               NeedsReview(unresolvedRows[j][i]) => RowEdge(j, i) \in DOMAIN candidateMatch'
    BY <1>1, <1>2 DEF PassInv, GraphInv
  <1>4. ~disturbed[j] => \A c \in DOMAIN alignmentRows[j] : c \in clusters
    <2>1. ~disturbed[j] => \A i \in DOMAIN unresolvedRows[j] :
            RowCluster(task[j].run, unresolvedRows[j][i]) \in clusters
      BY <1>1, <1>3 DEF PassInv, TypeOK, GraphTypeOK, IsPartialMap, RowEdge
    <2> QED
      BY <2>1 DEF PassInv, MemoryInv
  <1>5. /\ DOMAIN alignedWith \subseteq DOMAIN alignedWith'
        /\ ~disturbed[j] => \A c \in DOMAIN alignmentRows[j] :
             <<c, alignmentRows[j][c].canonical, task[j].run>> \in DOMAIN alignedWith'
    <2>1. WriteAlignments(task[j].run, alignmentRows[j]) /\ GraphTypeOK
      BY DEF PersistAlignments, PassInv, TypeOK
    <2> QED
      BY <1>2, <1>4, <2>1, RowsKnown, WriteAlignmentsAdds
  <1>6. GraphGrows
    BY <1>1, <1>5 DEF GraphGrows
  <1> QED
    BY <1>1, <1>2, <1>3, <1>5, <1>6, AdvanceInv DEF PassSteps

\* Counting and saving unresolved mentions change nothing a job remembers.
LEMMA ReportInv ==
    ASSUME PassInv, NEW j \in Jobs,
           \/ CountMembers(j) \/ CountClusters(j) \/ CountAligned(j)
           \/ CountByMethod(j) \/ CountMentionsInAligned(j) \/ SaveUnresolved(j)
    PROVE  \A k \in Jobs : MemoryInv(k)' /\ GraphInv(k)'
  <1>1. /\ Written(j)
        /\ UNCHANGED << graphVars, task, snap, unresolvedRows, resolvedRows,
                        alignmentRows, disturbed >>
    BY DEF CountMembers, CountClusters, CountAligned, CountByMethod,
           CountMentionsInAligned, SaveUnresolved, Report, Written, localVars
  <1>2. PICK step \in PassSteps \ {"readMentions", "readCanonicals"} : Goto(j, step)
    BY DEF CountMembers, CountClusters, CountAligned, CountByMethod,
           CountMentionsInAligned, SaveUnresolved, Report, AfterMembers, PassSteps
  <1>3. /\ HasRows(j) /\ HasRead(j) /\ ResolvedWritten(j) /\ MembersWritten(j)
        /\ CandidatesWritten(j)
    BY <1>1 DEF HasRows, HasRead, ResolvedWritten, MembersWritten, CandidatesWritten,
                Written, PassSteps
  <1>4. GraphGrows /\ UNCHANGED mentions
    BY <1>1 DEF GraphGrows, graphVars
  <1>5. ~disturbed[j] =>
          /\ \A i \in DOMAIN resolvedRows[j] :
               << <<task[j].run, i>>, resolvedRows[j][i].canonical >> \in DOMAIN resolvesTo'
          /\ \A i \in DOMAIN unresolvedRows[j] : RowEdge(j, i) \in DOMAIN memberOf'
          /\ \A i \in DOMAIN unresolvedRows[j] :
               NeedsReview(unresolvedRows[j][i]) => RowEdge(j, i) \in DOMAIN candidateMatch'
          /\ \A c \in DOMAIN alignmentRows[j] :
               <<c, alignmentRows[j][c].canonical, task[j].run>> \in DOMAIN alignedWith'
    BY <1>1, <1>3 DEF PassInv, GraphInv, graphVars
  <1> QED
    BY <1>1, <1>2, <1>3, <1>4, <1>5, AdvanceInv

\* A dry run remembers nothing to begin with.
LEMMA SaveDrySummaryInv ==
    ASSUME PassInv, NEW j \in Jobs, SaveDrySummary(j)
    PROVE  \A k \in Jobs : MemoryInv(k)' /\ GraphInv(k)'
  <1> TAKE k \in Jobs
  <1>1. /\ pc[j] = "saveDrySummary" /\ Goto(j, "saveDryUnresolved")
        /\ UNCHANGED << mentions, task, snap, unresolvedRows, resolvedRows,
                        alignmentRows, disturbed >>
        /\ GraphGrows
    BY DEF SaveDrySummary, localVars, graphVars, GraphGrows
  <1>2. DOMAIN pc = Jobs
    BY DEF PassInv, TypeOK, ControlTypeOK
  <1>3. CASE k # j
    <2>1. JobKept(k) /\ disturbed'[k] = disturbed[k]
      BY <1>1, <1>2, <1>3 DEF Goto, JobKept
    <2> QED
      BY <1>1, <2>1, OthersKept
  <1>4. CASE k = j
    <2>1. /\ pc'[j] = "saveDryUnresolved"
          /\ ~HasRead(j) /\ ~HasRead(j)' /\ ~HasRows(j)'
      BY <1>1, <1>2 DEF Goto, HasRead, HasRows, PassSteps
    <2>2. MemoryInv(j)'
      <3>1. /\ unresolvedRows'[j] = NoRows /\ resolvedRows'[j] = NoRows
            /\ alignmentRows'[j] = NoRows /\ DOMAIN NoRows = {}
        BY <1>1, <2>1 DEF PassInv, MemoryInv, NoRows
      <3> QED
        BY <2>1, <3>1 DEF MemoryInv
    <2> QED
      BY <1>4, <2>1, <2>2 DEF GraphInv
  <1> QED
    BY <1>3, <1>4

\* Steps of no job.  Extraction and reset may change mentions: then they say so.
LEMMA EnvironmentInv ==
    ASSUME PassInv, Environment
    PROVE  \A k \in Jobs : MemoryInv(k)' /\ GraphInv(k)'
  <1> TAKE k \in Jobs
  <1>1. UNCHANGED << pc, task, localVars >>
    BY DEF Environment, Extract, IngestStructured, Reset
  <1>2. JobKept(k)
    BY <1>1 DEF JobKept, localVars
  <1>3. disturbed[k] \in BOOLEAN
    BY DEF PassInv, TypeOK, ControlTypeOK
  <1>4. CASE \E run \in Runs, rows \in Snapshots : Extract(run, rows)
    <2>1. PICK run \in Runs, rows \in Snapshots : Extract(run, rows)
      BY <1>4
    <2>2. IsPartialMap(rows, MentionIds, Props)
      BY DEF Snapshots, IsPartialMap
    <2>3. UpsertMentions(run, rows) /\ Disturb(run)
      BY <2>1 DEF Extract
    <2>4. /\ DOMAIN mentions \subseteq DOMAIN mentions'
          /\ \A m \in (DOMAIN mentions') \ DOMAIN mentions : m[1] = run
      BY <2>2, <2>3, UpsertMentionsAdds DEF PassInv, TypeOK
    <2>5. GraphGrows
      BY <2>3 DEF UpsertMentions, edgeVars, GraphGrows
    <2>6. CASE Active(k) /\ task[k].run = run
      BY <1>2, <2>3, <2>6, GraphKept, MemoryKept DEF Disturb, PassInv
    <2>7. CASE Active(k) /\ task[k].run # run
      <3>1. MentionsKept(task[k].run)
        BY <2>4, <2>7 DEF MentionsKept
      <3>2. disturbed'[k] = disturbed[k]
        BY <1>3, <2>3, <2>7 DEF Disturb
      <3> QED
        BY <1>2, <1>3, <2>5, <3>1, <3>2, GraphKept, MemoryKept DEF PassInv
    <2>8. CASE ~Active(k)
      <3>1. ~HasRead(k)'
        BY <1>2, <2>8 DEF Active, HasRead, JobKept, PassSteps
      <3> QED
        BY <1>2, <3>1, MemoryKept DEF PassInv, GraphInv
    <2> QED
      BY <2>6, <2>7, <2>8
  <1>5. CASE \E run \in StructuredRuns : IngestStructured(run)
    <2>1. UNCHANGED << mentions, disturbed >> /\ GraphGrows
      BY <1>5 DEF IngestStructured, UpsertCanonicals, edgeVars, GraphGrows
    <2> QED
      BY <1>2, <2>1, OthersKept
  <1>6. CASE Reset
    <2>1. disturbed'[k] = Active(k)
      BY <1>6 DEF Reset
    <2>2. CASE Active(k)
      BY <1>2, <2>1, <2>2, GraphKept, MemoryKept DEF PassInv
    <2>3. CASE ~Active(k)
      <3>1. ~HasRead(k)'
        BY <1>2, <2>3 DEF Active, HasRead, JobKept, PassSteps
      <3> QED
        BY <1>2, <3>1, MemoryKept DEF PassInv, GraphInv
    <2> QED
      BY <2>2, <2>3
  <1> QED
    BY <1>4, <1>5, <1>6 DEF Environment

-----------------------------------------------------------------------------
\* The invariant holds initially ...
LEMMA InitInv == Init => PassInv
  <1> SUFFICES ASSUME Init, NEW j \in Jobs PROVE MemoryInv(j) /\ GraphInv(j)
    BY InitType DEF PassInv
  <1>1. pc[j] = "idle" /\ ~HasRead(j) /\ ~HasRows(j)
    BY DEF Init, HasRead, HasRows, PassSteps
  <1>2. /\ unresolvedRows[j] = NoRows /\ resolvedRows[j] = NoRows
        /\ alignmentRows[j] = NoRows /\ DOMAIN NoRows = {}
    BY DEF Init, NoRows
  <1> QED
    BY <1>1, <1>2 DEF MemoryInv, GraphInv

\* ... and every step keeps it.
LEMMA StepInv == PassInv /\ [Next]_vars => PassInv'
  <1> SUFFICES ASSUME PassInv, [Next]_vars
               PROVE  \A k \in Jobs : MemoryInv(k)' /\ GraphInv(k)'
    BY StepType DEF PassInv
  <1>1. ASSUME NEW j \in Jobs, StartPass(j) \/ StartDryRun(j)
        PROVE  \A k \in Jobs : MemoryInv(k)' /\ GraphInv(k)'
    BY <1>1, StartInv
  <1>2. ASSUME NEW j \in Jobs, JobStep(j)
        PROVE  \A k \in Jobs : MemoryInv(k)' /\ GraphInv(k)'
    <2>1. CASE SaveSummary(j) \/ SaveDryUnresolved(j)
      BY <2>1, ForgetInv DEF SaveSummary, SaveDryUnresolved
    <2> QED
      BY <1>2, <2>1, ReadMentionsInv, ReadCanonicalsInv, PersistResolvedInv,
         PersistMembershipsInv, PersistCandidatesInv, PersistAlignmentsInv,
         ReportInv, SaveDrySummaryInv DEF JobStep
  <1>3. ASSUME NEW j \in Jobs, Crash(j)
        PROVE  \A k \in Jobs : MemoryInv(k)' /\ GraphInv(k)'
    BY <1>3, ForgetInv DEF Crash
  <1>4. CASE Environment
    BY <1>4, EnvironmentInv
  <1>5. CASE UNCHANGED vars
    <2> TAKE k \in Jobs
    <2>1. JobKept(k) /\ UNCHANGED << mentions, disturbed >> /\ GraphGrows
      BY <1>5 DEF vars, graphVars, localVars, JobKept, GraphGrows
    <2> QED
      BY <2>1, OthersKept
  <1> QED
    BY <1>1, <1>2, <1>3, <1>4, <1>5 DEF Next

\* The invariant holds always.
LEMMA Invariance == Spec => []PassInv
  BY InitInv, StepInv, PTL DEF Spec

\* When a pass has written and the mentions of its run did not change under it,
\* every membership, review entry, resolution and alignment it computed is in
\* the graph: whatever other passes, crashes and stages did meanwhile.
THEOREM WrittenRowsPersist == Spec => []RowsPersisted
  <1>1. PassInv => RowsPersisted
    <2> SUFFICES ASSUME PassInv PROVE RowsPersisted
      OBVIOUS
    <2>1. ASSUME NEW j \in Jobs, Written(j), ~disturbed[j]
          PROVE  /\ HasRead(j) /\ ResolvedWritten(j) /\ MembersWritten(j)
                 /\ CandidatesWritten(j)
      BY <2>1 DEF HasRead, ResolvedWritten, MembersWritten, CandidatesWritten,
                  Written, PassSteps
    <2> QED
      BY <2>1 DEF RowsPersisted, PassInv, GraphInv, RowEdge
  <1> QED
    BY <1>1, Invariance, PTL

\* A pass that has written leaves no mention of its run out.
LEMMA AllAccounted == PassInv => MentionsAccounted
  <1> SUFFICES ASSUME PassInv, NEW j \in Jobs, Written(j), ~disturbed[j],
                      NEW m \in RunMentions(task[j].run)
               PROVE  \/ \E c \in RunClusters(task[j].run) : <<m, c>> \in DOMAIN memberOf
                      \/ /\ task[j].mode = "structured_anchor"
                         /\ \E k \in canonicals : <<m, k>> \in DOMAIN resolvesTo
    BY DEF MentionsAccounted, Accounted
  <1>1. HasRead(j) /\ HasRows(j) /\ ResolvedWritten(j) /\ MembersWritten(j)
    BY DEF HasRead, HasRows, ResolvedWritten, MembersWritten, Written, PassSteps
  <1>2. m \in DOMAIN mentions /\ m[1] = task[j].run
    BY DEF RunMentions
  <1>3. m \in Mention
    BY <1>2 DEF PassInv, TypeOK, GraphTypeOK, IsPartialMap
  <1>4. PICK i \in MentionIds : m = <<task[j].run, i>>
    BY <1>2, <1>3 DEF Mention
  <1>5. i \in DOMAIN snap[j]
    BY <1>1, <1>2, <1>4 DEF PassInv, GraphInv
  <1>6. CASE i \in DOMAIN unresolvedRows[j]
    <2>1. unresolvedRows[j][i] \in ClusterRow /\ task[j].run \in Runs
      BY <1>1, <1>6, RowsKnown DEF IsPartialMap
    <2>2. RowEdge(j, i) \in DOMAIN memberOf
      BY <1>1, <1>6 DEF PassInv, GraphInv
    <2>3. RowEdge(j, i)[2] \in RunClusters(task[j].run)
      BY <2>1, <2>2, RowClusterType
         DEF RowEdge, RunClusters, PassInv, TypeOK, GraphTypeOK, IsPartialMap
    <2> QED
      BY <1>4, <2>2, <2>3 DEF RowEdge
  <1>7. CASE i \notin DOMAIN unresolvedRows[j]
    <2>1. task[j].mode = "structured_anchor" /\ i \in DOMAIN resolvedRows[j]
      BY <1>1, <1>5, <1>7 DEF PassInv, MemoryInv
    <2>2. << m, resolvedRows[j][i].canonical >> \in DOMAIN resolvesTo
      BY <1>1, <1>4, <2>1 DEF PassInv, GraphInv
    <2>3. resolvedRows[j][i].canonical \in canonicals
      BY <1>1, <2>1, RowsKnown
    <2> QED
      BY <2>1, <2>2, <2>3
  <1> QED
    BY <1>6, <1>7

\* ... and every mention of the run is in a cluster or, after a pass in
\* structured_anchor mode, resolved.
THEOREM NoMentionLeftOut == Spec => []MentionsAccounted
  BY AllAccounted, Invariance, PTL

-----------------------------------------------------------------------------
(* The edges themselves.                                                   *)

\* Most steps write no membership, review entry or alignment.
LEMMA EdgesKept ==
    ASSUME PassInv, [Next]_vars
    PROVE  \/ UNCHANGED << memberOf, candidateMatch, alignedWith >>
           \/ memberOf' = NoRows /\ candidateMatch' = NoRows /\ alignedWith' = NoRows
           \/ \E j \in Jobs : \/ PersistMemberships(j) \/ PersistCandidates(j)
                              \/ PersistAlignments(j)
  <1>1. ASSUME NEW j \in Jobs, StartPass(j) \/ StartDryRun(j) \/ Crash(j)
        PROVE  UNCHANGED << memberOf, candidateMatch, alignedWith >>
    BY <1>1 DEF StartPass, StartDryRun, Start, Crash, graphVars
  <1>2. ASSUME NEW j \in Jobs, JobStep(j)
        PROVE  \/ UNCHANGED << memberOf, candidateMatch, alignedWith >>
               \/ PersistMemberships(j) \/ PersistCandidates(j) \/ PersistAlignments(j)
    <2>1. CASE ReadMentions(j) \/ ReadCanonicals(j)
      BY <2>1 DEF ReadMentions, ReadCanonicals, graphVars
    <2>2. CASE PersistResolved(j)
      BY <2>2 DEF PersistResolved, WriteResolvedMentions
    <2>3. CASE \/ CountMembers(j) \/ CountClusters(j) \/ CountAligned(j)
               \/ CountByMethod(j) \/ CountMentionsInAligned(j)
      BY <2>3 DEF CountMembers, CountClusters, CountAligned, CountByMethod,
                  CountMentionsInAligned, Report, graphVars
    <2>4. CASE \/ SaveUnresolved(j) \/ SaveSummary(j)
               \/ SaveDrySummary(j) \/ SaveDryUnresolved(j)
      BY <2>4 DEF SaveUnresolved, SaveSummary, SaveDrySummary, SaveDryUnresolved, graphVars
    <2> QED
      BY <1>2, <2>1, <2>2, <2>3, <2>4 DEF JobStep
  <1>3. CASE Environment
    BY <1>3 DEF Environment, Extract, IngestStructured, Reset, UpsertMentions,
                UpsertCanonicals, DeleteDemoNodes, edgeVars
  <1>4. CASE UNCHANGED vars
    BY <1>4 DEF vars, graphVars
  <1> QED
    BY <1>1, <1>2, <1>3, <1>4 DEF Next

\* No edge crosses runs, however the passes of different runs interleave.
THEOREM EdgesRunScoped == Spec => []RunScoped
  <1>1. Init => RunScoped
    BY DEF Init, GraphInit, RunScoped, NoRows
  <1>2. PassInv /\ RunScoped /\ [Next]_vars => RunScoped'
    <2> SUFFICES ASSUME PassInv, RunScoped, [Next]_vars PROVE RunScoped'
      OBVIOUS
    <2>1. CASE UNCHANGED << memberOf, candidateMatch, alignedWith >>
      BY <2>1 DEF RunScoped
    <2>2. CASE memberOf' = NoRows /\ candidateMatch' = NoRows /\ alignedWith' = NoRows
      BY <2>2 DEF RunScoped, NoRows
    <2>3. ASSUME NEW j \in Jobs, PersistMemberships(j)
          PROVE  RunScoped'
      <3>1. HasRows(j) /\ UNCHANGED << candidateMatch, alignedWith >>
        BY <2>3 DEF PersistMemberships, WriteClusterMemberships, HasRows, PassSteps
      <3>2. \A e \in (DOMAIN memberOf') \ DOMAIN memberOf : e[1][1] = e[2].run
        <4>1. \A i \in DOMAIN unresolvedRows[j] :
                RowCluster(task[j].run, unresolvedRows[j][i]).run = task[j].run
          BY <3>1, RowsKnown, RowClusterType DEF IsPartialMap
        <4>2. \A e \in (DOMAIN memberOf') \ DOMAIN memberOf : \E i \in DOMAIN unresolvedRows[j] :
                /\ e = << <<task[j].run, i>>, RowCluster(task[j].run, unresolvedRows[j][i]) >>
                /\ <<task[j].run, i>> \in DOMAIN mentions
          <5>1. GraphTypeOK /\ WriteClusterMemberships(task[j].run, unresolvedRows[j])
            BY <2>3 DEF PersistMemberships, PassInv, TypeOK
          <5>2. /\ task[j].run \in Runs
                /\ IsPartialMap(unresolvedRows[j], MentionIds, ClusterRow)
            BY <3>1, RowsKnown
          <5> QED
            BY <5>1, <5>2, WriteClusterMembershipsAdds
        <4> TAKE e \in (DOMAIN memberOf') \ DOMAIN memberOf
        <4>3. PICK i \in DOMAIN unresolvedRows[j] :
                e = << <<task[j].run, i>>, RowCluster(task[j].run, unresolvedRows[j][i]) >>
          BY <4>2
        <4> QED
          BY <4>1, <4>3
      <3> QED
        BY <3>1, <3>2 DEF RunScoped
    <2>4. ASSUME NEW j \in Jobs, PersistCandidates(j)
          PROVE  RunScoped'
      <3>1. HasRows(j) /\ UNCHANGED << memberOf, alignedWith >>
        BY <2>4 DEF PersistCandidates, WriteCandidateMatches, HasRows, PassSteps
      <3>2. \A e \in (DOMAIN candidateMatch') \ DOMAIN candidateMatch : e[1][1] = e[2].run
        <4>1. \A i \in DOMAIN unresolvedRows[j] :
                RowCluster(task[j].run, unresolvedRows[j][i]).run = task[j].run
          BY <3>1, RowsKnown, RowClusterType DEF IsPartialMap
        <4>2. \A e \in (DOMAIN candidateMatch') \ DOMAIN candidateMatch : \E i \in DOMAIN unresolvedRows[j] :
                /\ e = << <<task[j].run, i>>, RowCluster(task[j].run, unresolvedRows[j][i]) >>
                /\ <<task[j].run, i>> \in DOMAIN mentions
          <5>1. GraphTypeOK /\ WriteCandidateMatches(task[j].run, unresolvedRows[j])
            BY <2>4 DEF PersistCandidates, PassInv, TypeOK
          <5>2. /\ task[j].run \in Runs
                /\ IsPartialMap(unresolvedRows[j], MentionIds, ClusterRow)
            BY <3>1, RowsKnown
          <5> QED
            BY <5>1, <5>2, WriteCandidateMatchesAdds
        <4> TAKE e \in (DOMAIN candidateMatch') \ DOMAIN candidateMatch
        <4>3. PICK i \in DOMAIN unresolvedRows[j] :
                e = << <<task[j].run, i>>, RowCluster(task[j].run, unresolvedRows[j][i]) >>
          BY <4>2
        <4> QED
          BY <4>1, <4>3
      <3> QED
        BY <3>1, <3>2 DEF RunScoped
    <2>5. ASSUME NEW j \in Jobs, PersistAlignments(j)
          PROVE  RunScoped'
      <3>1. HasRows(j) /\ UNCHANGED << memberOf, candidateMatch >>
        BY <2>5 DEF PersistAlignments, WriteAlignments, HasRows, PassSteps
      <3>2. \A c \in DOMAIN alignmentRows[j] : c.run = task[j].run
        BY <3>1, RowsKnown, RowClusterType DEF PassInv, MemoryInv, IsPartialMap
      <3>3. \A e \in DOMAIN alignedWith' : e[1].run = e[3]
        <4>1. \A e \in DOMAIN alignedWith' :
                \/ e \in DOMAIN alignedWith
                \/ \E c \in DOMAIN alignmentRows[j] :
                      e = <<c, alignmentRows[j][c].canonical, task[j].run>>
          BY <2>5, <3>1, RowsKnown, WriteAlignmentsAdds
             DEF PersistAlignments, PassInv, TypeOK
        <4> QED
          BY <3>2, <4>1 DEF RunScoped
      <3> QED
        BY <3>1, <3>3 DEF RunScoped
    <2> QED
      BY <2>1, <2>2, <2>3, <2>4, <2>5, EdgesKept
  <1> QED
    BY <1>1, <1>2, Invariance, PTL DEF Spec

\* An alignment is justified by its cluster's text, also when passes over
\* different catalogs, or over one catalog at different times, updated it.
THEOREM AlignmentsJustified == Spec => []AlignmentJustified
  <1>1. Init => AlignmentJustified
    BY DEF Init, GraphInit, AlignmentJustified, NoRows
  <1>2. PassInv /\ AlignmentJustified /\ [Next]_vars => AlignmentJustified'
    <2> SUFFICES ASSUME PassInv, AlignmentJustified, [Next]_vars PROVE AlignmentJustified'
      OBVIOUS
    <2>1. CASE UNCHANGED alignedWith
      BY <2>1 DEF AlignmentJustified
    <2>2. CASE alignedWith' = NoRows
      BY <2>2 DEF AlignmentJustified, NoRows
    <2>3. ASSUME NEW j \in Jobs, PersistMemberships(j) \/ PersistCandidates(j)
          PROVE  UNCHANGED alignedWith
      BY <2>3 DEF PersistMemberships, PersistCandidates, WriteClusterMemberships,
                  WriteCandidateMatches
    <2>4. ASSUME NEW j \in Jobs, PersistAlignments(j)
          PROVE  AlignmentJustified'
      <3>1. HasRows(j)
        BY <2>4 DEF PersistAlignments, HasRows, PassSteps
      <3>2. \A e \in DOMAIN alignedWith' :
              \/ e \in DOMAIN alignedWith /\ alignedWith'[e] = alignedWith[e]
              \/ \E c \in DOMAIN alignmentRows[j] :
                    /\ e = <<c, alignmentRows[j][c].canonical, task[j].run>>
                    /\ alignedWith'[e] = alignmentRows[j][c].method
        BY <2>4, <3>1, RowsKnown, WriteAlignmentsAdds DEF PersistAlignments, PassInv, TypeOK
      <3>3. \A c \in DOMAIN alignmentRows[j] :
              Justified(c.text, Entity[alignmentRows[j][c].canonical],
                        alignmentRows[j][c].method)
        BY DEF PassInv, MemoryInv
      <3> QED
        BY <3>2, <3>3 DEF AlignmentJustified, Justified
    <2> QED
      BY <2>1, <2>2, <2>3, <2>4, EdgesKept
  <1> QED
    BY <1>1, <1>2, Invariance, PTL DEF Spec
=============================================================================
