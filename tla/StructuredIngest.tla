-------------------------- MODULE StructuredIngest -------------------------
(***************************************************************************)
(* The ingest-structured stage: four CSV files are linted and cleaned, the *)
(* clean files, a lint report and a summary are saved, and only then five  *)
(* auto-commit statements write the rows.  A run id is used by one process *)
(* only; it may die between any two steps, and a reset may empty the graph *)
(* under it.                                                               *)
(***************************************************************************)
EXTENDS Naturals, FiniteSets

CONSTANTS
    Runs,
    EntityIds, FactIds, RelIds, ClaimIds,   \* ids the patterns accept
    NoFile,                 \* stands for an artifact that is not there
    Inputs,                 \* contents of the four files a process may find
    MaxResets, MaxCrashes   \* bounds

Files == {"entities", "facts", "relationships", "claims"}

\* An empty subject_id or object_id; the lint lets it pass.
NoId == ""
\* The id patterns begin with letters of their own.
ASSUME IdsAssumption ==
    /\ NoId \notin EntityIds \cup FactIds \cup RelIds \cup ClaimIds
    /\ FactIds \cap RelIds = {} /\ FactIds \cap ClaimIds = {} /\ RelIds \cap ClaimIds = {}

\* Distinct rows of a file.  `ok' says that no check of the row alone fails.
EntityRow == [id : EntityIds, ok : BOOLEAN]
FactRow == [id : FactIds, subject : EntityIds \cup {NoId}, ok : BOOLEAN]
RelRow == [id : RelIds, subject : EntityIds \cup {NoId}, object : EntityIds \cup {NoId},
           ok : BOOLEAN]
ClaimRow == [id : ClaimIds, subject : EntityIds \cup {NoId},
             object : EntityIds \cup {NoId}, type : {"fact", "relationship"},
             source : FactIds \cup RelIds, ok : BOOLEAN]

\* `unreadable' files give a read error; `repeats' counts verbatim copies of rows.
Input == [unreadable : SUBSET Files, repeats : [Files -> Nat],
          entities : SUBSET EntityRow, facts : SUBSET FactRow,
          relationships : SUBSET RelRow, claims : SUBSET ClaimRow]
Clean == [entities : SUBSET EntityRow, facts : SUBSET FactRow,
          relationships : SUBSET RelRow, claims : SUBSET ClaimRow]
Counts == [Files -> Nat]

ASSUME InputsAssumption ==
    /\ Inputs # {} /\ Inputs \subseteq Input
    /\ \A in \in Inputs : IsFiniteSet(in.entities) /\ IsFiniteSet(in.facts)
                         /\ IsFiniteSet(in.relationships) /\ IsFiniteSet(in.claims)
ASSUME NoFileAssumption == NoFile \notin {"ok", "failed"} /\ NoFile \notin Counts
ASSUME IngestBoundsAssumption == {MaxResets, MaxCrashes} \subseteq Nat

VARIABLES
    sources,    \* runs whose dataset Source node is there
    entities,   \* CanonicalEntity nodes, as << run, id >>
    listed,     \* ... those whose properties come from a row of entities.csv
    records,    \* Fact, Relationship and Claim nodes, as << run, id >>
    edges       \* << type, node, node >>, and << "ASSERTED_IN", node, run >>

VARIABLES
    pc, dry, input, \* where the process of each run is, its mode, its files
    clean, report, summary  \* artifacts of each run; NoFile before it is saved

VARIABLE used   \* what the bounds count

graphVars == << sources, entities, listed, records, edges >>
fileVars == << clean, report, summary >>
vars == << graphVars, pc, dry, input, fileVars, used >>

Steps == << "lint", "saveReport", "saveSummary", "source", "entities", "facts",
            "relationships", "claims" >>
Ends == {"new", "done", "failed"}

Ids(rows) == { row.id : row \in rows }
Node(run, id) == << run, id >>
Goto(run, step) == pc' = [pc EXCEPT ![run] = step]

-----------------------------------------------------------------------------
(* lint_and_clean_structured_csvs.                                         *)

\* An unreadable file is replaced by an empty one.
Cleaned(in) ==
    LET rows(file, all) == IF file \in in.unreadable THEN {} ELSE all
    IN  [entities      |-> rows("entities", in.entities),
         facts         |-> rows("facts", in.facts),
         relationships |-> rows("relationships", in.relationships),
         claims        |-> rows("claims", in.claims)]

\* Fault of the next definition: the entities of claims are not looked up.
IssuesOfRecords(in) ==
    LET c == Cleaned(in) IN
    { << "READ_ERROR", f >> : f \in in.unreadable }
    \cup { << "UNKNOWN_SOURCE_ROW", r.id >> :
             r \in { r \in c.claims : r.source \notin Ids(c.facts) \cup Ids(c.relationships) } }

\* Checks of rows alone, then of claims against the other files, as far as
\* these could be read.
Issues(in) ==
    LET c == Cleaned(in)
        readable(f) == f \notin in.unreadable
    IN  { << "READ_ERROR", f >> : f \in in.unreadable }
        \cup { << "INVALID", r.id >> :
                 r \in { r \in c.entities \cup c.facts \cup c.relationships \cup c.claims : ~r.ok } }
        \cup { << "UNKNOWN_SUBJECT_ID", r.id >> :
                 r \in { r \in c.claims : /\ readable("entities") /\ r.subject # NoId
                                          /\ r.subject \notin Ids(c.entities) } }
        \cup { << "UNKNOWN_FACT_SOURCE_ROW", r.id >> :
                 r \in { r \in c.claims : /\ readable("facts") /\ r.type = "fact"
                                          /\ r.source \notin Ids(c.facts) } }
        \cup { << "UNKNOWN_REL_SOURCE_ROW", r.id >> :
                 r \in { r \in c.claims : /\ readable("relationships")
                                          /\ r.type = "relationship"
                                          /\ r.source \notin Ids(c.relationships) } }

\* Fault of the next definition: no file is deduplicated.
RawCounts(in, c) ==
    [f \in Files |-> Cardinality(c[f]) + in.repeats[f]]

\* All files but claims.csv are deduplicated.
RowCounts(in, c) ==
    [f \in Files |-> Cardinality(c[f]) + (IF f = "claims" THEN in.repeats[f] ELSE 0)]

-----------------------------------------------------------------------------
(* The statements.                                                         *)

\* _asserted_in_clause: no edge, and no later clause, without the Source node.
AssertedIn(run, ids) ==
    { << "ASSERTED_IN", Node(run, i), run >> : i \in IF run \in sources THEN ids ELSE {} }

\* MERGE of what rows refer to makes entities nobody listed.
Referred(run, ids) == { Node(run, i) : i \in ids }

WriteSource(run) ==
    /\ sources' = sources \cup {run}
    /\ UNCHANGED << entities, listed, records, edges >>

WriteEntities(run, rows) ==
    /\ entities' = entities \cup Referred(run, Ids(rows))
    /\ listed' = listed \cup Referred(run, Ids(rows))
    /\ edges' = edges \cup AssertedIn(run, Ids(rows))
    /\ UNCHANGED << sources, records >>

WriteFacts(run, rows) ==
    /\ records' = records \cup Referred(run, Ids(rows))
    /\ entities' = entities \cup Referred(run, { r.subject : r \in rows })
    /\ edges' = edges \cup AssertedIn(run, Ids(rows))
         \cup { << "ABOUT", Node(run, r.id), Node(run, r.subject) >> : r \in rows }
    /\ UNCHANGED << sources, listed >>

WriteRelationships(run, rows) ==
    /\ records' = records \cup Referred(run, Ids(rows))
    /\ entities' = entities \cup Referred(run, { r.subject : r \in rows })
                            \cup Referred(run, { r.object : r \in rows })
    /\ edges' = edges \cup AssertedIn(run, Ids(rows))
         \cup { << "SUBJECT", Node(run, r.id), Node(run, r.subject) >> : r \in rows }
         \cup { << "OBJECT", Node(run, r.id), Node(run, r.object) >> : r \in rows }
    /\ UNCHANGED << sources, listed >>

\* Fault of the next definition: the source row is taken for granted.
SupportUnmatched(run, rows) ==
    { << "SUPPORTED_BY", Node(run, r.id), Node(run, r.source) >> : r \in rows }

\* OPTIONAL MATCH, reached only when the MATCH of the Source node was.
Support(run, rows) ==
    { << "SUPPORTED_BY", Node(run, r.id), Node(run, r.source) >> :
        r \in { r \in rows : run \in sources /\ Node(run, r.source) \in records } }

WriteClaims(run, rows) ==
    LET objects == { r \in rows : r.object # NoId } IN
    /\ records' = records \cup Referred(run, Ids(rows))
    /\ entities' = entities \cup Referred(run, { r.subject : r \in rows })
                            \cup Referred(run, { r.object : r \in objects })
    /\ edges' = edges \cup AssertedIn(run, Ids(rows)) \cup Support(run, rows)
         \cup { << "ABOUT", Node(run, r.id), Node(run, r.subject) >> : r \in rows }
         \cup { << "TARGETS", Node(run, r.id), Node(run, r.object) >> : r \in objects }
    /\ UNCHANGED << sources, listed >>

-----------------------------------------------------------------------------
(* The process of a run.                                                   *)

Start(run) ==
    /\ pc[run] = "new"
    /\ \E in \in Inputs : input' = [input EXCEPT ![run] = in]
    /\ \E d \in BOOLEAN : dry' = [dry EXCEPT ![run] = d]
    /\ Goto(run, "lint")
    /\ UNCHANGED << graphVars, fileVars, used >>

\* The files are read and checked; clean copies are saved in any case.
Lint(run) ==
    /\ pc[run] = "lint"
    /\ clean' = [clean EXCEPT ![run] = Cleaned(input[run])]
    /\ Goto(run, "saveReport")
    /\ UNCHANGED << graphVars, dry, input, report, summary, used >>

\* The report is saved before a failed lint raises.
SaveReport(run) ==
    LET failed == Issues(input[run]) # {} IN
    /\ pc[run] = "saveReport"
    /\ report' = [report EXCEPT ![run] = IF failed THEN "failed" ELSE "ok"]
    /\ Goto(run, IF failed THEN "failed" ELSE "saveSummary")
    /\ UNCHANGED << graphVars, dry, input, clean, summary, used >>

\* Counts are of the clean rows read back.  A dry run returns here.
SaveSummary(run) ==
    /\ pc[run] = "saveSummary"
    /\ summary' = [summary EXCEPT ![run] = RowCounts(input[run], clean[run])]
    /\ Goto(run, IF dry[run] THEN "done" ELSE "source")
    /\ UNCHANGED << graphVars, dry, input, clean, report, used >>

\* Fault of the next definition: claims are written before relationships.
ClaimsFirst(step) ==
    CASE step = "source" -> "entities" [] step = "entities" -> "facts"
      [] step = "facts" -> "claims" [] step = "claims" -> "relationships"
      [] step = "relationships" -> "done"

\* write_structured_ingest_graph.
AfterWrite(step) ==
    CASE step = "source" -> "entities" [] step = "entities" -> "facts"
      [] step = "facts" -> "relationships" [] step = "relationships" -> "claims"
      [] step = "claims" -> "done"

Write(run) ==
    /\ \/ pc[run] = "source" /\ WriteSource(run)
       \/ pc[run] = "entities" /\ WriteEntities(run, clean[run].entities)
       \/ pc[run] = "facts" /\ WriteFacts(run, clean[run].facts)
       \/ pc[run] = "relationships" /\ WriteRelationships(run, clean[run].relationships)
       \/ pc[run] = "claims" /\ WriteClaims(run, clean[run].claims)
    /\ Goto(run, AfterWrite(pc[run]))
    /\ UNCHANGED << dry, input, fileVars, used >>

\* The process dies; the next attempt has a run id of its own.
Crash(run) ==
    /\ pc[run] \notin Ends /\ used.crashes < MaxCrashes
    /\ used' = [used EXCEPT !.crashes = @ + 1]
    /\ Goto(run, "failed")
    /\ UNCHANGED << graphVars, dry, input, fileVars >>

Reset ==
    /\ used.resets < MaxResets
    /\ used' = [used EXCEPT !.resets = @ + 1]
    /\ sources' = {} /\ entities' = {} /\ listed' = {} /\ records' = {} /\ edges' = {}
    /\ UNCHANGED << pc, dry, input, fileVars >>

Init ==
    /\ sources = {} /\ entities = {} /\ listed = {} /\ records = {} /\ edges = {}
    /\ pc = [run \in Runs |-> "new"]
    /\ dry = [run \in Runs |-> FALSE]
    /\ input = [run \in Runs |-> CHOOSE in \in Inputs : TRUE]
    /\ clean = [run \in Runs |-> NoFile]
    /\ report = [run \in Runs |-> NoFile]
    /\ summary = [run \in Runs |-> NoFile]
    /\ used = [resets |-> 0, crashes |-> 0]

Next ==
    \/ \E run \in Runs : Start(run) \/ Lint(run) \/ SaveReport(run) \/ SaveSummary(run)
                         \/ Write(run) \/ Crash(run)
    \/ Reset

Spec == Init /\ [][Next]_vars

-----------------------------------------------------------------------------
(* Properties.                                                             *)

\* Types; every edge leads from and to nodes, also when a reset hit the writes.
TypeOK ==
    /\ sources \subseteq Runs
    /\ listed \subseteq entities
    /\ entities \subseteq Runs \X (EntityIds \cup {NoId})
    /\ records \subseteq Runs \X (FactIds \cup RelIds \cup ClaimIds)
    /\ \A e \in edges :
        \/ e[1] = "ASSERTED_IN" /\ e[2] \in listed \cup records /\ e[3] \in sources
        \/ e[1] \in {"ABOUT", "SUBJECT", "OBJECT", "TARGETS"}
            /\ e[2] \in records /\ e[3] \in entities
        \/ e[1] = "SUPPORTED_BY" /\ e[2] \in records /\ e[3] \in records
    /\ \A run \in Runs :
        /\ pc[run] \in { Steps[k] : k \in DOMAIN Steps } \cup Ends
        /\ input[run] \in Inputs /\ dry[run] \in BOOLEAN
        /\ clean[run] = NoFile \/ clean[run] \in Clean
        /\ report[run] \in {NoFile, "ok", "failed"}
        /\ summary[run] = NoFile \/ summary[run] \in Counts

NoReset == used.resets = 0
NodesOf(run) == { n \in entities \cup records : n[1] = run }

\* No node of a run whose files failed the lint, and none before its summary is
\* saved; when a process ends, its records are what the summary counts, unless
\* rows share an id.
SummaryTrue ==
    \A run \in Runs :
        /\ NodesOf(run) # {} => report[run] = "ok" /\ summary[run] # NoFile /\ ~dry[run]
        /\ pc[run] = "done" /\ ~dry[run] /\ NoReset =>
            LET number(I) == Cardinality({ n \in records : n[1] = run /\ n[2] \in I })
                unique(rows) == Cardinality(Ids(rows)) = Cardinality(rows)
            IN  /\ unique(clean[run].facts) => number(FactIds) = summary[run].facts
                /\ unique(clean[run].relationships) =>
                    number(RelIds) = summary[run].relationships
                /\ Cardinality({ n \in listed : n[1] = run }) <= summary[run].entities
                /\ number(ClaimIds) <= summary[run].claims

\* An entity nobody listed is there because some record needs it; and it is
\* never what a claim is about, unless the claim names no subject.
EntitiesTraceable ==
    \A n \in entities :
        \/ n \in listed
        \/ /\ \E e \in edges : e[1] # "ASSERTED_IN" /\ e[3] = n
           /\ NoReset /\ n[2] # NoId =>
                \A e \in edges : e[1] = "ABOUT" /\ e[3] = n => e[2][2] \notin ClaimIds

\* Claims readers find together with their evidence.
Released(run) ==
    { c \in ClaimIds :
        \E e \in edges : e[1] = "SUPPORTED_BY" /\ e[2] = Node(run, c) /\ e[3] \in records }
Accepted(run) == IF report[run] = "ok" THEN Ids(clean[run].claims) ELSE {}

Releases == INSTANCE StructuredReleases
              WITH content <- [run \in Runs |-> Accepted(run)],
                   released <- [run \in Runs |-> Released(run)]

\* Five statements, crashes and resets between them: claims with their evidence
\* appear at once, all of the accepted ones or none.
ReleasedAtOnce == Releases!Spec
=============================================================================
