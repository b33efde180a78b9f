------------------------- MODULE StructuredProofs --------------------------
(***************************************************************************)
(* Theorems about structured ingests, for any ids, inputs, runs, resets    *)
(* and crashes: edges keep their nodes, entities can be traced, summaries  *)
(* count what is there, and claims are released with their evidence all at *)
(* once.                                                                   *)
(***************************************************************************)
EXTENDS StructuredIngest, FiniteSetTheorems, TLAPS

Unwritten == {"new", "lint", "saveReport", "saveSummary", "source"}
Writing == {"entities", "facts", "relationships", "claims"}
Places == Unwritten \cup Writing \cup {"done", "failed"}

\* What TypeOK leaves open: variables are functions on the runs.
FunctionsOK ==
    /\ pc \in [Runs -> Places]
    /\ dry \in [Runs -> BOOLEAN]
    /\ input \in [Runs -> Inputs]
    /\ clean \in [Runs -> Clean \cup {NoFile}]
    /\ report \in [Runs -> {NoFile, "ok", "failed"}]
    /\ summary \in [Runs -> Counts \cup {NoFile}]
    /\ used \in [resets : Nat, crashes : Nat]

\* What is true of a run's artifacts.
FilesInv(run) ==
    /\ pc[run] \in {"new", "lint", "saveReport"} => report[run] = NoFile
    /\ pc[run] \in {"new", "lint", "saveReport", "saveSummary"} => summary[run] = NoFile
    /\ pc[run] \in {"saveReport", "saveSummary", "source", "done"} \cup Writing =>
        clean[run] = Cleaned(input[run])
    /\ report[run] = "ok" => clean[run] = Cleaned(input[run]) /\ Issues(input[run]) = {}
    /\ pc[run] \in {"saveSummary", "source", "done"} \cup Writing => report[run] = "ok"
    /\ pc[run] \in {"source"} \cup Writing => ~dry[run]
    /\ pc[run] \in {"source", "done"} \cup Writing =>
        summary[run] = RowCounts(input[run], clean[run])

RecordIds(run) == { n[2] : n \in { n \in records : n[1] = run } }
ListedIds(run) == { n[2] : n \in { n \in listed : n[1] = run } }

\* What is true of a run's nodes; a reset may have taken any of them, but took the
\* Source node with them.
NodesInv(run) ==
    /\ pc[run] \in Unwritten => NodesOf(run) = {} /\ run \notin sources
    /\ NodesOf(run) # {} => report[run] = "ok" /\ summary[run] # NoFile /\ ~dry[run]
    /\ run \in sources /\ pc[run] = "claims" =>
        Ids(clean[run].facts) \cup Ids(clean[run].relationships) \subseteq RecordIds(run)
    /\ run \in sources /\ pc[run] = "relationships" =>
        Ids(clean[run].facts) \subseteq RecordIds(run)
    /\ pc[run] # "done" /\ pc[run] # "failed" => Released(run) = {}

\* ... and without a reset.
ExactInv(run) ==
    /\ pc[run] \in {"facts", "relationships", "claims"} \/ (pc[run] = "done" /\ ~dry[run]) =>
        ListedIds(run) = Ids(clean[run].entities)
    /\ pc[run] \in Unwritten \cup {"entities"} => ListedIds(run) = {}
    /\ pc[run] \in Unwritten \cup {"entities", "facts"} => RecordIds(run) = {}
    /\ pc[run] = "relationships" => RecordIds(run) = Ids(clean[run].facts)
    /\ pc[run] = "claims" =>
        RecordIds(run) = Ids(clean[run].facts) \cup Ids(clean[run].relationships)
    /\ pc[run] = "done" /\ ~dry[run] =>
        RecordIds(run) = Ids(clean[run].facts) \cup Ids(clean[run].relationships)
                         \cup Ids(clean[run].claims)

\* Why entities are there.
TraceInv ==
    /\ \A n \in entities :
        n \in listed \/ \E e \in edges : e[1] # "ASSERTED_IN" /\ e[3] = n
    /\ NoReset => \A e \in edges :
        e[1] = "ABOUT" /\ e[2][2] \in ClaimIds /\ e[3][2] # NoId => e[3] \in listed

-----------------------------------------------------------------------------
(* The files.                                                              *)

LEMMA StepNames == { Steps[k] : k \in DOMAIN Steps } \cup Ends = Places
  <1>1. DOMAIN Steps = 1 .. 8
    BY DEF Steps
  <1>2. { Steps[k] : k \in 1 .. 8 } = {"lint", "saveReport", "saveSummary", "source",
            "entities", "facts", "relationships", "claims"}
    <2>1. \A k \in 1 .. 8 : k = 1 \/ k = 2 \/ k = 3 \/ k = 4 \/ k = 5 \/ k = 6 \/ k = 7 \/ k = 8
      OBVIOUS
    <2> QED
      BY <2>1 DEF Steps
  <1> QED
    BY <1>1, <1>2 DEF Places, Unwritten, Writing, Ends

\* Rows a lint leaves are rows of the files, of their types and finitely many.
LEMMA CleanedRows ==
    ASSUME NEW in \in Inputs
    PROVE  LET c == Cleaned(in) IN
           /\ c \in Clean
           /\ IsFiniteSet(c.entities) /\ IsFiniteSet(c.facts)
           /\ IsFiniteSet(c.relationships) /\ IsFiniteSet(c.claims)
  <1>1. in \in Input
    BY InputsAssumption
  <1>2. /\ in.entities \in SUBSET EntityRow /\ in.facts \in SUBSET FactRow
        /\ in.relationships \in SUBSET RelRow /\ in.claims \in SUBSET ClaimRow
    <2> HIDE DEF EntityRow, FactRow, RelRow, ClaimRow
    <2> QED
      BY <1>1 DEF Input
  <1> DEFINE c == Cleaned(in)
  <1>3. /\ c = [entities |-> c.entities, facts |-> c.facts,
                relationships |-> c.relationships, claims |-> c.claims]
        /\ c.entities \in {{}, in.entities} /\ c.facts \in {{}, in.facts}
        /\ c.relationships \in {{}, in.relationships} /\ c.claims \in {{}, in.claims}
    BY DEF Cleaned
  <1>4. c \in Clean
    <2> HIDE DEF c
    <2> QED
      BY <1>2, <1>3 DEF Clean
  <1> HIDE DEF c
  <1>5. /\ IsFiniteSet(c.entities) /\ IsFiniteSet(c.facts)
        /\ IsFiniteSet(c.relationships) /\ IsFiniteSet(c.claims)
    BY <1>3, FS_EmptySet, InputsAssumption
  <1> QED
    BY <1>4, <1>5 DEF c

LEMMA RowIds ==
    ASSUME NEW c \in Clean
    PROVE  /\ c.entities \in SUBSET EntityRow /\ c.facts \in SUBSET FactRow
           /\ c.relationships \in SUBSET RelRow /\ c.claims \in SUBSET ClaimRow
           /\ Ids(c.entities) \subseteq EntityIds /\ Ids(c.facts) \subseteq FactIds
           /\ Ids(c.relationships) \subseteq RelIds /\ Ids(c.claims) \subseteq ClaimIds
  <1>1. /\ c.entities \in SUBSET EntityRow /\ c.facts \in SUBSET FactRow
        /\ c.relationships \in SUBSET RelRow /\ c.claims \in SUBSET ClaimRow
    BY DEF Clean
  <1>2. /\ \A r \in EntityRow : r.id \in EntityIds
        /\ \A r \in FactRow : r.id \in FactIds
        /\ \A r \in RelRow : r.id \in RelIds
        /\ \A r \in ClaimRow : r.id \in ClaimIds
    BY DEF EntityRow, FactRow, RelRow, ClaimRow
  <1> QED
    BY <1>1, <1>2 DEF Ids

LEMMA CountsOfRows ==
    ASSUME NEW in \in Inputs
    PROVE  RowCounts(in, Cleaned(in)) \in Counts
  <1> DEFINE c == Cleaned(in)
             n(f) == Cardinality(c[f]) + (IF f = "claims" THEN in.repeats[f] ELSE 0)
  <1>1. in.repeats \in [Files -> Nat]
    BY InputsAssumption DEF Input
  <1>2. \A f \in Files : Cardinality(c[f]) \in Nat
    <2> HIDE DEF c
    <2>1. /\ IsFiniteSet(c.entities) /\ IsFiniteSet(c.facts)
          /\ IsFiniteSet(c.relationships) /\ IsFiniteSet(c.claims)
      BY CleanedRows DEF c
    <2> QED
      BY <2>1, FS_CardinalityType DEF Files
  <1>3. \A f \in Files : n(f) \in Nat
    <2> HIDE DEF c
    <2> QED
      BY <1>1, <1>2
  <1> HIDE DEF n
  <1>4. [f \in Files |-> n(f)] \in [Files -> Nat]
    BY <1>3
  <1> QED
    BY <1>4 DEF RowCounts, Counts, n, c

\* A lint that finds nothing has checked every claim against the other files.
LEMMA NoIssues ==
    ASSUME NEW in \in Inputs, Issues(in) = {}
    PROVE  LET c == Cleaned(in) IN \A r \in c.claims :
           /\ r.subject # NoId => r.subject \in Ids(c.entities)
           /\ r.source \in Ids(c.facts) \cup Ids(c.relationships)
  <1> DEFINE c == Cleaned(in)
  <1>1. \A f \in in.unreadable : << "READ_ERROR", f >> \in Issues(in)
    BY DEF Issues
  <1>2. in.unreadable = {}
    BY <1>1
  <1>3. \A r \in c.claims : r \in ClaimRow
    BY CleanedRows, RowIds
  <1>4. \A r \in c.claims : r.type = "fact" \/ r.type = "relationship"
    BY <1>3 DEF ClaimRow
  <1>5. ASSUME NEW r \in c.claims, r.subject # NoId PROVE r.subject \in Ids(c.entities)
    <2>1. r.subject \notin Ids(c.entities) => << "UNKNOWN_SUBJECT_ID", r.id >> \in Issues(in)
      BY <1>2, <1>5 DEF Issues
    <2> QED
      BY <2>1
  <1>6. ASSUME NEW r \in c.claims, r.type = "fact" PROVE r.source \in Ids(c.facts)
    <2>1. r.source \notin Ids(c.facts) => << "UNKNOWN_FACT_SOURCE_ROW", r.id >> \in Issues(in)
      BY <1>2, <1>6 DEF Issues
    <2> QED
      BY <2>1
  <1>7. ASSUME NEW r \in c.claims, r.type = "relationship"
        PROVE  r.source \in Ids(c.relationships)
    <2>1. r.source \notin Ids(c.relationships) =>
            << "UNKNOWN_REL_SOURCE_ROW", r.id >> \in Issues(in)
      BY <1>2, <1>7 DEF Issues
    <2> QED
      BY <2>1
  <1> QED
    BY <1>4, <1>5, <1>6, <1>7

ProcessInv == FunctionsOK /\ \A run \in Runs : FilesInv(run)

LEMMA NextPlaces ==
    /\ AfterWrite("source") = "entities" /\ AfterWrite("entities") = "facts"
    /\ AfterWrite("facts") = "relationships" /\ AfterWrite("relationships") = "claims"
    /\ AfterWrite("claims") = "done"
  BY DEF AfterWrite

LEMMA InitProcess == Init => ProcessInv
  <1> SUFFICES ASSUME Init PROVE ProcessInv
    OBVIOUS
  <1>1. (CHOOSE in \in Inputs : TRUE) \in Inputs
    BY InputsAssumption
  <1>2. FunctionsOK
    BY <1>1 DEF Init, FunctionsOK, Places, Unwritten
  <1>3. \A run \in Runs : pc[run] = "new" /\ report[run] = NoFile /\ summary[run] = NoFile
    BY DEF Init
  <1> QED
    BY <1>2, <1>3, NoFileAssumption DEF ProcessInv, FilesInv, Writing

\* A step of another run's process leaves a run's files alone.
LEMMA OtherFiles ==
    ASSUME ProcessInv, NEW run \in Runs, NEW other \in Runs \ {run},
           Start(run) \/ Lint(run) \/ SaveReport(run) \/ SaveSummary(run) \/ Write(run)
               \/ Crash(run)
    PROVE  /\ pc'[other] = pc[other] /\ dry'[other] = dry[other]
           /\ input'[other] = input[other] /\ clean'[other] = clean[other]
           /\ report'[other] = report[other] /\ summary'[other] = summary[other]
  <1> USE DEF ProcessInv, FunctionsOK, Goto, fileVars
  <1>1. CASE Start(run)
    BY <1>1 DEF Start
  <1>2. CASE Lint(run)
    BY <1>2 DEF Lint
  <1>3. CASE SaveReport(run)
    BY <1>3 DEF SaveReport
  <1>4. CASE SaveSummary(run)
    BY <1>4 DEF SaveSummary
  <1>5. CASE Write(run)
    BY <1>5 DEF Write
  <1>6. CASE Crash(run)
    BY <1>6 DEF Crash
  <1> QED
    BY <1>1, <1>2, <1>3, <1>4, <1>5, <1>6

LEMMA OwnFiles ==
    ASSUME ProcessInv, NEW run \in Runs,
           Start(run) \/ Lint(run) \/ SaveReport(run) \/ SaveSummary(run) \/ Write(run)
               \/ Crash(run)
    PROVE  FunctionsOK' /\ FilesInv(run)'
  <1> USE DEF FunctionsOK, Goto, fileVars
  <1>0. FunctionsOK /\ FilesInv(run)
    BY DEF ProcessInv
  <1>1. CASE Start(run)
    <2>1. FunctionsOK'
      BY <1>0, <1>1 DEF Start, Places, Unwritten
    <2>2. pc'[run] = "lint" /\ report'[run] = NoFile /\ summary'[run] = NoFile
      BY <1>0, <1>1 DEF Start, FilesInv
    <2> QED
      BY <2>1, <2>2, NoFileAssumption DEF FilesInv, Writing
  <1>2. CASE Lint(run)
    <2>1. Cleaned(input[run]) \in Clean
      BY <1>0, CleanedRows
    <2>2. FunctionsOK'
      BY <1>0, <1>2, <2>1 DEF Lint, Places, Unwritten
    <2>3. /\ pc'[run] = "saveReport" /\ report'[run] = NoFile /\ summary'[run] = NoFile
          /\ clean'[run] = Cleaned(input'[run])
      BY <1>0, <1>2 DEF Lint, FilesInv
    <2> QED
      BY <2>2, <2>3, NoFileAssumption DEF FilesInv, Writing
  <1>3. CASE SaveReport(run)
    <2>1. /\ UNCHANGED << dry, input, clean, summary, used >>
          /\ \/ /\ report' = [report EXCEPT ![run] = "failed"]
                /\ pc' = [pc EXCEPT ![run] = "failed"]
             \/ /\ Issues(input[run]) = {}
                /\ report' = [report EXCEPT ![run] = "ok"]
                /\ pc' = [pc EXCEPT ![run] = "saveSummary"]
      BY <1>3 DEF SaveReport
    <2>2. FunctionsOK'
      BY <1>0, <2>1 DEF Places, Unwritten
    <2>3. clean[run] = Cleaned(input[run]) /\ summary[run] = NoFile
      BY <1>0, <1>3 DEF SaveReport, FilesInv
    <2>4. FilesInv(run)'
      BY <1>0, <2>1, <2>3 DEF FilesInv, Writing
    <2> QED
      BY <2>2, <2>4
  <1>4. CASE SaveSummary(run)
    <2>1. clean[run] = Cleaned(input[run]) /\ report[run] = "ok" /\ Issues(input[run]) = {}
      BY <1>0, <1>4 DEF SaveSummary, FilesInv
    <2>2. RowCounts(input[run], clean[run]) \in Counts
      BY <1>0, <2>1, CountsOfRows
    <2>3. /\ UNCHANGED << dry, input, clean, report, used >>
          /\ summary' = [summary EXCEPT ![run] = RowCounts(input[run], clean[run])]
          /\ \/ dry[run] /\ pc' = [pc EXCEPT ![run] = "done"]
             \/ ~dry[run] /\ pc' = [pc EXCEPT ![run] = "source"]
      BY <1>4 DEF SaveSummary
    <2>4. FunctionsOK'
      BY <1>0, <2>2, <2>3 DEF Places, Unwritten
    <2>5. FilesInv(run)'
      BY <1>0, <2>1, <2>3 DEF FilesInv, Writing
    <2> QED
      BY <2>4, <2>5
  <1>5. CASE Write(run)
    <2>1. /\ UNCHANGED << dry, input, clean, report, summary, used >>
          /\ pc[run] \in {"source"} \cup Writing
          /\ pc' = [pc EXCEPT ![run] = AfterWrite(pc[run])]
          /\ AfterWrite(pc[run]) \in Writing \cup {"done"}
      BY <1>5, NextPlaces DEF Write, Writing
    <2>2. FunctionsOK'
      BY <1>0, <2>1 DEF Places
    <2>3. FilesInv(run)'
      BY <1>0, <2>1 DEF FilesInv, Writing
    <2> QED
      BY <2>2, <2>3
  <1>6. CASE Crash(run)
    <2>1. /\ UNCHANGED << dry, input, clean, report, summary >>
          /\ pc' = [pc EXCEPT ![run] = "failed"] /\ used' = [used EXCEPT !.crashes = @ + 1]
      BY <1>6 DEF Crash
    <2>2. FunctionsOK'
      BY <1>0, <2>1 DEF Places
    <2>3. FilesInv(run)'
      BY <1>0, <2>1 DEF FilesInv, Writing
    <2> QED
      BY <2>2, <2>3
  <1> QED
    BY <1>1, <1>2, <1>3, <1>4, <1>5, <1>6

LEMMA ProcessStep == ProcessInv /\ [Next]_vars => ProcessInv'
  <1> SUFFICES ASSUME ProcessInv, [Next]_vars PROVE ProcessInv'
    OBVIOUS
  <1>1. ASSUME NEW run \in Runs,
               Start(run) \/ Lint(run) \/ SaveReport(run) \/ SaveSummary(run) \/ Write(run)
                   \/ Crash(run)
        PROVE  ProcessInv'
    <2>1. FunctionsOK' /\ FilesInv(run)'
      BY <1>1, OwnFiles
    <2>2. ASSUME NEW other \in Runs \ {run} PROVE FilesInv(other)'
      BY <1>1, OtherFiles DEF FilesInv, ProcessInv
    <2> QED
      BY <2>1, <2>2 DEF ProcessInv
  <1>2. CASE Reset
    BY <1>2 DEF Reset, ProcessInv, FunctionsOK, FilesInv, fileVars
  <1>3. CASE UNCHANGED vars
    BY <1>3 DEF vars, ProcessInv, FunctionsOK, FilesInv, fileVars
  <1> QED
    BY <1>1, <1>2, <1>3 DEF Next

-----------------------------------------------------------------------------
(* The graph.                                                              *)

\* The part of TypeOK that is about the graph.
GraphOK ==
    /\ sources \subseteq Runs
    /\ listed \subseteq entities
    /\ entities \subseteq Runs \X (EntityIds \cup {NoId})
    /\ records \subseteq Runs \X (FactIds \cup RelIds \cup ClaimIds)
    /\ \A e \in edges :
        \/ e[1] = "ASSERTED_IN" /\ e[2] \in listed \cup records /\ e[3] \in sources
        \/ e[1] \in {"ABOUT", "SUBJECT", "OBJECT", "TARGETS"}
            /\ e[2] \in records /\ e[3] \in entities
        \/ e[1] = "SUPPORTED_BY" /\ e[2] \in records /\ e[3] \in records

LEMMA RowFields ==
    /\ \A r \in EntityRow : r.id \in EntityIds
    /\ \A r \in FactRow : r.id \in FactIds /\ r.subject \in EntityIds \cup {NoId}
    /\ \A r \in RelRow : /\ r.id \in RelIds
                         /\ {r.subject, r.object} \subseteq EntityIds \cup {NoId}
    /\ \A r \in ClaimRow : /\ r.id \in ClaimIds
                           /\ {r.subject, r.object} \subseteq EntityIds \cup {NoId}
  BY DEF EntityRow, FactRow, RelRow, ClaimRow

\* What a process that writes has at hand.
LEMMA RowsAtHand ==
    ASSUME ProcessInv, NEW run \in Runs, pc[run] \in {"source"} \cup Writing
    PROVE  /\ input[run] \in Inputs /\ clean[run] = Cleaned(input[run])
           /\ report[run] = "ok" /\ Issues(input[run]) = {}
           /\ summary[run] # NoFile /\ ~dry[run] /\ clean[run] \in Clean
  <1>1. FunctionsOK /\ FilesInv(run)
    BY DEF ProcessInv
  <1>2. /\ input[run] \in Inputs /\ clean[run] = Cleaned(input[run])
        /\ report[run] = "ok" /\ Issues(input[run]) = {} /\ ~dry[run]
        /\ summary[run] = RowCounts(input[run], clean[run])
    BY <1>1 DEF FunctionsOK, FilesInv
  <1> QED
    BY <1>2, CleanedRows, CountsOfRows, NoFileAssumption

LEMMA WriteKeepsTypes ==
    ASSUME ProcessInv, GraphOK, NEW run \in Runs, Write(run)
    PROVE  GraphOK'
  <1> DEFINE c == clean[run]
  <1>0. pc[run] \in {"source"} \cup Writing
    BY DEF Write, Writing
  <1>1. c \in Clean
    BY <1>0, RowsAtHand
  <1>2. /\ c.entities \in SUBSET EntityRow /\ c.facts \in SUBSET FactRow
        /\ c.relationships \in SUBSET RelRow /\ c.claims \in SUBSET ClaimRow
    BY <1>1, RowIds
  <1> HIDE DEF c
  <1> USE DEF GraphOK, Node, Referred, Ids
  <1>3. CASE WriteSource(run)
    BY <1>3 DEF WriteSource
  <1>4. CASE WriteEntities(run, c.entities)
    <2>1. Referred(run, Ids(c.entities)) \subseteq Runs \X EntityIds
      BY <1>2, RowFields
    <2>2. \A e \in edges' \ edges :
            e[1] = "ASSERTED_IN" /\ e[2] \in listed' /\ e[3] \in sources
      BY <1>4 DEF WriteEntities, AssertedIn
    <2> QED
      BY <1>4, <2>1, <2>2 DEF WriteEntities
  <1>5. CASE WriteFacts(run, c.facts)
    <2>1. /\ Referred(run, Ids(c.facts)) \subseteq Runs \X FactIds
          /\ Referred(run, { r.subject : r \in c.facts }) \subseteq Runs \X (EntityIds \cup {NoId})
      BY <1>2, RowFields
    <2>2. \A e \in edges' \ edges :
            \/ e[1] = "ASSERTED_IN" /\ e[2] \in records' /\ e[3] \in sources
            \/ e[1] = "ABOUT" /\ e[2] \in records' /\ e[3] \in entities'
      BY <1>5 DEF WriteFacts, AssertedIn
    <2>3. /\ UNCHANGED << sources, listed >>
          /\ records \subseteq records' /\ entities \subseteq entities'
          /\ records' \subseteq Runs \X (FactIds \cup RelIds \cup ClaimIds)
          /\ entities' \subseteq Runs \X (EntityIds \cup {NoId})
      BY <1>5, <2>1 DEF WriteFacts
    <2> QED
      BY <2>2, <2>3
  <1>6. CASE WriteRelationships(run, c.relationships)
    <2>1. /\ Referred(run, Ids(c.relationships)) \subseteq Runs \X RelIds
          /\ Referred(run, { r.subject : r \in c.relationships })
                \subseteq Runs \X (EntityIds \cup {NoId})
          /\ Referred(run, { r.object : r \in c.relationships })
                \subseteq Runs \X (EntityIds \cup {NoId})
      BY <1>2, RowFields
    <2>2. \A e \in edges' \ edges :
            \/ e[1] = "ASSERTED_IN" /\ e[2] \in records' /\ e[3] \in sources
            \/ e[1] \in {"SUBJECT", "OBJECT"} /\ e[2] \in records' /\ e[3] \in entities'
      BY <1>6 DEF WriteRelationships, AssertedIn
    <2>3. /\ UNCHANGED << sources, listed >>
          /\ records \subseteq records' /\ entities \subseteq entities'
          /\ records' \subseteq Runs \X (FactIds \cup RelIds \cup ClaimIds)
          /\ entities' \subseteq Runs \X (EntityIds \cup {NoId})
      BY <1>6, <2>1 DEF WriteRelationships
    <2> QED
      BY <2>2, <2>3
  <1>7. CASE WriteClaims(run, c.claims)
    <2> DEFINE objects == { r \in c.claims : r.object # NoId }
    <2>1. /\ Referred(run, Ids(c.claims)) \subseteq Runs \X ClaimIds
          /\ Referred(run, { r.subject : r \in c.claims })
                \subseteq Runs \X (EntityIds \cup {NoId})
          /\ Referred(run, { r.object : r \in objects })
                \subseteq Runs \X (EntityIds \cup {NoId})
      BY <1>2, RowFields
    <2> DEFINE about == { << "ABOUT", Node(run, r.id), Node(run, r.subject) >> : r \in c.claims }
               targets == { << "TARGETS", Node(run, r.id), Node(run, r.object) >> : r \in objects }
    <2>4. /\ records' = records \cup Referred(run, Ids(c.claims))
          /\ entities' = entities \cup Referred(run, { r.subject : r \in c.claims })
                                  \cup Referred(run, { r.object : r \in objects })
          /\ edges' = edges \cup AssertedIn(run, Ids(c.claims)) \cup Support(run, c.claims)
                            \cup about \cup targets
      BY <1>7 DEF WriteClaims
    <2>5. \A e \in AssertedIn(run, Ids(c.claims)) :
            e[1] = "ASSERTED_IN" /\ e[2] \in records' /\ e[3] \in sources
      BY <2>4 DEF AssertedIn
    <2>6. \A e \in Support(run, c.claims) :
            e[1] = "SUPPORTED_BY" /\ e[2] \in records' /\ e[3] \in records'
      <3> SUFFICES ASSUME NEW e \in Support(run, c.claims)
                   PROVE  e[1] = "SUPPORTED_BY" /\ e[2] \in records' /\ e[3] \in records'
        OBVIOUS
      <3>1. PICK r \in c.claims :
              /\ e = << "SUPPORTED_BY", Node(run, r.id), Node(run, r.source) >>
              /\ Node(run, r.source) \in records
        BY DEF Support
      <3> QED
        BY <2>4, <3>1
    <2>7. \A e \in about : e[1] = "ABOUT" /\ e[2] \in records' /\ e[3] \in entities'
      BY <2>4
    <2>8. \A e \in targets : e[1] = "TARGETS" /\ e[2] \in records' /\ e[3] \in entities'
      BY <2>4
    <2>2. \A e \in edges' \ edges :
            \/ e[1] = "ASSERTED_IN" /\ e[2] \in records' /\ e[3] \in sources
            \/ e[1] \in {"ABOUT", "TARGETS"} /\ e[2] \in records' /\ e[3] \in entities'
            \/ e[1] = "SUPPORTED_BY" /\ e[2] \in records' /\ e[3] \in records'
      <3> HIDE DEF about, targets
      <3> QED
        BY <2>4, <2>5, <2>6, <2>7, <2>8
    <2>3. /\ UNCHANGED << sources, listed >>
          /\ records \subseteq records' /\ entities \subseteq entities'
          /\ records' \subseteq Runs \X (FactIds \cup RelIds \cup ClaimIds)
          /\ entities' \subseteq Runs \X (EntityIds \cup {NoId})
      BY <1>7, <2>1 DEF WriteClaims
    <2> QED
      BY <2>2, <2>3
  <1> QED
    BY <1>3, <1>4, <1>5, <1>6, <1>7 DEF Write, c

LEMMA InitGraph == Init => GraphOK
  BY DEF Init, GraphOK

LEMMA GraphStep == ProcessInv /\ GraphOK /\ [Next]_vars => GraphOK'
  <1> SUFFICES ASSUME ProcessInv, GraphOK, [Next]_vars PROVE GraphOK'
    OBVIOUS
  <1>1. ASSUME NEW run \in Runs, Write(run) PROVE GraphOK'
    BY <1>1, WriteKeepsTypes
  <1>2. ASSUME NEW run \in Runs,
               Start(run) \/ Lint(run) \/ SaveReport(run) \/ SaveSummary(run) \/ Crash(run)
        PROVE  UNCHANGED graphVars
    BY <1>2 DEF Start, Lint, SaveReport, SaveSummary, Crash
  <1>3. CASE UNCHANGED graphVars
    BY <1>3 DEF graphVars, GraphOK
  <1>4. CASE Reset
    BY <1>4 DEF Reset, GraphOK
  <1> QED
    BY <1>1, <1>2, <1>3, <1>4 DEF Next, vars

-----------------------------------------------------------------------------
(* What writes add.                                                        *)

\* A write adds nodes of its own run, and edges that lead from them.
LEMMA WriteAdds ==
    ASSUME NEW run \in Runs, Write(run)
    PROVE  /\ sources \subseteq sources' /\ sources' \subseteq sources \cup {run}
           /\ records \subseteq records' /\ \A n \in records' \ records : n[1] = run
           /\ listed \subseteq listed' /\ \A n \in listed' \ listed : n[1] = run
           /\ entities \subseteq entities' /\ \A n \in entities' \ entities : n[1] = run
           /\ edges \subseteq edges' /\ \A e \in edges' \ edges : e[2][1] = run
  <1> DEFINE c == clean[run]
  <1> HIDE DEF c
  <1> USE DEF Node, Referred, AssertedIn
  <1>1. CASE WriteSource(run)
    BY <1>1 DEF WriteSource
  <1>2. CASE WriteEntities(run, c.entities)
    BY <1>2 DEF WriteEntities
  <1>3. CASE WriteFacts(run, c.facts)
    BY <1>3 DEF WriteFacts
  <1>4. CASE WriteRelationships(run, c.relationships)
    BY <1>4 DEF WriteRelationships
  <1>5. CASE WriteClaims(run, c.claims)
    <2> DEFINE objects == { r \in c.claims : r.object # NoId }
               about == { << "ABOUT", Node(run, r.id), Node(run, r.subject) >> : r \in c.claims }
               targets == { << "TARGETS", Node(run, r.id), Node(run, r.object) >> : r \in objects }
    <2>1. /\ UNCHANGED << sources, listed >>
          /\ records' = records \cup Referred(run, Ids(c.claims))
          /\ entities' = entities \cup Referred(run, { r.subject : r \in c.claims })
                                  \cup Referred(run, { r.object : r \in objects })
          /\ edges' = edges \cup AssertedIn(run, Ids(c.claims)) \cup Support(run, c.claims)
                            \cup about \cup targets
      BY <1>5 DEF WriteClaims
    <2>2. /\ \A e \in AssertedIn(run, Ids(c.claims)) : e[2][1] = run
          /\ \A e \in about : e[2][1] = run
          /\ \A e \in targets : e[2][1] = run
      OBVIOUS
    <2>3. \A e \in Support(run, c.claims) : e[2][1] = run
      <3> SUFFICES ASSUME NEW e \in Support(run, c.claims) PROVE e[2][1] = run
        OBVIOUS
      <3>1. PICK r \in c.claims :
              e = << "SUPPORTED_BY", Node(run, r.id), Node(run, r.source) >>
        BY DEF Support
      <3> QED
        BY <3>1
    <2>4. \A n \in (records' \ records) \cup (entities' \ entities) : n[1] = run
      BY <2>1
    <2> HIDE DEF about, targets
    <2> QED
      BY <2>1, <2>2, <2>3, <2>4
  <1> QED
    BY <1>1, <1>2, <1>3, <1>4, <1>5 DEF Write, c

\* For GraphOK nodes are pairs, and the far end of evidence is there.
LEMMA ReleasedIds ==
    ASSUME GraphOK, NEW run
    PROVE  Released(run) = { i \in ClaimIds :
               \E e \in edges : e[1] = "SUPPORTED_BY" /\ e[2] = Node(run, i) }
  BY DEF GraphOK, Released

LEMMA IdsOfNodes ==
    ASSUME GraphOK, NEW run \in Runs
    PROVE  /\ \A i : i \in RecordIds(run) <=> Node(run, i) \in records
           /\ \A i : i \in ListedIds(run) <=> Node(run, i) \in listed
  <1>1. \A n \in records \cup listed : n = << n[1], n[2] >>
    BY DEF GraphOK
  <1>2. \A i : Node(run, i)[1] = run /\ Node(run, i)[2] = i
    BY DEF Node
  <1> QED
    BY <1>1, <1>2 DEF RecordIds, ListedIds, Node

LEMMA OtherNodes ==
    ASSUME GraphOK, GraphOK', NEW run \in Runs, NEW other \in Runs \ {run}, Write(run)
    PROVE  /\ RecordIds(other)' = RecordIds(other) /\ ListedIds(other)' = ListedIds(other)
           /\ NodesOf(other)' = NodesOf(other) /\ Released(other)' = Released(other)
           /\ other \in sources' <=> other \in sources
  <1>1. /\ { n \in records' : n[1] = other } = { n \in records : n[1] = other }
        /\ { n \in listed' : n[1] = other } = { n \in listed : n[1] = other }
        /\ { n \in entities' : n[1] = other } = { n \in entities : n[1] = other }
        /\ other \in sources' <=> other \in sources
    BY WriteAdds
  <1>2. \A i, e : e \in edges' /\ e[2] = Node(other, i) <=> e \in edges /\ e[2] = Node(other, i)
    BY WriteAdds DEF Node
  <1>3. /\ RecordIds(other)' = RecordIds(other) /\ ListedIds(other)' = ListedIds(other)
        /\ NodesOf(other)' = NodesOf(other)
    BY <1>1 DEF RecordIds, ListedIds, NodesOf
  <1>4. Released(other)' = { i \in ClaimIds :
            \E e \in edges' : e[1] = "SUPPORTED_BY" /\ e[2] = Node(other, i) }
    BY DEF GraphOK, Released
  <1>5. Released(other)' = Released(other)
    BY <1>2, <1>4, ReleasedIds
  <1> QED
    BY <1>1, <1>3, <1>5

\* What each write adds to its run.
LEMMA OwnNodes ==
    ASSUME GraphOK, GraphOK', NEW run \in Runs, Write(run)
    PROVE  LET c == clean[run]
               supported == { r.id : r \in { r \in c.claims :
                                run \in sources /\ r.source \in RecordIds(run) } }
           IN
           \/ /\ pc[run] = "source"
              /\ RecordIds(run)' = RecordIds(run) /\ ListedIds(run)' = ListedIds(run)
              /\ Released(run)' = Released(run)
           \/ /\ pc[run] = "entities" /\ UNCHANGED sources
              /\ RecordIds(run)' = RecordIds(run)
              /\ ListedIds(run)' = ListedIds(run) \cup Ids(c.entities)
              /\ Released(run)' = Released(run)
           \/ /\ pc[run] = "facts" /\ UNCHANGED sources
              /\ RecordIds(run)' = RecordIds(run) \cup Ids(c.facts)
              /\ ListedIds(run)' = ListedIds(run) /\ Released(run)' = Released(run)
           \/ /\ pc[run] = "relationships" /\ UNCHANGED sources
              /\ RecordIds(run)' = RecordIds(run) \cup Ids(c.relationships)
              /\ ListedIds(run)' = ListedIds(run) /\ Released(run)' = Released(run)
           \/ /\ pc[run] = "claims" /\ UNCHANGED sources
              /\ RecordIds(run)' = RecordIds(run) \cup Ids(c.claims)
              /\ ListedIds(run)' = ListedIds(run)
              /\ Released(run)' = Released(run) \cup (supported \cap ClaimIds)
  <1> DEFINE c == clean[run]
             supported == { r.id : r \in { r \in c.claims :
                              run \in sources /\ r.source \in RecordIds(run) } }
  <1>1. /\ \A i : i \in RecordIds(run)' <=> Node(run, i) \in records'
        /\ \A i : i \in ListedIds(run)' <=> Node(run, i) \in listed'
        /\ \A i : i \in RecordIds(run) <=> Node(run, i) \in records
        /\ \A i : i \in ListedIds(run) <=> Node(run, i) \in listed
    <2>1. \A n \in records' \cup listed' : n = << n[1], n[2] >>
      BY DEF GraphOK
    <2>2. /\ \A i : i \in RecordIds(run)' <=> Node(run, i) \in records'
          /\ \A i : i \in ListedIds(run)' <=> Node(run, i) \in listed'
      BY <2>1 DEF RecordIds, ListedIds, Node
    <2> QED
      BY <2>2, IdsOfNodes
  <1>2. /\ Released(run) = { i \in ClaimIds :
               \E e \in edges : e[1] = "SUPPORTED_BY" /\ e[2] = Node(run, i) }
        /\ Released(run)' = { i \in ClaimIds :
               \E e \in edges' : e[1] = "SUPPORTED_BY" /\ e[2] = Node(run, i) }
    BY ReleasedIds DEF GraphOK, Released
  <1>3. \A rows : \A i : Node(run, i) \in Referred(run, rows) <=> i \in rows
    BY DEF Node, Referred
  <1>4. \A e : e \in AssertedIn(run, Ids(c.entities)) \cup AssertedIn(run, Ids(c.facts))
                     \cup AssertedIn(run, Ids(c.relationships)) \cup AssertedIn(run, Ids(c.claims))
               => e[1] = "ASSERTED_IN"
    BY DEF AssertedIn
  <1> HIDE DEF c, supported
  <1>5. CASE pc[run] = "source" /\ WriteSource(run)
    BY <1>5, <1>1, <1>2 DEF WriteSource, c, supported
  <1>6. CASE pc[run] = "entities" /\ WriteEntities(run, c.entities)
    <2>1. \A e \in edges' \ edges : e[1] # "SUPPORTED_BY"
      BY <1>4, <1>6 DEF WriteEntities
    <2>2. Released(run)' = Released(run)
      BY <1>2, <1>6, <2>1 DEF WriteEntities
    <2>3. /\ RecordIds(run)' = RecordIds(run)
          /\ ListedIds(run)' = ListedIds(run) \cup Ids(c.entities)
      BY <1>1, <1>3, <1>6 DEF WriteEntities
    <2> QED
      BY <1>6, <2>2, <2>3 DEF WriteEntities, c
  <1>7. CASE pc[run] = "facts" /\ WriteFacts(run, c.facts)
    <2>1. \A e \in edges' \ edges : e[1] # "SUPPORTED_BY"
      BY <1>4, <1>7 DEF WriteFacts
    <2>2. Released(run)' = Released(run)
      BY <1>2, <1>7, <2>1 DEF WriteFacts
    <2>3. /\ RecordIds(run)' = RecordIds(run) \cup Ids(c.facts)
          /\ ListedIds(run)' = ListedIds(run)
      BY <1>1, <1>3, <1>7 DEF WriteFacts
    <2> QED
      BY <1>7, <2>2, <2>3 DEF WriteFacts, c
  <1>8. CASE pc[run] = "relationships" /\ WriteRelationships(run, c.relationships)
    <2>1. \A e \in edges' \ edges : e[1] # "SUPPORTED_BY"
      BY <1>4, <1>8 DEF WriteRelationships
    <2>2. Released(run)' = Released(run)
      BY <1>2, <1>8, <2>1 DEF WriteRelationships
    <2>3. /\ RecordIds(run)' = RecordIds(run) \cup Ids(c.relationships)
          /\ ListedIds(run)' = ListedIds(run)
      BY <1>1, <1>3, <1>8 DEF WriteRelationships
    <2> QED
      BY <1>8, <2>2, <2>3 DEF WriteRelationships, c
  <1>9. CASE pc[run] = "claims" /\ WriteClaims(run, c.claims)
    <2>1. \A i : (\E e \in Support(run, c.claims) : e[2] = Node(run, i)) <=> i \in supported
      <3>1. ASSUME NEW i, NEW e \in Support(run, c.claims), e[2] = Node(run, i)
            PROVE  i \in supported
        <4>1. PICK r \in c.claims :
                /\ e = << "SUPPORTED_BY", Node(run, r.id), Node(run, r.source) >>
                /\ run \in sources /\ Node(run, r.source) \in records
          BY DEF Support
        <4>2. r.id = i
          BY <3>1, <4>1 DEF Node
        <4> QED
          BY <1>1, <4>1, <4>2 DEF supported
      <3>2. ASSUME NEW i \in supported
            PROVE  \E e \in Support(run, c.claims) : e[2] = Node(run, i)
        <4>1. PICK r \in c.claims : r.id = i /\ run \in sources /\ r.source \in RecordIds(run)
          BY DEF supported
        <4>2. << "SUPPORTED_BY", Node(run, i), Node(run, r.source) >> \in Support(run, c.claims)
          BY <1>1, <4>1 DEF Support
        <4> QED
          BY <4>2
      <3> QED
        BY <3>1, <3>2
    <2>2. /\ \A e \in Support(run, c.claims) : e[1] = "SUPPORTED_BY"
          /\ Support(run, c.claims) \subseteq edges' /\ edges \subseteq edges'
          /\ \A e \in edges' \ (edges \cup Support(run, c.claims)) : e[1] # "SUPPORTED_BY"
      BY <1>4, <1>9 DEF WriteClaims, Support
    <2>3. Released(run)' = Released(run) \cup (supported \cap ClaimIds)
      BY <1>2, <2>1, <2>2
    <2>4. /\ RecordIds(run)' = RecordIds(run) \cup Ids(c.claims)
          /\ ListedIds(run)' = ListedIds(run)
      BY <1>1, <1>3, <1>9 DEF WriteClaims
    <2> QED
      BY <1>9, <2>3, <2>4 DEF WriteClaims, c, supported
  <1> QED
    BY <1>5, <1>6, <1>7, <1>8, <1>9 DEF Write, c, supported

-----------------------------------------------------------------------------
(* Nodes of a run.                                                         *)

RunsInv == \A run \in Runs : NodesInv(run) /\ (NoReset => ExactInv(run))

QuietStep(run) ==
    Start(run) \/ Lint(run) \/ SaveReport(run) \/ SaveSummary(run) \/ Crash(run)

LEMMA EmptyRuns ==
    ASSUME records = {}, entities = {}, listed = {}, edges = {}, NEW run
    PROVE  /\ NodesOf(run) = {} /\ Released(run) = {}
           /\ RecordIds(run) = {} /\ ListedIds(run) = {}
  BY DEF NodesOf, Released, RecordIds, ListedIds

LEMMA NoNodesNoIds ==
    ASSUME GraphOK, NEW run, NodesOf(run) = {}
    PROVE  RecordIds(run) = {} /\ ListedIds(run) = {} /\ Released(run) = {}
  <1>1. \A n \in records \cup listed : n[1] # run
    BY DEF NodesOf, GraphOK
  <1>2. \A i : Node(run, i) \notin records
    BY <1>1 DEF Node
  <1> QED
    BY <1>1, <1>2 DEF RecordIds, ListedIds, Released, GraphOK

LEMMA InitRuns == Init => RunsInv
  <1> SUFFICES ASSUME Init, NEW run \in Runs PROVE NodesInv(run) /\ ExactInv(run)
    BY DEF RunsInv
  <1>1. pc[run] = "new" /\ sources = {}
    BY DEF Init
  <1>2. NodesOf(run) = {} /\ Released(run) = {} /\ RecordIds(run) = {} /\ ListedIds(run) = {}
    BY EmptyRuns DEF Init
  <1> QED
    BY <1>1, <1>2 DEF NodesInv, ExactInv, Unwritten

\* Steps without a write.
LEMMA QuietRuns ==
    ASSUME ProcessInv, GraphOK, RunsInv, NEW run \in Runs, QuietStep(run)
    PROVE  RunsInv'
  <1>1. UNCHANGED graphVars
    BY DEF QuietStep, Start, Lint, SaveReport, SaveSummary, Crash
  <1>2. NoReset' <=> NoReset
    BY DEF QuietStep, Start, Lint, SaveReport, SaveSummary, Crash, NoReset, ProcessInv,
           FunctionsOK
  <1>3. \A r \in Runs :
            /\ NodesOf(r)' = NodesOf(r) /\ Released(r)' = Released(r)
            /\ RecordIds(r)' = RecordIds(r) /\ ListedIds(r)' = ListedIds(r)
            /\ r \in sources' <=> r \in sources
    BY <1>1 DEF graphVars, NodesOf, Released, RecordIds, ListedIds
  <1>4. ASSUME NEW r \in Runs \ {run} PROVE NodesInv(r)' /\ (NoReset' => ExactInv(r)')
    <2>1. /\ pc'[r] = pc[r] /\ dry'[r] = dry[r] /\ clean'[r] = clean[r]
          /\ report'[r] = report[r] /\ summary'[r] = summary[r]
      BY OtherFiles DEF QuietStep
    <2> QED
      BY <1>2, <1>3, <2>1 DEF RunsInv, NodesInv, ExactInv
  <1>5. CASE Crash(run)
    <2>1. /\ pc'[run] = "failed" /\ UNCHANGED << dry, clean, report, summary >>
      BY <1>5 DEF Crash, Goto, ProcessInv, FunctionsOK, fileVars
    <2>2. NodesInv(run)'
      BY <1>3, <2>1 DEF RunsInv, NodesInv, Unwritten
    <2>3. ExactInv(run)'
      BY <2>1 DEF ExactInv, Unwritten
    <2> QED
      BY <1>4, <2>2, <2>3 DEF RunsInv
  <1>6. CASE Start(run) \/ Lint(run) \/ SaveReport(run) \/ SaveSummary(run)
    <2>1. pc[run] \in Unwritten
      BY <1>6 DEF Start, Lint, SaveReport, SaveSummary, Unwritten
    <2>2. pc'[run] \in Unwritten \cup {"failed"} \/ (pc'[run] = "done" /\ dry'[run])
      BY <1>6 DEF Start, Lint, SaveReport, SaveSummary, Goto, Unwritten, ProcessInv, FunctionsOK
    <2>3. /\ NodesOf(run)' = {} /\ Released(run)' = {} /\ run \notin sources'
          /\ RecordIds(run)' = {} /\ ListedIds(run)' = {}
      BY <1>3, <2>1, NoNodesNoIds DEF RunsInv, NodesInv
    <2>4. NodesInv(run)'
      BY <2>2, <2>3 DEF NodesInv
    <2>5. ExactInv(run)'
      BY <2>2, <2>3 DEF ExactInv, Unwritten
    <2> QED
      BY <1>4, <2>4, <2>5 DEF RunsInv
  <1> QED
    BY <1>5, <1>6 DEF QuietStep

\* A write finds what the writes before it left, less what a reset took.
LEMMA WriteRuns ==
    ASSUME ProcessInv, GraphOK, GraphOK', RunsInv, NEW run \in Runs, Write(run)
    PROVE  RunsInv'
  <1>1. UNCHANGED << dry, clean, report, summary, used >>
    BY DEF Write, fileVars
  <1>2. NoReset' <=> NoReset
    BY <1>1 DEF NoReset
  <1>3. ASSUME NEW r \in Runs \ {run} PROVE NodesInv(r)' /\ (NoReset' => ExactInv(r)')
    <2>1. pc'[r] = pc[r]
      BY OtherFiles
    <2>2. /\ RecordIds(r)' = RecordIds(r) /\ ListedIds(r)' = ListedIds(r)
          /\ NodesOf(r)' = NodesOf(r) /\ Released(r)' = Released(r)
          /\ r \in sources' <=> r \in sources
      BY OtherNodes
    <2> QED
      BY <1>1, <1>2, <2>1, <2>2 DEF RunsInv, NodesInv, ExactInv
  <1>4. pc[run] \in {"source"} \cup Writing /\ pc'[run] = AfterWrite(pc[run])
    BY DEF Write, Writing, Goto, ProcessInv, FunctionsOK
  <1>5. report[run] = "ok" /\ summary[run] # NoFile /\ ~dry[run]
    BY <1>4, RowsAtHand
  <1>6. /\ pc[run] = "source" => pc'[run] = "entities"
        /\ pc[run] = "entities" => pc'[run] = "facts"
        /\ pc[run] = "facts" => pc'[run] = "relationships"
        /\ pc[run] = "relationships" => pc'[run] = "claims"
        /\ pc[run] = "claims" => pc'[run] = "done"
    BY <1>4, NextPlaces
  <1>7. NodesInv(run) /\ (NoReset => ExactInv(run))
    BY DEF RunsInv
  <1>8. NodesInv(run)'
    <2>1. pc'[run] # "done" => Released(run)' = {}
      BY <1>4, <1>6, <1>7, OwnNodes DEF NodesInv, Writing
    <2>2. run \in sources' /\ pc'[run] = "claims" =>
            Ids(clean'[run].facts) \cup Ids(clean'[run].relationships) \subseteq RecordIds(run)'
      BY <1>1, <1>4, <1>6, <1>7, OwnNodes DEF NodesInv, Writing
    <2>3. run \in sources' /\ pc'[run] = "relationships" =>
            Ids(clean'[run].facts) \subseteq RecordIds(run)'
      BY <1>1, <1>4, <1>6, <1>7, OwnNodes DEF NodesInv, Writing
    <2>4. pc'[run] \notin Unwritten
      BY <1>4, <1>6 DEF Writing, Unwritten
    <2> QED
      BY <1>1, <1>5, <2>1, <2>2, <2>3, <2>4 DEF NodesInv
  <1>9. ASSUME NoReset PROVE ExactInv(run)'
    <2>1. ExactInv(run)
      BY <1>7, <1>9
    <2>2. CASE pc[run] = "source"
      <3>1. RecordIds(run)' = {} /\ ListedIds(run)' = {}
        BY <2>1, <2>2, OwnNodes DEF ExactInv, Unwritten
      <3> QED
        BY <1>6, <2>2, <3>1 DEF ExactInv
    <2>3. CASE pc[run] = "entities"
      <3>1. RecordIds(run)' = {} /\ ListedIds(run)' = Ids(clean'[run].entities)
        BY <1>1, <2>1, <2>3, OwnNodes DEF ExactInv
      <3> QED
        BY <1>6, <2>3, <3>1 DEF ExactInv, Unwritten
    <2>4. CASE pc[run] = "facts"
      <3>1. /\ RecordIds(run)' = Ids(clean'[run].facts)
            /\ ListedIds(run)' = Ids(clean'[run].entities)
        BY <1>1, <2>1, <2>4, OwnNodes DEF ExactInv
      <3> QED
        BY <1>6, <2>4, <3>1 DEF ExactInv, Unwritten
    <2>5. CASE pc[run] = "relationships"
      <3>1. /\ RecordIds(run)' = Ids(clean'[run].facts) \cup Ids(clean'[run].relationships)
            /\ ListedIds(run)' = Ids(clean'[run].entities)
        BY <1>1, <2>1, <2>5, OwnNodes DEF ExactInv
      <3> QED
        BY <1>6, <2>5, <3>1 DEF ExactInv, Unwritten
    <2>6. CASE pc[run] = "claims"
      <3>1. /\ RecordIds(run)' = Ids(clean'[run].facts) \cup Ids(clean'[run].relationships)
                                 \cup Ids(clean'[run].claims)
            /\ ListedIds(run)' = Ids(clean'[run].entities)
        BY <1>1, <2>1, <2>6, OwnNodes DEF ExactInv
      <3> QED
        BY <1>6, <2>6, <3>1 DEF ExactInv, Unwritten
    <2> QED
      BY <1>4, <2>2, <2>3, <2>4, <2>5, <2>6 DEF Writing
  <1> QED
    BY <1>2, <1>3, <1>8, <1>9 DEF RunsInv

LEMMA ResetRuns ==
    ASSUME ProcessInv, Reset
    PROVE  RunsInv'
  <1>1. records' = {} /\ entities' = {} /\ listed' = {} /\ edges' = {} /\ sources' = {}
    BY DEF Reset
  <1>2. ~NoReset'
    BY DEF Reset, NoReset, ProcessInv, FunctionsOK
  <1>3. \A run \in Runs : NodesOf(run)' = {} /\ Released(run)' = {}
    BY <1>1 DEF NodesOf, Released
  <1>4. UNCHANGED << pc, clean >>
    BY DEF Reset, fileVars
  <1>5. \A run \in Runs : NodesInv(run)'
    BY <1>1, <1>3 DEF NodesInv
  <1> QED
    BY <1>2, <1>5 DEF RunsInv

LEMMA RunsStep == ProcessInv /\ GraphOK /\ RunsInv /\ [Next]_vars => RunsInv'
  <1> SUFFICES ASSUME ProcessInv, GraphOK, RunsInv, [Next]_vars PROVE RunsInv'
    OBVIOUS
  <1>1. ASSUME NEW run \in Runs, Write(run) PROVE RunsInv'
    BY <1>1, WriteRuns, WriteKeepsTypes
  <1>2. ASSUME NEW run \in Runs, QuietStep(run) PROVE RunsInv'
    BY <1>2, QuietRuns
  <1>3. CASE Reset
    BY <1>3, ResetRuns
  <1>4. CASE UNCHANGED vars
    BY <1>4 DEF vars, graphVars, fileVars, RunsInv, NodesInv, ExactInv, NodesOf, Released,
                RecordIds, ListedIds, NoReset
  <1> QED
    BY <1>1, <1>2, <1>3, <1>4 DEF Next, QuietStep

-----------------------------------------------------------------------------
(* Entities.                                                               *)

LEMMA InitTrace == Init => TraceInv
  BY DEF Init, TraceInv

\* A write adds an entity together with a row or an edge that needs it.
LEMMA NewEntities ==
    ASSUME NEW run \in Runs, Write(run), NEW n \in entities' \ entities
    PROVE  n \in listed' \/ \E e \in edges' : e[1] # "ASSERTED_IN" /\ e[3] = n
  <1> DEFINE c == clean[run]
  <1> HIDE DEF c
  <1> USE DEF Referred
  <1>1. CASE WriteSource(run)
    BY <1>1 DEF WriteSource
  <1>2. CASE WriteEntities(run, c.entities)
    BY <1>2 DEF WriteEntities
  <1>3. CASE WriteFacts(run, c.facts)
    <2>1. PICK r \in c.facts : n = Node(run, r.subject)
      BY <1>3 DEF WriteFacts
    <2>2. << "ABOUT", Node(run, r.id), Node(run, r.subject) >> \in edges'
      BY <1>3 DEF WriteFacts
    <2> QED
      BY <2>1, <2>2
  <1>4. CASE WriteRelationships(run, c.relationships)
    <2>1. PICK r \in c.relationships : n = Node(run, r.subject) \/ n = Node(run, r.object)
      BY <1>4 DEF WriteRelationships
    <2>2. /\ << "SUBJECT", Node(run, r.id), Node(run, r.subject) >> \in edges'
          /\ << "OBJECT", Node(run, r.id), Node(run, r.object) >> \in edges'
      BY <1>4 DEF WriteRelationships
    <2> QED
      BY <2>1, <2>2
  <1>5. CASE WriteClaims(run, c.claims)
    <2>1. PICK r \in c.claims : \/ n = Node(run, r.subject)
                                \/ r.object # NoId /\ n = Node(run, r.object)
      BY <1>5 DEF WriteClaims
    <2>2. /\ << "ABOUT", Node(run, r.id), Node(run, r.subject) >> \in edges'
          /\ r.object # NoId => << "TARGETS", Node(run, r.id), Node(run, r.object) >> \in edges'
      BY <1>5 DEF WriteClaims
    <2> QED
      BY <2>1, <2>2
  <1> QED
    BY <1>1, <1>2, <1>3, <1>4, <1>5 DEF Write, c

\* Claims are about entities of entities.csv, which were written before them.
LEMMA NewAbout ==
    ASSUME ProcessInv, GraphOK, RunsInv, NoReset, NEW run \in Runs, Write(run),
           NEW e \in edges' \ edges,
           e[1] = "ABOUT", e[2][2] \in ClaimIds, e[3][2] # NoId
    PROVE  e[3] \in listed
  <1> DEFINE c == clean[run]
  <1>0. pc[run] \in {"source"} \cup Writing
    BY DEF Write, Writing
  <1>1. c \in Clean /\ c = Cleaned(input[run]) /\ input[run] \in Inputs /\ Issues(input[run]) = {}
    BY <1>0, RowsAtHand
  <1>2. c.facts \in SUBSET FactRow
    BY <1>1, RowIds
  <1>3. c = clean[run]
    OBVIOUS
  <1> HIDE DEF c
  <1>4. \A rows : \A a \in AssertedIn(run, rows) : a[1] # "ABOUT"
    BY DEF AssertedIn
  <1>5. CASE WriteSource(run) \/ WriteEntities(run, c.entities)
             \/ WriteRelationships(run, c.relationships)
    BY <1>4, <1>5 DEF WriteSource, WriteEntities, WriteRelationships
  <1>6. CASE WriteFacts(run, c.facts)
    <2>1. PICK r \in c.facts : e = << "ABOUT", Node(run, r.id), Node(run, r.subject) >>
      BY <1>4, <1>6 DEF WriteFacts
    <2>2. e[2][2] \in FactIds
      BY <1>2, <2>1, RowFields DEF Node
    <2> QED
      BY <2>2, IdsAssumption
  <1>7. CASE pc[run] = "claims" /\ WriteClaims(run, c.claims)
    <2>1. \A a \in Support(run, c.claims) : a[1] # "ABOUT"
      <3> SUFFICES ASSUME NEW a \in Support(run, c.claims) PROVE a[1] # "ABOUT"
        OBVIOUS
      <3>1. PICK r \in c.claims :
              a = << "SUPPORTED_BY", Node(run, r.id), Node(run, r.source) >>
        BY DEF Support
      <3> QED
        BY <3>1
    <2>2. PICK r \in c.claims : e = << "ABOUT", Node(run, r.id), Node(run, r.subject) >>
      BY <1>4, <1>7, <2>1 DEF WriteClaims
    <2>3. e[3] = Node(run, r.subject) /\ r.subject # NoId
      BY <2>2 DEF Node
    <2>4. r.subject \in Ids(c.entities)
      BY <1>1, <2>3, NoIssues
    <2>5. ListedIds(run) = Ids(c.entities)
      BY <1>3, <1>7 DEF RunsInv, ExactInv
    <2> QED
      BY <2>3, <2>4, <2>5, IdsOfNodes
  <1> QED
    BY <1>3, <1>5, <1>6, <1>7 DEF Write

LEMMA TraceStep == ProcessInv /\ GraphOK /\ RunsInv /\ TraceInv /\ [Next]_vars => TraceInv'
  <1> SUFFICES ASSUME ProcessInv, GraphOK, RunsInv, TraceInv, [Next]_vars PROVE TraceInv'
    OBVIOUS
  <1>1. ASSUME NEW run \in Runs, Write(run) PROVE TraceInv'
    <2>1. listed \subseteq listed' /\ edges \subseteq edges' /\ entities \subseteq entities'
      BY <1>1, WriteAdds
    <2>2. NoReset' <=> NoReset
      BY <1>1 DEF Write, NoReset
    <2>3. \A n \in entities' : n \in listed' \/ \E e \in edges' : e[1] # "ASSERTED_IN" /\ e[3] = n
      BY <1>1, <2>1, NewEntities DEF TraceInv
    <2>4. NoReset => \A e \in edges' :
            e[1] = "ABOUT" /\ e[2][2] \in ClaimIds /\ e[3][2] # NoId => e[3] \in listed'
      BY <1>1, <2>1, NewAbout DEF TraceInv
    <2> QED
      BY <2>2, <2>3, <2>4 DEF TraceInv
  <1>2. ASSUME NEW run \in Runs, QuietStep(run) PROVE TraceInv'
    <2>1. UNCHANGED graphVars
      BY <1>2 DEF QuietStep, Start, Lint, SaveReport, SaveSummary, Crash
    <2>2. NoReset' <=> NoReset
      BY <1>2 DEF QuietStep, Start, Lint, SaveReport, SaveSummary, Crash, NoReset, ProcessInv,
                  FunctionsOK
    <2> QED
      BY <2>1, <2>2 DEF graphVars, TraceInv
  <1>3. CASE Reset
    <2>1. entities' = {} /\ edges' = {}
      BY <1>3 DEF Reset
    <2> QED
      BY <2>1 DEF TraceInv
  <1>4. CASE UNCHANGED vars
    BY <1>4 DEF vars, graphVars, TraceInv, NoReset
  <1> QED
    BY <1>1, <1>2, <1>3, <1>4 DEF Next, QuietStep

-----------------------------------------------------------------------------
(* The summary.                                                            *)

\* As many nodes as ids.
LEMMA NodesCounted ==
    ASSUME NEW run, NEW I, IsFiniteSet(I)
    PROVE  Cardinality({ Node(run, i) : i \in I }) = Cardinality(I)
  <1> DEFINE T == { Node(run, i) : i \in I }
             f == [i \in I |-> Node(run, i)]
  <1>1. f \in [I -> T] /\ \A i, j \in I : f[i] = f[j] => i = j
    BY DEF Node
  <1>2. \A t \in T : \E i \in I : f[i] = t
    OBVIOUS
  <1>3. f \in Bijection(I, T)
    <2> HIDE DEF f, T
    <2> QED
      BY <1>1, <1>2 DEF Bijection, Injection, Surjection, IsInjective
  <1>4. ExistsBijection(I, T)
    <2> HIDE DEF f, T
    <2> QED
      BY <1>3 DEF ExistsBijection
  <1> HIDE DEF T
  <1> QED
    BY <1>4, FS_Bijection DEF T

\* No more ids than rows.
LEMMA IdsCounted ==
    ASSUME NEW rows, IsFiniteSet(rows)
    PROVE  IsFiniteSet(Ids(rows)) /\ Cardinality(Ids(rows)) <= Cardinality(rows)
  <1> DEFINE f == [r \in rows |-> r.id]
  <1>1. f \in [rows -> Ids(rows)] /\ \A i \in Ids(rows) : \E r \in rows : f[r] = i
    BY DEF Ids
  <1>2. f \in Surjection(rows, Ids(rows))
    <2> HIDE DEF f
    <2> QED
      BY <1>1 DEF Surjection
  <1> HIDE DEF f
  <1> QED
    BY <1>2, FS_Surjection

\* With the graph exactly what the rows say, the summary counts it.
LEMMA DoneCounted ==
    ASSUME ProcessInv, GraphOK, NEW run \in Runs, ExactInv(run), pc[run] = "done", ~dry[run]
    PROVE  LET number(I) == Cardinality({ n \in records : n[1] = run /\ n[2] \in I })
               unique(rows) == Cardinality(Ids(rows)) = Cardinality(rows)
           IN  /\ unique(clean[run].facts) => number(FactIds) = summary[run].facts
               /\ unique(clean[run].relationships) => number(RelIds) = summary[run].relationships
               /\ Cardinality({ n \in listed : n[1] = run }) <= summary[run].entities
               /\ number(ClaimIds) <= summary[run].claims
  <1> DEFINE c == clean[run]
             number(I) == Cardinality({ n \in records : n[1] = run /\ n[2] \in I })
  <1>1. /\ input[run] \in Inputs /\ c = Cleaned(input[run])
        /\ summary[run] = RowCounts(input[run], c)
    BY DEF ProcessInv, FunctionsOK, FilesInv
  <1>2. /\ c \in Clean /\ IsFiniteSet(c.entities) /\ IsFiniteSet(c.facts)
        /\ IsFiniteSet(c.relationships) /\ IsFiniteSet(c.claims)
    BY <1>1, CleanedRows
  <1>3. /\ RecordIds(run) = Ids(c.facts) \cup Ids(c.relationships) \cup Ids(c.claims)
        /\ ListedIds(run) = Ids(c.entities)
    BY DEF ExactInv
  <1> HIDE DEF c
  <1>4. /\ Ids(c.facts) \subseteq FactIds /\ Ids(c.relationships) \subseteq RelIds
        /\ Ids(c.claims) \subseteq ClaimIds
    BY <1>2, RowIds
  <1>5. /\ RecordIds(run) \cap FactIds = Ids(c.facts)
        /\ RecordIds(run) \cap RelIds = Ids(c.relationships)
        /\ RecordIds(run) \cap ClaimIds = Ids(c.claims)
    BY <1>3, <1>4, IdsAssumption
  <1>6. \A n \in records \cup listed : n = << n[1], n[2] >>
    BY DEF GraphOK
  <1>7. \A I : { n \in records : n[1] = run /\ n[2] \in I }
               = { Node(run, i) : i \in RecordIds(run) \cap I }
    BY <1>6, IdsOfNodes DEF Node
  <1>8. { n \in listed : n[1] = run } = { Node(run, i) : i \in ListedIds(run) }
    BY <1>6, IdsOfNodes DEF Node
  <1>9. /\ number(FactIds) = Cardinality(Ids(c.facts))
        /\ number(RelIds) = Cardinality(Ids(c.relationships))
        /\ number(ClaimIds) = Cardinality(Ids(c.claims))
        /\ Cardinality({ n \in listed : n[1] = run }) = Cardinality(Ids(c.entities))
    BY <1>2, <1>3, <1>5, <1>7, <1>8, IdsCounted, NodesCounted
  <1>10. input[run].repeats \in [Files -> Nat]
    BY <1>1, InputsAssumption DEF Input
  <1>11. /\ Cardinality(c.facts) \in Nat /\ Cardinality(c.relationships) \in Nat
         /\ Cardinality(c.claims) \in Nat /\ Cardinality(c.entities) \in Nat
         /\ Cardinality(Ids(c.claims)) \in Nat
    BY <1>2, IdsCounted, FS_CardinalityType
  <1>12. /\ summary[run].facts = Cardinality(c.facts)
         /\ summary[run].relationships = Cardinality(c.relationships)
         /\ summary[run].entities = Cardinality(c.entities)
         /\ summary[run].claims = Cardinality(c.claims) + input[run].repeats["claims"]
         /\ input[run].repeats["claims"] \in Nat
    BY <1>1, <1>10, <1>11 DEF RowCounts, Files
  <1>13. number(ClaimIds) <= summary[run].claims
    BY <1>2, <1>9, <1>11, <1>12, IdsCounted
  <1>14. Cardinality({ n \in listed : n[1] = run }) <= summary[run].entities
    BY <1>2, <1>9, <1>12, IdsCounted
  <1> HIDE DEF number
  <1> QED
    BY <1>9, <1>12, <1>13, <1>14 DEF c, number

-----------------------------------------------------------------------------
(* Theorems.                                                               *)

StructuredInv == ProcessInv /\ GraphOK /\ RunsInv /\ TraceInv

LEMMA Invariant == Spec => []StructuredInv
  <1>1. Init => StructuredInv
    BY InitProcess, InitGraph, InitRuns, InitTrace DEF StructuredInv
  <1>2. StructuredInv /\ [Next]_vars => StructuredInv'
    BY ProcessStep, GraphStep, RunsStep, TraceStep DEF StructuredInv
  <1> QED
    BY <1>1, <1>2, PTL DEF Spec

\* Every edge has both its nodes, and nodes, files and counts have their types, through
\* all writes and resets of write_structured_ingest_graph and reset_demo.
THEOREM StructuredTypes == Spec => []TypeOK
  <1>1. ProcessInv /\ GraphOK => TypeOK
    BY StepNames DEF ProcessInv, FunctionsOK, GraphOK, TypeOK
  <1> QED
    BY <1>1, Invariant, PTL DEF StructuredInv

\* An entity without a row of entities.csv is in the graph only because a record refers to
\* it; and until a reset no claim with a subject is about one, for the lint looks subjects
\* up and entities are written before claims.
THEOREM EntitiesTraced == Spec => []EntitiesTraceable
  <1>1. TraceInv => EntitiesTraceable
    BY DEF TraceInv, EntitiesTraceable
  <1> QED
    BY <1>1, Invariant, PTL DEF StructuredInv

\* Nothing is in the graph before a passed lint and the summary, and ingest_summary.json,
\* although saved before the writes, counts the records of a process that came to its end.
THEOREM RecordsCounted == Spec => []SummaryTrue
  <1>1. StructuredInv => SummaryTrue
    <2> DEFINE number(run, I) == Cardinality({ n \in records : n[1] = run /\ n[2] \in I })
               unique(rows) == Cardinality(Ids(rows)) = Cardinality(rows)
    <2> SUFFICES ASSUME StructuredInv, NEW run \in Runs
                 PROVE  /\ NodesOf(run) # {} =>
                            report[run] = "ok" /\ summary[run] # NoFile /\ ~dry[run]
                        /\ pc[run] = "done" /\ ~dry[run] /\ NoReset =>
                            /\ unique(clean[run].facts) =>
                                number(run, FactIds) = summary[run].facts
                            /\ unique(clean[run].relationships) =>
                                number(run, RelIds) = summary[run].relationships
                            /\ Cardinality({ n \in listed : n[1] = run })
                                <= summary[run].entities
                            /\ number(run, ClaimIds) <= summary[run].claims
      BY DEF SummaryTrue
    <2>1. NodesInv(run) /\ (NoReset => ExactInv(run)) /\ ProcessInv /\ GraphOK
      BY DEF StructuredInv, RunsInv
    <2>2. NodesOf(run) # {} => report[run] = "ok" /\ summary[run] # NoFile /\ ~dry[run]
      BY <2>1 DEF NodesInv
    <2> QED
      BY <2>1, <2>2, DoneCounted
  <1> QED
    BY <1>1, Invariant, PTL

-----------------------------------------------------------------------------
(* Claims and their evidence.                                              *)

LEMMA QuietReleases ==
    ASSUME StructuredInv, NEW run \in Runs, QuietStep(run)
    PROVE  /\ \A r \in Runs : Released(r)' = Released(r)
           /\ \A r \in Runs \ {run} : Accepted(r)' = Accepted(r)
           /\ \/ Accepted(run)' = Accepted(run)
              \/ Accepted(run) = {} /\ Released(run) = {}
  <1> USE DEF StructuredInv
  <1>1. \A r \in Runs : Released(r)' = Released(r)
    <2>1. UNCHANGED graphVars
      BY DEF QuietStep, Start, Lint, SaveReport, SaveSummary, Crash
    <2> QED
      BY <2>1 DEF graphVars, Released
  <1>2. \A r \in Runs \ {run} : Accepted(r)' = Accepted(r)
    <2>1. \A r \in Runs \ {run} : clean'[r] = clean[r] /\ report'[r] = report[r]
      BY OtherFiles DEF QuietStep
    <2> QED
      BY <2>1 DEF Accepted
  <1>3. CASE Start(run) \/ SaveSummary(run) \/ Crash(run)
    <2>1. UNCHANGED << clean, report >>
      BY <1>3 DEF Start, SaveSummary, Crash, fileVars
    <2> QED
      BY <1>1, <1>2, <2>1 DEF Accepted
  <1>4. CASE Lint(run) \/ SaveReport(run)
    <2>1. pc[run] \in {"lint", "saveReport"}
      BY <1>4 DEF Lint, SaveReport
    <2>2. report[run] = NoFile /\ Released(run) = {}
      BY <2>1 DEF ProcessInv, FilesInv, RunsInv, NodesInv
    <2>3. Accepted(run) = {}
      BY <2>2, NoFileAssumption DEF Accepted
    <2> QED
      BY <1>1, <1>2, <2>2, <2>3
  <1> QED
    BY <1>3, <1>4 DEF QuietStep

\* The one statement that links claims to their evidence finds all of it or none.
LEMMA WriteReleases ==
    ASSUME StructuredInv, NEW run \in Runs, Write(run)
    PROVE  /\ \A r \in Runs : Accepted(r)' = Accepted(r)
           /\ \A r \in Runs \ {run} : Released(r)' = Released(r)
           /\ Released(run) = {}
           /\ Released(run)' \in {{}, Accepted(run)}
  <1> USE DEF StructuredInv
  <1>0. GraphOK'
    BY WriteKeepsTypes
  <1>1. \A r \in Runs : Accepted(r)' = Accepted(r)
    <2>1. UNCHANGED << clean, report >>
      BY DEF Write, fileVars
    <2> QED
      BY <2>1 DEF Accepted
  <1>2. \A r \in Runs \ {run} : Released(r)' = Released(r)
    BY <1>0, OtherNodes
  <1>3. pc[run] \in {"source"} \cup Writing
    BY DEF Write, Writing
  <1>4. Released(run) = {}
    BY <1>3 DEF RunsInv, NodesInv, Writing
  <1> DEFINE c == clean[run]
             supported == { r.id : r \in { r \in c.claims :
                              run \in sources /\ r.source \in RecordIds(run) } }
  <1>5. Released(run)' \in {{}, Accepted(run)}
    <2>1. CASE pc[run] # "claims"
      BY <1>0, <1>4, <2>1, OwnNodes
    <2>2. CASE pc[run] = "claims"
      <3>1. Released(run)' = supported \cap ClaimIds
        BY <1>0, <1>4, <2>2, OwnNodes
      <3>2. /\ c \in Clean /\ c = Cleaned(input[run]) /\ input[run] \in Inputs
            /\ Issues(input[run]) = {} /\ report[run] = "ok"
        BY <1>3, RowsAtHand
      <3>3. Accepted(run) = Ids(c.claims) /\ Ids(c.claims) \subseteq ClaimIds
        BY <3>2, RowIds DEF Accepted
      <3>4. CASE run \notin sources
        BY <3>1, <3>4
      <3>5. CASE run \in sources
        <4>1. Ids(c.facts) \cup Ids(c.relationships) \subseteq RecordIds(run)
          BY <2>2, <3>5 DEF RunsInv, NodesInv
        <4>2. \A r \in c.claims : r.source \in RecordIds(run)
          BY <3>2, <4>1, NoIssues
        <4>3. supported = Ids(c.claims)
          BY <3>5, <4>2 DEF Ids
        <4> QED
          BY <3>1, <3>3, <4>3
      <3> QED
        BY <3>4, <3>5
    <2> QED
      BY <2>1, <2>2
  <1> QED
    BY <1>1, <1>2, <1>4, <1>5

LEMMA ReleaseStep ==
    ASSUME StructuredInv, [Next]_vars
    PROVE  [Releases!Next]_<< [run \in Runs |-> Accepted(run)], [run \in Runs |-> Released(run)] >>
  <1> DEFINE content == [run \in Runs |-> Accepted(run)]
             released == [run \in Runs |-> Released(run)]
  <1>1. ASSUME NEW run \in Runs, QuietStep(run)
        PROVE  [Releases!Next]_<< content, released >>
    <2>1. released' = released
      BY <1>1, QuietReleases
    <2>2. CASE Accepted(run)' = Accepted(run)
      <3>1. content' = content
        BY <1>1, <2>2, QuietReleases
      <3> QED
        BY <2>1, <3>1
    <2>3. CASE Accepted(run) = {} /\ Released(run) = {}
      <3>1. Releases!Accept(run)
        BY <1>1, <2>1, <2>3, QuietReleases DEF Releases!Accept
      <3> QED
        BY <3>1 DEF Releases!Next
    <2> QED
      BY <1>1, <2>2, <2>3, QuietReleases
  <1>2. ASSUME NEW run \in Runs, Write(run)
        PROVE  [Releases!Next]_<< content, released >>
    <2>1. content' = content
      BY <1>2, WriteReleases
    <2>2. CASE Released(run)' = {}
      <3>1. released' = released
        BY <1>2, <2>2, WriteReleases
      <3> QED
        BY <2>1, <3>1
    <2>3. CASE Released(run)' = Accepted(run)
      <3>1. released' = [released EXCEPT ![run] = content[run]] /\ released[run] = {}
        BY <1>2, <2>3, WriteReleases
      <3>2. Releases!Release(run)
        BY <2>1, <3>1 DEF Releases!Release
      <3> QED
        BY <3>2 DEF Releases!Next
    <2> QED
      BY <1>2, <2>2, <2>3, WriteReleases
  <1>3. CASE Reset
    <2>1. UNCHANGED << clean, report >> /\ edges' = {}
      BY <1>3 DEF Reset, fileVars
    <2>2. content' = content /\ released' = [run \in Runs |-> {}]
      BY <2>1 DEF Accepted, Released
    <2>3. Releases!Reset
      BY <2>2 DEF Releases!Reset
    <2> QED
      BY <2>3 DEF Releases!Next
  <1>4. CASE UNCHANGED vars
    BY <1>4 DEF vars, graphVars, fileVars, Accepted, Released
  <1> QED
    BY <1>1, <1>2, <1>3, <1>4 DEF Next, QuietStep

\* Five auto-commit statements, with deaths and resets between them, look to a reader of
\* claims like one: the claims the lint accepted appear together, each with its evidence.
THEOREM ClaimsReleasedAtOnce == Spec => ReleasedAtOnce
  <1>1. Init => Releases!Init
    BY NoFileAssumption DEF Init, Releases!Init, Accepted, Released
  <1>2. StructuredInv /\ [Next]_vars =>
            [Releases!Next]_<< [run \in Runs |-> Accepted(run)],
                               [run \in Runs |-> Released(run)] >>
    BY ReleaseStep
  <1> QED
    BY <1>1, <1>2, Invariant, PTL DEF Spec, ReleasedAtOnce, Releases!Spec
=============================================================================
