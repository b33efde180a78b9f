--------------------------- MODULE DocumentProofs --------------------------
(***************************************************************************)
(* Proofs about PdfIngest and AskScope, for any number of ingests, resets  *)
(* and searches, any datasets and anything the pipeline may write.         *)
(***************************************************************************)
EXTENDS AskScope, FiniteSetTheorems, WellFoundedInduction, TLAPS

ChunkType == [run : Runs, k : Nat, page : Pages \cup {NoPage},
              lacks : SUBSET {"order", "vector"}, id : BOOLEAN]
IngestSteps == {"none", "index", "check", "nodes", "links", "normalize", "count", "pages",
                "order", "vector", "missing", "summary", "done", "failed"}
CountsRec == [chunks : Nat, pages : Nat, warned : BOOLEAN]
IngestType == [pc : IngestSteps, dataset : Datasets, counts : CountsRec,
               summary : {"none", "dry", "live"}]
ResetType == [pc : {"none", "check", "drop", "report"}, deleted : BOOLEAN, dropped : BOOLEAN,
              found : BOOLEAN, disturbed : BOOLEAN]

\* Types of what ingests and resets change.
TypesOK ==
    /\ ingest \in [Runs -> IngestType]
    /\ chunks \in SUBSET ChunkType /\ IsFiniteSet(chunks)
    /\ linked \in SUBSET Runs
    /\ index \in BOOLEAN
    /\ reset \in ResetType
    /\ resets \in Nat

Own(r) == { c \in chunks : c.run = r }

\* What an ingest still has to do.
Early == {"none", "index", "check", "nodes"}
Counted == {"pages", "order", "vector", "missing", "summary"}

\* Is an ingest at one of these steps, or has it reported success?
Past(r, S) == ingest[r].pc \in S \/ Done(r)

\* What an ingest can rely on although resets come and go.
IngestInv(r) ==
    /\ ingest[r].summary # "none" => ingest[r].pc = "done"
    /\ ingest[r].pc \in Early \/ ingest[r].summary = "dry" => Own(r) = {}
    /\ ingest[r].pc = "count" /\ r \in linked => \A c \in Own(r) : c.id
    /\ Past(r, Counted) => \A c \in Own(r) : c.id

\* ... and what it knows as long as there is no reset.
KnownInv(r) ==
    /\ Past(r, {"nodes", "links", "normalize", "count"} \cup Counted) => index
    /\ Past(r, Counted) =>
        r \in linked /\ Own(r) # {} /\ Cardinality(Own(r)) = ingest[r].counts.chunks
    /\ Past(r, Counted \ {"pages"}) =>
        ingest[r].counts.pages = Cardinality(PagesOf(Own(r)))
    /\ Past(r, {"vector", "missing", "summary"}) => \A c \in Own(r) : "order" \notin c.lacks
    /\ Past(r, {"missing", "summary"}) => \A c \in Own(r) : "vector" \notin c.lacks
    /\ Past(r, {"summary"}) =>
        (ingest[r].counts.warned <=> \E c \in Own(r) : c.page = NoPage)

\* What a reset that no ingest disturbed has done so far.
ResetInv ==
    /\ resets = 0 \/ reset.pc = "none" => ~reset.disturbed
    /\ resets = 0 => reset.pc = "none"
    /\ ~reset.disturbed =>
        /\ reset.pc # "none" => chunks = {}
        /\ reset.pc = "check" => ~reset.dropped /\ (reset.found <=> reset.deleted \/ index)
        /\ reset.pc = "drop" => index /\ reset.found
        /\ reset.pc = "report" =>
            ~index /\ (reset.found <=> reset.deleted \/ reset.dropped)

DocumentsInv ==
    /\ ResetInv
    /\ \A r \in Runs : IngestInv(r) /\ (resets = 0 => KnownInv(r))

-----------------------------------------------------------------------------
\* The image of a finite set under a function is finite.
LEMMA ImageFinite ==
    ASSUME NEW S, IsFiniteSet(S), NEW T, NEW f \in [S -> T]
    PROVE  IsFiniteSet({ f[x] : x \in S })
  <1>1. f \in [S -> { f[x] : x \in S }]
    OBVIOUS
  <1>2. f \in Surjection(S, { f[x] : x \in S })
    BY <1>1 DEF Surjection
  <1> QED
    BY <1>2, FS_Surjection

\* What the pipeline writes of one document is finite.
LEMMA WrittenNodes ==
    ASSUME NEW r \in Runs, NEW out \in Outputs
    PROVE  LET new == { NewChunk(r, k, out[k]) : k \in DOMAIN out }
           IN  new \in SUBSET ChunkType /\ IsFiniteSet(new)
  <1> DEFINE new == { NewChunk(r, k, out[k]) : k \in DOMAIN out }
             f == [k \in DOMAIN out |-> NewChunk(r, k, out[k])]
  <1>1. out \in Seq(Parts)
    BY OutputsAssumption
  <1>2. DOMAIN out = 1 .. Len(out) /\ Len(out) \in Nat /\ \A k \in DOMAIN out : out[k] \in Parts
    BY <1>1
  <1>3. IsFiniteSet(DOMAIN out)
    BY <1>2, FS_Interval
  <1>4. \A k \in DOMAIN out : NewChunk(r, k, out[k]) \in ChunkType
    BY <1>2 DEF ChunkType, NewChunk, Parts
  <1>5. f \in [DOMAIN out -> ChunkType]
    BY <1>4
  <1>6. IsFiniteSet({ f[k] : k \in DOMAIN out })
    <2> HIDE DEF f
    <2> QED
      BY <1>3, <1>5, ImageFinite
  <1>7. { f[k] : k \in DOMAIN out } = new
    OBVIOUS
  <1> QED
    BY <1>4, <1>6, <1>7

\* Normalizing keeps the chunks' types.
LEMMA NormalizedNodes ==
    ASSUME TypesOK, NEW r \in Runs
    PROVE  LET new == (chunks \ OwnChunks(r)) \cup { [c EXCEPT !.id = TRUE] : c \in OwnChunks(r) }
           IN  new \in SUBSET ChunkType /\ IsFiniteSet(new)
  <1> DEFINE S == OwnChunks(r)
             f == [c \in S |-> [c EXCEPT !.id = TRUE]]
  <1>1. S \in SUBSET chunks /\ chunks \in SUBSET ChunkType
    BY DEF OwnChunks, TypesOK
  <1>2. IsFiniteSet(S) /\ IsFiniteSet(chunks \ S)
    <2> HIDE DEF S
    <2> QED
      BY <1>1, FS_Subset DEF TypesOK
  <1>3. \A c \in S : [c EXCEPT !.id = TRUE] \in ChunkType
    BY <1>1 DEF ChunkType
  <1>4. f \in [S -> ChunkType]
    BY <1>3
  <1>5. IsFiniteSet({ f[c] : c \in S })
    <2> HIDE DEF f, S
    <2> QED
      BY <1>2, <1>4, ImageFinite
  <1>6. { f[c] : c \in S } = { [c EXCEPT !.id = TRUE] : c \in S }
    OBVIOUS
  <1>7. IsFiniteSet((chunks \ S) \cup { [c EXCEPT !.id = TRUE] : c \in S })
    <2> HIDE DEF f, S
    <2> QED
      BY <1>2, <1>5, <1>6, FS_Union
  <1> QED
    BY <1>1, <1>3, <1>7

-----------------------------------------------------------------------------
(* Types.                                                                  *)

LEMMA InitTypes == IngestInit => TypesOK
  <1> SUFFICES ASSUME IngestInit PROVE TypesOK
    OBVIOUS
  <1>1. NoIngest \in IngestType
    <2>1. (CHOOSE d \in Datasets : TRUE) \in Datasets
      BY DatasetsAssumption
    <2> QED
      BY <2>1 DEF NoIngest, IngestType, IngestSteps, CountsRec, NoCounts
  <1>2. NoReset \in ResetType
    BY DEF NoReset, ResetType
  <1> QED
    BY <1>1, <1>2, FS_EmptySet DEF IngestInit, TypesOK

\* Counting the chunks an ingest matches gives numbers.
LEMMA CountsType ==
    ASSUME TypesOK, NEW r, NEW S \in SUBSET OwnChunks(r)
    PROVE  IsFiniteSet(S) /\ Cardinality(S) \in Nat
  <1>1. S \in SUBSET chunks
    BY DEF OwnChunks
  <1> QED
    BY <1>1, FS_Subset, FS_CardinalityType DEF TypesOK

\* ... and so does counting their pages.
LEMMA PagesFinite ==
    ASSUME TypesOK, NEW r, NEW S \in SUBSET OwnChunks(r)
    PROVE  IsFiniteSet(PagesOf(S)) /\ Cardinality(PagesOf(S)) \in Nat
  <1> DEFINE f == [c \in S |-> c.page]
             T == { f[c] : c \in S }
  <1>1. IsFiniteSet(S)
    BY CountsType
  <1>2. f \in [S -> T]
    OBVIOUS
  <1>3. IsFiniteSet(T)
    <2> HIDE DEF f
    <2>1. f \in [S -> T]
      BY <1>2
    <2> QED
      BY <1>1, <2>1, ImageFinite
  <1>4. PagesOf(S) = T \ {NoPage}
    BY DEF PagesOf
  <1> HIDE DEF T
  <1>5. PagesOf(S) \in SUBSET T
    BY <1>4
  <1> QED
    BY <1>3, <1>5, FS_Subset, FS_CardinalityType

LEMMA CountsUpdated ==
    ASSUME NEW c \in CountsRec, NEW n \in Nat, NEW b \in BOOLEAN
    PROVE  /\ [c EXCEPT !.chunks = n] \in CountsRec
           /\ [c EXCEPT !.pages = n] \in CountsRec
           /\ [c EXCEPT !.warned = b] \in CountsRec
  BY DEF CountsRec

\* A step of an ingest that changes nothing but what the ingest remembers.
LEMMA RecordTypes ==
    ASSUME TypesOK, NEW r \in Runs, NEW rec \in IngestType,
           ingest' = [ingest EXCEPT ![r] = rec],
           UNCHANGED << graphVars, reset, report, resets >>
    PROVE  TypesOK'
  BY DEF TypesOK, graphVars

LEMMA StepTypes ==
    ASSUME TypesOK, NEW r \in Runs, IngestStep(r)
    PROVE  TypesOK'
  <1> USE DEF TypesOK, graphVars
  <1>1. CASE StartIngest(r)
    <2>1. PICK d \in Datasets, dry \in BOOLEAN :
        ingest' = [ingest EXCEPT ![r].pc = IF dry THEN "done" ELSE "index", ![r].dataset = d,
                                 ![r].summary = IF dry THEN "dry" ELSE "none"]
      BY <1>1 DEF StartIngest
    <2> DEFINE rec == [ingest[r] EXCEPT !.pc = IF dry THEN "done" ELSE "index", !.dataset = d,
                                        !.summary = IF dry THEN "dry" ELSE "none"]
    <2>2. rec \in IngestType
      BY DEF IngestType, IngestSteps
    <2>3. ingest' = [ingest EXCEPT ![r] = rec]
      BY <2>1
    <2> QED
      BY <1>1, <2>2, <2>3, RecordTypes DEF StartIngest
  <1>2. CASE CreateIndex(r)
    BY <1>2 DEF CreateIndex, GotoStep, Touches, IngestType, IngestSteps, ResetType
  <1>3. CASE CheckIndex(r)
    BY <1>3 DEF CheckIndex, GotoStep, IngestType, IngestSteps
  <1>4. CASE WriteNodes(r)
    <2>1. chunks' \in SUBSET ChunkType /\ IsFiniteSet(chunks')
      BY <1>4, WrittenNodes, FS_Union DEF WriteNodes
    <2> QED
      BY <1>4, <2>1 DEF WriteNodes, GotoStep, Touches, IngestType, IngestSteps, ResetType
  <1>5. CASE WriteLinks(r)
    BY <1>5 DEF WriteLinks, GotoStep, Touches, IngestType, IngestSteps, ResetType
  <1>6. CASE Normalize(r)
    <2>1. chunks' \in SUBSET ChunkType /\ IsFiniteSet(chunks')
      BY <1>6, NormalizedNodes DEF Normalize
    <2> QED
      BY <1>6, <2>1 DEF Normalize, GotoStep, Touches, IngestType, IngestSteps, ResetType
  <1>7. CASE Count(r)
    <2>1. Cardinality(OwnChunks(r)) \in Nat
      BY CountsType
    <2> DEFINE n == Cardinality(OwnChunks(r))
               rec == [ingest[r] EXCEPT !.counts = [@ EXCEPT !.chunks = n],
                                        !.pc = IF n = 0 THEN "failed" ELSE "pages"]
    <2>2. [ingest[r].counts EXCEPT !.chunks = n] \in CountsRec
      BY <2>1, CountsUpdated DEF IngestType
    <2>3. rec \in IngestType
      BY <2>2 DEF IngestType, IngestSteps
    <2>4. ingest' = [ingest EXCEPT ![r] = rec]
      BY <1>7 DEF Count
    <2> QED
      BY <1>7, <2>3, <2>4, RecordTypes DEF Count
  <1>8. CASE CountPages(r)
    <2>1. Cardinality(PagesOf(OwnChunks(r))) \in Nat
      BY PagesFinite
    <2> DEFINE n == Cardinality(PagesOf(OwnChunks(r)))
               rec == [ingest[r] EXCEPT !.counts = [@ EXCEPT !.pages = n], !.pc = "order"]
    <2>2. [ingest[r].counts EXCEPT !.pages = n] \in CountsRec
      BY <2>1, CountsUpdated DEF IngestType
    <2>3. rec \in IngestType
      BY <2>2 DEF IngestType, IngestSteps
    <2>4. ingest' = [ingest EXCEPT ![r] = rec]
      BY <1>8 DEF CountPages
    <2> QED
      BY <1>8, <2>3, <2>4, RecordTypes DEF CountPages
  <1>9. CASE CheckOrder(r) \/ CheckVector(r)
    <2>1. \E p \in IngestSteps : ingest' = [ingest EXCEPT ![r].pc = p]
      BY <1>9 DEF CheckOrder, CheckVector, Check, GotoStep, IngestSteps
    <2>2. PICK p \in IngestSteps : ingest' = [ingest EXCEPT ![r].pc = p]
      BY <2>1
    <2>3. [ingest[r] EXCEPT !.pc = p] \in IngestType
      BY DEF IngestType
    <2> QED
      BY <1>9, <2>2, <2>3, RecordTypes DEF CheckOrder, CheckVector, Check
  <1>10. CASE CheckPages(r)
    <2> DEFINE b == \E c \in OwnChunks(r) : c.page = NoPage
               rec == [ingest[r] EXCEPT !.pc = "summary", !.counts = [@ EXCEPT !.warned = b]]
    <2>1. b \in BOOLEAN
      OBVIOUS
    <2>2. [ingest[r].counts EXCEPT !.warned = b] \in CountsRec
      <3> HIDE DEF b
      <3> QED
        BY <2>1, CountsUpdated DEF IngestType
    <2>3. rec \in IngestType
      <3> HIDE DEF b
      <3> QED
        BY <2>2 DEF IngestType, IngestSteps
    <2>4. ingest' = [ingest EXCEPT ![r] = rec]
      BY <1>10 DEF CheckPages
    <2> QED
      BY <1>10, <2>3, <2>4, RecordTypes DEF CheckPages
  <1>11. CASE SaveSummary(r)
    BY <1>11 DEF SaveSummary, IngestType, IngestSteps
  <1> QED
    BY <1>1, <1>2, <1>3, <1>4, <1>5, <1>6, <1>7, <1>8, <1>9, <1>10, <1>11 DEF IngestStep

LEMMA ResetTypes ==
    ASSUME TypesOK, ResetStep
    PROVE  TypesOK'
  <1> USE DEF TypesOK, graphVars, ResetType, NoReset
  <1>1. CASE DeleteNodes
    <2>1. chunks' \in SUBSET ChunkType /\ IsFiniteSet(chunks') /\ linked' = {}
      BY <1>1, FS_EmptySet DEF DeleteNodes
    <2>2. PICK a \in BOOLEAN, b \in BOOLEAN :
            reset' = [NoReset EXCEPT !.pc = "check", !.deleted = a, !.found = b]
      BY <1>1 DEF DeleteNodes
    <2>3. reset' \in ResetType
      BY <2>2
    <2> QED
      BY <1>1, <2>1, <2>3 DEF DeleteNodes
  <1>2. CASE FindIndex
    BY <1>2 DEF FindIndex
  <1>3. CASE DropIndex
    BY <1>3 DEF DropIndex
  <1>4. CASE Report \/ CrashReset
    <2>1. reset' = NoReset /\ UNCHANGED << ingest, graphVars, resets >>
      BY <1>4 DEF Report, CrashReset
    <2> QED
      BY <2>1
  <1> QED
    BY <1>1, <1>2, <1>3, <1>4 DEF ResetStep

-----------------------------------------------------------------------------
(* What ingests know.                                                      *)

\* A step of an ingest is about its own chunks only, and keeps the index.
LEMMA OthersKept ==
    ASSUME TypesOK, NEW r \in Runs, IngestStep(r), NEW q \in Runs, q # r
    PROVE  /\ ingest'[q] = ingest[q]
           /\ Own(q)' = Own(q)
           /\ q \in linked' <=> q \in linked
           /\ index => index'
  <1> USE DEF TypesOK, graphVars, GotoStep
  <1>1. CASE StartIngest(r) \/ CheckIndex(r) \/ Count(r) \/ CountPages(r) \/ CheckOrder(r)
             \/ CheckVector(r) \/ CheckPages(r) \/ SaveSummary(r)
    <2>1. UNCHANGED << chunks, linked, index >>
      BY <1>1 DEF StartIngest, CheckIndex, Count, CountPages, CheckOrder, CheckVector, Check,
                  CheckPages, SaveSummary
    <2>2. ingest'[q] = ingest[q]
      BY <1>1 DEF StartIngest, CheckIndex, Count, CountPages, CheckOrder, CheckVector, Check,
                  CheckPages, SaveSummary
    <2> QED
      BY <2>1, <2>2 DEF Own
  <1>2. CASE CreateIndex(r)
    BY <1>2 DEF CreateIndex, Own
  <1>3. CASE WriteNodes(r)
    <2>1. PICK out \in Outputs :
        chunks' = chunks \cup
            { NewChunk(r, k, out[k]) : k \in DOMAIN out }
      BY <1>3 DEF WriteNodes
    <2>2. Own(q)' = Own(q)
      BY <2>1 DEF Own, NewChunk
    <2> QED
      BY <1>3, <2>2 DEF WriteNodes
  <1>4. CASE WriteLinks(r)
    BY <1>4 DEF WriteLinks, Own
  <1>5. CASE Normalize(r)
    <2>1. chunks' = (chunks \ OwnChunks(r)) \cup { [c EXCEPT !.id = TRUE] : c \in OwnChunks(r) }
      BY <1>5 DEF Normalize
    <2>2. \A c \in OwnChunks(r) : c.run = r /\ [c EXCEPT !.id = TRUE].run = r
      BY DEF OwnChunks, ChunkType
    <2>3. Own(q)' = Own(q)
      BY <2>1, <2>2 DEF Own
    <2> QED
      BY <1>5, <2>3 DEF Normalize
  <1> QED
    BY <1>1, <1>2, <1>3, <1>4, <1>5 DEF IngestStep

LEMMA OthersKnow ==
    ASSUME TypesOK, NEW r \in Runs, IngestStep(r), NEW q \in Runs, q # r
    PROVE  /\ IngestInv(q) => IngestInv(q)'
           /\ KnownInv(q) => KnownInv(q)'
  <1>1. /\ ingest'[q] = ingest[q] /\ Own(q)' = Own(q)
        /\ q \in linked' <=> q \in linked
        /\ index => index'
    BY OthersKept
  <1>2. IngestInv(q) => IngestInv(q)'
    BY <1>1 DEF IngestInv, Past, Done
  <1>3. KnownInv(q) => KnownInv(q)'
    BY <1>1 DEF KnownInv, Past, Done
  <1> QED
    BY <1>2, <1>3

\* What an ingest relies on, step by step.
LEMMA IngestStepInv ==
    ASSUME TypesOK, NEW r \in Runs, IngestInv(r), IngestStep(r)
    PROVE  IngestInv(r)'
  <1> USE DEF TypesOK, graphVars, GotoStep, At, Past, Done, Early, Counted
  <1>1. CASE StartIngest(r)
    <2>1. PICK dry \in BOOLEAN :
            /\ ingest'[r].pc = IF dry THEN "done" ELSE "index"
            /\ ingest'[r].summary = IF dry THEN "dry" ELSE "none"
      BY <1>1 DEF StartIngest, IngestType
    <2>2. Own(r)' = {} /\ Own(r) = {}
      BY <1>1 DEF StartIngest, IngestInv, Own
    <2> QED
      BY <2>1, <2>2 DEF IngestInv
  <1>2. CASE CreateIndex(r) \/ CheckIndex(r)
    <2>1. /\ Own(r) = {} /\ Own(r)' = {} /\ ingest'[r].pc \in {"check", "nodes", "failed"}
          /\ ingest'[r].summary = "none"
      BY <1>2 DEF CreateIndex, CheckIndex, IngestInv, Own, IngestType
    <2> QED
      BY <2>1 DEF IngestInv
  <1>3. CASE WriteNodes(r)
    <2>1. ingest'[r].pc = "links" /\ ingest'[r].summary = "none"
      BY <1>3 DEF WriteNodes, IngestInv, IngestType
    <2> QED
      BY <2>1 DEF IngestInv
  <1>4. CASE WriteLinks(r)
    <2>1. ingest'[r].pc = "normalize" /\ ingest'[r].summary = "none"
      BY <1>4 DEF WriteLinks, IngestInv, IngestType
    <2> QED
      BY <2>1 DEF IngestInv
  <1>5. CASE Normalize(r)
    <2>1. ingest'[r].pc = "count" /\ ingest'[r].summary = "none" /\ linked' = linked
      BY <1>5 DEF Normalize, IngestInv, IngestType
    <2>2. chunks' = (chunks \ OwnChunks(r)) \cup { [c EXCEPT !.id = TRUE] : c \in OwnChunks(r) }
      BY <1>5 DEF Normalize
    <2>3. \A c \in OwnChunks(r) : [c EXCEPT !.id = TRUE].id
      BY DEF OwnChunks, ChunkType
    <2>4. r \in linked => \A c \in Own(r)' : c.id
      BY <2>2, <2>3 DEF Own, OwnChunks
    <2> QED
      BY <2>1, <2>4 DEF IngestInv
  <1>6. CASE Count(r)
    <2>1. /\ ingest[r].pc = "count" /\ ingest'[r].pc \in {"failed", "pages"}
          /\ ingest'[r].summary = "none" /\ UNCHANGED << chunks, linked >>
      BY <1>6 DEF Count, IngestInv, IngestType
    <2>2. ingest'[r].pc = "pages" => OwnChunks(r) # {}
      BY <1>6, FS_EmptySet DEF Count, IngestType
    <2>3. ingest'[r].pc = "pages" => r \in linked
      BY <2>2 DEF OwnChunks
    <2>4. ingest'[r].pc = "pages" => \A c \in Own(r)' : c.id
      BY <2>1, <2>3 DEF IngestInv, Own
    <2> QED
      BY <2>1, <2>4 DEF IngestInv
  <1>7. CASE CountPages(r) \/ CheckOrder(r) \/ CheckVector(r) \/ CheckPages(r) \/ SaveSummary(r)
    <2>1. /\ ingest[r].pc \in Counted /\ UNCHANGED << chunks, linked >>
          /\ \/ /\ ingest'[r].pc \in {"order", "vector", "missing", "summary", "failed"}
                /\ ingest'[r].summary = ingest[r].summary
             \/ ingest'[r].pc = "done" /\ ingest'[r].summary = "live"
      <3>1. CASE CountPages(r)
        BY <3>1 DEF CountPages, IngestType
      <3>2. CASE CheckOrder(r)
        BY <3>2 DEF CheckOrder, Check, IngestType
      <3>3. CASE CheckVector(r)
        BY <3>3 DEF CheckVector, Check, IngestType
      <3>4. CASE CheckPages(r)
        BY <3>4 DEF CheckPages, IngestType
      <3>5. CASE SaveSummary(r)
        BY <3>5 DEF SaveSummary, IngestType
      <3> QED
        BY <1>7, <3>1, <3>2, <3>3, <3>4, <3>5
    <2>2. \A c \in Own(r)' : c.id
      BY <2>1 DEF IngestInv, Own
    <2> QED
      BY <2>1, <2>2 DEF IngestInv
  <1> QED
    BY <1>1, <1>2, <1>3, <1>4, <1>5, <1>6, <1>7 DEF IngestStep

\* What an ingest knows, step by step.
LEMMA KnownStepInv ==
    ASSUME TypesOK, NEW r \in Runs, IngestInv(r), KnownInv(r), IngestStep(r)
    PROVE  KnownInv(r)'
  <1> USE DEF TypesOK, graphVars, GotoStep, At, Past, Done, Early, Counted
  <1>1. CASE StartIngest(r)
    <2>1. PICK dry \in BOOLEAN :
            /\ ingest'[r].pc = IF dry THEN "done" ELSE "index"
            /\ ingest'[r].summary = IF dry THEN "dry" ELSE "none"
      BY <1>1 DEF StartIngest, IngestType
    <2> QED
      BY <2>1 DEF KnownInv
  <1>2. CASE CreateIndex(r) \/ CheckIndex(r)
    <2>1. /\ ingest'[r].summary = "none"
          /\ \/ ingest'[r].pc \in {"check", "failed"}
             \/ ingest'[r].pc = "nodes" /\ index'
      <3>1. CASE CreateIndex(r)
        BY <3>1 DEF CreateIndex, IngestInv, IngestType
      <3>2. CASE CheckIndex(r)
        BY <3>2 DEF CheckIndex, IngestInv, IngestType
      <3> QED
        BY <1>2, <3>1, <3>2
    <2> QED
      BY <2>1 DEF KnownInv
  <1>3. CASE WriteNodes(r) \/ WriteLinks(r) \/ Normalize(r)
    <2>1. /\ ingest[r].pc \in {"nodes", "links", "normalize"} /\ index' = index
          /\ ingest'[r].pc \in {"links", "normalize", "count"} /\ ingest'[r].summary = "none"
      BY <1>3 DEF WriteNodes, WriteLinks, Normalize, IngestInv, IngestType
    <2> QED
      BY <2>1 DEF KnownInv
  <1>4. CASE Count(r)
    <2> DEFINE n == Cardinality(OwnChunks(r))
    <2>1. /\ ingest[r].pc = "count" /\ UNCHANGED << chunks, linked, index >>
          /\ ingest'[r].pc = IF n = 0 THEN "failed" ELSE "pages"
          /\ ingest'[r].counts.chunks = n
          /\ ingest'[r].summary = "none"
      <3> HIDE DEF n
      <3>1. ingest' = [ingest EXCEPT ![r].counts.chunks = n,
                                     ![r].pc = IF n = 0 THEN "failed" ELSE "pages"]
        BY <1>4 DEF Count, n
      <3> QED
        BY <1>4, <3>1 DEF Count, IngestInv, IngestType, CountsRec
    <2>2. n # 0 => OwnChunks(r) # {}
      BY FS_EmptySet
    <2>3. n # 0 => r \in linked /\ Own(r) # {} /\ OwnChunks(r) = Own(r)
      BY <2>2 DEF OwnChunks, Own
    <2>4. Own(r)' = Own(r)
      BY <2>1 DEF Own
    <2>5. index
      BY <2>1 DEF KnownInv
    <2> HIDE DEF n
    <2>6. CASE n = 0
      BY <2>1, <2>6 DEF KnownInv
    <2>7. CASE n # 0
      <3>1. Cardinality(Own(r)') = ingest'[r].counts.chunks
        BY <2>1, <2>3, <2>4, <2>7 DEF n
      <3> QED
        BY <2>1, <2>3, <2>4, <2>5, <2>7, <3>1 DEF KnownInv
    <2> QED
      BY <2>6, <2>7
  <1>5. ASSUME ingest[r].pc \in Counted, UNCHANGED << chunks, linked, index >>
        PROVE  /\ r \in linked' /\ index' /\ Own(r)' = Own(r) /\ OwnChunks(r) = Own(r)
               /\ Own(r) # {} /\ Cardinality(Own(r)) = ingest[r].counts.chunks
    BY <1>5 DEF KnownInv, Own, OwnChunks
  <1>6. CASE CountPages(r)
    <2> DEFINE n == Cardinality(PagesOf(OwnChunks(r)))
    <2>1. /\ ingest[r].pc = "pages" /\ UNCHANGED << chunks, linked, index >>
          /\ ingest' = [ingest EXCEPT ![r].pc = "order", ![r].counts.pages = n]
      BY <1>6 DEF CountPages
    <2>2. /\ ingest'[r].pc = "order" /\ ingest'[r].counts.pages = n
          /\ ingest'[r].counts.chunks = ingest[r].counts.chunks
          /\ ingest'[r].summary = "none"
      <3> HIDE DEF n
      <3> QED
        BY <2>1 DEF IngestInv, IngestType, CountsRec
    <2>3. n = Cardinality(PagesOf(Own(r)'))
      BY <1>5, <2>1
    <2> HIDE DEF n
    <2> QED
      BY <1>5, <2>1, <2>2, <2>3 DEF KnownInv
  <1>7. CASE CheckOrder(r) \/ CheckVector(r) \/ CheckPages(r) \/ SaveSummary(r)
    <2>1. ingest[r].pc \in Counted \ {"pages"} /\ UNCHANGED << chunks, linked, index >>
      BY <1>7 DEF CheckOrder, CheckVector, Check, CheckPages, SaveSummary
    <2>2. /\ ingest'[r].counts.chunks = ingest[r].counts.chunks
          /\ ingest'[r].counts.pages = ingest[r].counts.pages
      <3>1. CASE CheckOrder(r) \/ CheckVector(r)
        BY <3>1 DEF CheckOrder, CheckVector, Check, IngestType
      <3>2. CASE CheckPages(r)
        BY <3>2 DEF CheckPages, IngestType, CountsRec
      <3>3. CASE SaveSummary(r)
        BY <3>3 DEF SaveSummary, IngestType
      <3> QED
        BY <1>7, <3>1, <3>2, <3>3
    <2>3. ingest[r].counts.pages = Cardinality(PagesOf(Own(r)'))
      BY <1>5, <2>1 DEF KnownInv
    <2>4. CASE CheckOrder(r)
      <3>1. ingest'[r].summary = "none" /\ ingest[r].pc = "order"
        BY <2>4 DEF CheckOrder, Check, IngestInv, IngestType
      <3>2. ingest'[r].pc = IF \E c \in OwnChunks(r) : "order" \in c.lacks THEN "failed" ELSE "vector"
        BY <2>4 DEF CheckOrder, Check, IngestType
      <3> QED
        BY <1>5, <2>1, <2>2, <2>3, <3>1, <3>2 DEF KnownInv
    <2>5. CASE CheckVector(r)
      <3>1. ingest'[r].summary = "none" /\ ingest[r].pc = "vector"
        BY <2>5 DEF CheckVector, Check, IngestInv, IngestType
      <3>2. ingest'[r].pc = IF \E c \in OwnChunks(r) : "vector" \in c.lacks THEN "failed" ELSE "missing"
        BY <2>5 DEF CheckVector, Check, IngestType
      <3> QED
        BY <1>5, <2>1, <2>2, <2>3, <3>1, <3>2 DEF KnownInv
    <2>6. CASE CheckPages(r)
      <3>1. /\ ingest'[r].summary = "none" /\ ingest[r].pc = "missing"
            /\ ingest'[r].pc = "summary"
        BY <2>6 DEF CheckPages, IngestInv, IngestType
      <3>2. ingest'[r].counts.warned = \E c \in OwnChunks(r) : c.page = NoPage
        BY <2>6 DEF CheckPages, IngestType, CountsRec
      <3> QED
        BY <1>5, <2>1, <2>2, <2>3, <3>1, <3>2 DEF KnownInv
    <2>7. CASE SaveSummary(r)
      <3>1. /\ ingest[r].pc = "summary" /\ ingest'[r].pc = "done"
            /\ ingest'[r].counts.warned = ingest[r].counts.warned
        BY <2>7 DEF SaveSummary, IngestType
      <3> QED
        BY <1>5, <2>1, <2>2, <2>3, <3>1 DEF KnownInv
    <2> QED
      BY <1>7, <2>4, <2>5, <2>6, <2>7
  <1> QED
    BY <1>1, <1>2, <1>3, <1>4, <1>6, <1>7 DEF IngestStep

-----------------------------------------------------------------------------
(* Resets.                                                                 *)

\* An ingest either tells a running reset that it wrote, or writes nothing.
LEMMA IngestsDisturb ==
    ASSUME TypesOK, NEW r \in Runs, IngestStep(r), ResetInv
    PROVE  ResetInv'
  <1> USE DEF TypesOK, graphVars
  <1>1. /\ UNCHANGED << report, resets >>
        /\ Touches \/ UNCHANGED << graphVars, reset >>
    BY DEF IngestStep, StartIngest, CreateIndex, CheckIndex, WriteNodes, WriteLinks, Normalize,
           Count, CountPages, CheckOrder, CheckVector, Check, CheckPages, SaveSummary
  <1>2. CASE UNCHANGED << graphVars, reset >>
    BY <1>1, <1>2 DEF ResetInv
  <1>3. CASE Touches
    <2>1. reset'.pc = reset.pc /\ (reset'.disturbed <=> reset.pc # "none")
      BY <1>3 DEF Touches, ResetType
    <2> QED
      BY <1>1, <2>1 DEF ResetInv
  <1> QED
    BY <1>1, <1>2, <1>3

LEMMA ResetStepInv ==
    ASSUME TypesOK, ResetStep, ResetInv
    PROVE  ResetInv'
  <1> USE DEF TypesOK, graphVars
  <1>1. CASE DeleteNodes
    <2>1. /\ reset'.pc = "check" /\ ~reset'.disturbed /\ ~reset'.dropped
          /\ reset'.deleted <=> chunks # {}
          /\ reset'.found <=> chunks # {} \/ index
      BY <1>1 DEF DeleteNodes, NoReset
    <2> QED
      BY <1>1, <2>1 DEF DeleteNodes, ResetInv
  <1>2. CASE FindIndex
    <2>1. /\ reset.pc = "check" /\ reset'.pc = IF index THEN "drop" ELSE "report"
          /\ reset'.disturbed = reset.disturbed /\ reset'.dropped = reset.dropped
          /\ reset'.deleted = reset.deleted /\ reset'.found = reset.found
      BY <1>2 DEF FindIndex, ResetType
    <2> QED
      BY <1>2, <2>1 DEF FindIndex, ResetInv
  <1>3. CASE DropIndex
    <2>1. /\ reset.pc = "drop" /\ reset'.pc = "report" /\ reset'.dropped
          /\ reset'.disturbed = reset.disturbed /\ reset'.found = reset.found
      BY <1>3 DEF DropIndex, ResetType
    <2> QED
      BY <1>3, <2>1 DEF DropIndex, ResetInv
  <1>4. CASE Report \/ CrashReset
    <2>1. reset'.pc = "none" /\ ~reset'.disturbed /\ UNCHANGED << graphVars, resets >>
      BY <1>4 DEF Report, CrashReset, NoReset
    <2> QED
      BY <2>1 DEF ResetInv
  <1> QED
    BY <1>1, <1>2, <1>3, <1>4 DEF ResetStep

\* A reset takes nothing from what ingests rely on, and all from what they know.
LEMMA ResetsForget ==
    ASSUME TypesOK, ResetStep, ResetInv, NEW r \in Runs, IngestInv(r)
    PROVE  /\ IngestInv(r)'
           /\ resets' = 0 => resets = 0 /\ (KnownInv(r) => KnownInv(r)')
  <1> USE DEF TypesOK, graphVars, Past, Done
  <1>1. CASE DeleteNodes
    <2>1. Own(r)' = {} /\ ingest' = ingest /\ resets' # 0
      BY <1>1 DEF DeleteNodes, Own
    <2> QED
      BY <2>1 DEF IngestInv
  <1>2. CASE DropIndex
    <2>1. Own(r)' = Own(r) /\ UNCHANGED << ingest, linked, resets >> /\ resets # 0
      BY <1>2 DEF DropIndex, Own, ResetInv
    <2> QED
      BY <2>1 DEF IngestInv
  <1>3. CASE FindIndex \/ Report \/ CrashReset
    <2>1. UNCHANGED << ingest, graphVars, resets >>
      BY <1>3 DEF FindIndex, Report, CrashReset
    <2>2. Own(r)' = Own(r)
      BY <2>1 DEF Own
    <2> QED
      BY <2>1, <2>2 DEF IngestInv, KnownInv
  <1> QED
    BY <1>1, <1>2, <1>3 DEF ResetStep

-----------------------------------------------------------------------------
(* The invariant of the whole.                                             *)

LEMMA InitInv == IngestInit => TypesOK /\ DocumentsInv /\ ResetLeavesNothing
  <1> SUFFICES ASSUME IngestInit
               PROVE  TypesOK /\ DocumentsInv /\ ResetLeavesNothing
    OBVIOUS
  <1>1. ResetInv /\ ResetLeavesNothing
    BY DEF IngestInit, ResetInv, NoReset, ResetLeavesNothing
  <1>2. ASSUME NEW r \in Runs
        PROVE  IngestInv(r) /\ KnownInv(r)
    <2>1. ingest[r].pc = "none" /\ ingest[r].summary = "none" /\ Own(r) = {}
      BY DEF IngestInit, NoIngest, Own
    <2> QED
      BY <2>1 DEF IngestInv, KnownInv, Past, Done, Early, Counted
  <1> QED
    BY <1>1, <1>2, InitTypes DEF DocumentsInv

\* Ingests and resets keep the invariant, whatever is asked meanwhile.
LEMMA DocumentsStep ==
    ASSUME TypesOK, DocumentsInv,
           (\E r \in Runs : IngestStep(r)) \/ ResetStep \/ UNCHANGED ingestVars
    PROVE  TypesOK' /\ DocumentsInv'
  <1>1. ASSUME NEW r \in Runs, IngestStep(r)
        PROVE  TypesOK' /\ DocumentsInv'
    <2>1. TypesOK'
      BY <1>1, StepTypes
    <2>2. ResetInv'
      BY <1>1, IngestsDisturb DEF DocumentsInv
    <2>3. resets' = resets
      BY <1>1 DEF IngestStep, StartIngest, CreateIndex, CheckIndex, WriteNodes, WriteLinks,
                  Normalize, Count, CountPages, CheckOrder, CheckVector, Check, CheckPages,
                  SaveSummary
    <2>4. ASSUME NEW q \in Runs
          PROVE  IngestInv(q)' /\ (resets' = 0 => KnownInv(q)')
      <3>1. IngestInv(q) /\ (resets = 0 => KnownInv(q))
        BY DEF DocumentsInv
      <3>2. CASE q = r
        BY <1>1, <2>3, <3>1, <3>2, IngestStepInv, KnownStepInv
      <3>3. CASE q # r
        BY <1>1, <2>3, <3>1, <3>3, OthersKnow
      <3> QED
        BY <3>2, <3>3
    <2> QED
      BY <2>1, <2>2, <2>4 DEF DocumentsInv
  <1>2. CASE ResetStep
    <2>1. ASSUME NEW q \in Runs
          PROVE  IngestInv(q)' /\ (resets' = 0 => KnownInv(q)')
      BY <1>2, ResetsForget DEF DocumentsInv
    <2> QED
      BY <1>2, <2>1, ResetTypes, ResetStepInv DEF DocumentsInv
  <1>3. CASE UNCHANGED ingestVars
    <2>1. \A q \in Runs : Own(q)' = Own(q)
      BY <1>3 DEF ingestVars, graphVars, Own
    <2> QED
      BY <1>3, <2>1 DEF ingestVars, graphVars, TypesOK, DocumentsInv, ResetInv, IngestInv,
                        KnownInv, Past, Done
  <1> QED
    BY <1>1, <1>2, <1>3

\* What a step of documents and questions does to documents.
LEMMA StepKinds ==
    [Next]_documentVars =>
        \/ \E r \in Runs : IngestStep(r)
        \/ ResetStep
        \/ UNCHANGED ingestVars
  BY DEF Next, Resolve, Search, documentVars

LEMMA DocumentsInvariant == DocumentsSpec => [](TypesOK /\ DocumentsInv)
  <1>1. Init => TypesOK /\ DocumentsInv
    BY InitInv DEF Init
  <1>2. TypesOK /\ DocumentsInv /\ [Next]_documentVars => (TypesOK /\ DocumentsInv)'
    BY StepKinds, DocumentsStep
  <1> QED
    BY <1>1, <1>2, PTL DEF DocumentsSpec

\* Any reset during which no ingest wrote leaves no chunk and no index, and reports a no-op
\* just when it began with neither: for any number of ingests and of resets, some of which
\* died half way.
THEOREM ResetsLeaveNothing == DocumentsSpec => []ResetLeavesNothing
  <1>1. Init => ResetLeavesNothing
    BY InitInv DEF Init
  <1>2. ASSUME TypesOK, DocumentsInv, ResetLeavesNothing, [Next]_documentVars
        PROVE  ResetLeavesNothing'
    <2>1. CASE Report
      <3> DEFINE left == chunks # {} \/ index
                 e == [idempotent |-> Idempotent(reset), found |-> reset.found,
                       disturbed |-> reset.disturbed, left |-> left]
      <3>1. report' = {e}
        BY <2>1 DEF Report
      <3>2. ~reset.disturbed =>
              chunks = {} /\ ~index /\ (reset.found <=> reset.deleted \/ reset.dropped)
        BY <1>2, <2>1 DEF Report, DocumentsInv, ResetInv, TypesOK
      <3>3. ~reset.disturbed => (Idempotent(reset) <=> ~reset.found)
        BY <3>2 DEF Idempotent
      <3>4. /\ e.idempotent = Idempotent(reset) /\ e.found = reset.found
            /\ e.disturbed = reset.disturbed /\ e.left = left
        <4> HIDE DEF left
        <4> QED
          OBVIOUS
      <3>5. ~e.disturbed => ~e.left /\ (e.idempotent <=> ~e.found)
        BY <3>2, <3>3, <3>4
      <3> HIDE DEF e, left
      <3> QED
        BY <3>1, <3>5 DEF ResetLeavesNothing
    <2>2. CASE UNCHANGED report
      BY <1>2, <2>2 DEF ResetLeavesNothing
    <2>3. Report \/ UNCHANGED report
      <3>1. CASE \E r \in Runs : IngestStep(r)
        BY <3>1 DEF IngestStep, StartIngest, CreateIndex, CheckIndex, WriteNodes, WriteLinks,
                    Normalize, Count, CountPages, CheckOrder, CheckVector, Check, CheckPages,
                    SaveSummary
      <3>2. CASE ResetStep
        BY <3>2 DEF ResetStep, DeleteNodes, FindIndex, DropIndex, CrashReset
      <3>3. CASE UNCHANGED ingestVars
        BY <3>3 DEF ingestVars
      <3> QED
        BY <1>2, <3>1, <3>2, <3>3, StepKinds
    <2> QED
      BY <2>1, <2>2, <2>3
  <1> QED
    BY <1>1, <1>2, DocumentsInvariant, PTL DEF DocumentsSpec

\* A summary that says an ingest succeeded describes what is in the graph, as long as no
\* reset has begun, whatever other ingests do and wherever they fail.
THEOREM SummariesTrue == DocumentsSpec => []SummaryTrue
  <1>1. ASSUME TypesOK, DocumentsInv
        PROVE  SummaryTrue
    <2> SUFFICES ASSUME NEW r \in Begun
                 PROVE  LET own == { c \in chunks : c.run = r } counts == ingest[r].counts IN
                        /\ ingest[r].summary = "dry" => own = {}
                        /\ Done(r) /\ resets = 0 =>
                            /\ index /\ r \in linked
                            /\ own # {} /\ \A c \in own : c.id /\ c.lacks = {}
                            /\ counts.chunks = Cardinality(own)
                            /\ counts.pages
                                 = Cardinality({ p \in Pages : \E c \in own : c.page = p })
                            /\ counts.warned <=> \E c \in own : c.page = NoPage
                            /\ counts.warned \/ counts.pages > 0
      BY DEF SummaryTrue
    <2>1. r \in Runs /\ IngestInv(r) /\ (resets = 0 => KnownInv(r))
      BY <1>1 DEF Begun, DocumentsInv
    <2>2. ingest[r].summary = "dry" => Own(r) = {}
      BY <2>1 DEF IngestInv
    <2>3. ASSUME Done(r), resets = 0
          PROVE  /\ index /\ r \in linked
                 /\ Own(r) # {} /\ \A c \in Own(r) : c.id /\ c.lacks = {}
                 /\ ingest[r].counts.chunks = Cardinality(Own(r))
                 /\ ingest[r].counts.pages
                      = Cardinality({ p \in Pages : \E c \in Own(r) : c.page = p })
                 /\ ingest[r].counts.warned <=> \E c \in Own(r) : c.page = NoPage
                 /\ ingest[r].counts.warned \/ ingest[r].counts.pages > 0
      <3>1. /\ index /\ r \in linked /\ Own(r) # {}
            /\ Cardinality(Own(r)) = ingest[r].counts.chunks
            /\ ingest[r].counts.pages = Cardinality(PagesOf(Own(r)))
            /\ \A c \in Own(r) : c.id /\ "order" \notin c.lacks /\ "vector" \notin c.lacks
            /\ ingest[r].counts.warned <=> \E c \in Own(r) : c.page = NoPage
        BY <2>1, <2>3 DEF IngestInv, KnownInv, Past
      <3>2. \A c \in Own(r) : /\ c.page \in Pages \cup {NoPage}
                              /\ c.lacks \in SUBSET {"order", "vector"}
        BY <1>1 DEF TypesOK, Own, ChunkType
      <3>3. \A c \in Own(r) : c.id /\ c.lacks = {}
        BY <3>1, <3>2
      <3>4. PagesOf(Own(r)) = { p \in Pages : \E c \in Own(r) : c.page = p }
        BY <3>2, PagesAssumption DEF PagesOf
      <3>5. IsFiniteSet(PagesOf(Own(r))) /\ Cardinality(PagesOf(Own(r))) \in Nat
        <4>1. Own(r) \in SUBSET OwnChunks(r)
          BY <3>1 DEF Own, OwnChunks
        <4> QED
          BY <1>1, <4>1, PagesFinite
      <3>6. ASSUME ~ingest[r].counts.warned PROVE ingest[r].counts.pages > 0
        <4>1. PICK c \in Own(r) : c.page # NoPage
          BY <3>1, <3>6
        <4>2. PagesOf(Own(r)) # {}
          BY <4>1 DEF PagesOf
        <4>3. Cardinality(PagesOf(Own(r))) # 0
          BY <3>5, <4>2, FS_EmptySet
        <4> QED
          BY <3>1, <3>5, <4>3
      <3> QED
        BY <3>1, <3>3, <3>4, <3>6
    <2> QED
      BY <2>2, <2>3 DEF Own
  <1> QED
    BY <1>1, DocumentsInvariant, PTL

-----------------------------------------------------------------------------
(* Questions.                                                              *)

\* Runs have a latest one.
LEMMA LatestRun ==
    ASSUME NEW S \in SUBSET Runs, S # {}
    PROVE  Max(S) \in S /\ \A r \in S : r <= Max(S)
  <1> DEFINE gaps == { MaxRuns - r : r \in S }
  <1>1. MaxRuns \in Nat /\ S \subseteq 1 .. MaxRuns
    BY DocumentBoundsAssumption DEF Runs
  <1>2. gaps \subseteq Nat /\ gaps # {}
    <2>1. \A r \in S : r \in Nat /\ r <= MaxRuns
      BY <1>1
    <2>2. \A r \in S : MaxRuns - r \in Nat
      BY <1>1, <2>1
    <2>3. PICK r \in S : TRUE
      OBVIOUS
    <2> QED
      BY Zenon, <2>2, <2>3
  <1>3. PICK n \in gaps : \A m \in gaps : ~(<< m, n >> \in OpToRel(<, Nat))
    <2> HIDE DEF gaps
    <2> QED
      BY <1>2, NatLessThanWellFounded, WFMin
  <1>4. \A m, k : m \in Nat /\ k \in Nat /\ m < k => << m, k >> \in OpToRel(<, Nat)
    BY Zenon DEF OpToRel
  <1>5. \A m \in gaps : n <= m
    <2>1. \A m \in gaps : ~(m < n)
      <3> HIDE DEF gaps
      <3> QED
        BY Zenon, <1>2, <1>3, <1>4
    <2> HIDE DEF gaps
    <2> QED
      BY <1>2, <2>1
  <1>6. \E x \in S : \A y \in S : x >= y
    <2>1. PICK x \in S : n = MaxRuns - x
      OBVIOUS
    <2>2. \A y \in S : n <= MaxRuns - y
      BY <1>5
    <2> HIDE DEF gaps
    <2>3. x \in Nat /\ \A y \in S : y \in Nat
      BY <1>1
    <2>4. \A y \in S : x >= y
      BY <1>1, <2>1, <2>2, <2>3
    <2> QED
      BY <2>4
  <1> QED
    BY <1>1, <1>6 DEF Max

\* At most one dataset is selected, by name or for want of another.
LEMMA OneSelected ==
    ASSUME NEW i \in Inputs, Selected(i) # {}
    PROVE  /\ \E d \in Datasets : Selected(i) = {d}
           /\ i.dataset = AnyDataset => Selected(i) = Datasets
           /\ i.dataset # AnyDataset => Selected(i) = {i.dataset}
  <1>1. i.dataset \in Datasets \cup {AnyDataset}
    BY InputsAssumption
  <1>2. Cardinality(Datasets) = 1 => \E d : Datasets = {d}
    BY DatasetsAssumption, FS_Singleton
  <1> QED
    BY <1>1, <1>2 DEF Selected

\* Chunks of a run are of one dataset.
LEMMA OneDataset ==
    ASSUME TypesOK, NEW r \in Runs
    PROVE  /\ DatasetsOfRun(r) \subseteq {ingest[r].dataset}
           /\ DatasetsOfRun(r) \subseteq Datasets
  BY DEF TypesOK, DatasetsOfRun, IngestType

\* The latest run with chunks of the selected dataset.
LEMMA LatestInScope ==
    ASSUME TypesOK, NEW i \in Inputs, NEW d \in Datasets, Selected(i) = {d}, WithChunks(i) # {}
    PROVE  /\ Max(WithChunks(i)) \in Runs
           /\ DatasetsOfRun(Max(WithChunks(i))) = {d}
           /\ \A r \in Runs : DatasetsOfRun(r) = {d} => r <= Max(WithChunks(i))
  <1>1. WithChunks(i) = { c.run : c \in { c \in chunks : ingest[c.run].dataset = d } }
    BY DEF WithChunks
  <1>2. WithChunks(i) \in SUBSET Runs
    BY <1>1 DEF TypesOK, ChunkType
  <1>3. Max(WithChunks(i)) \in WithChunks(i) /\ \A r \in WithChunks(i) : r <= Max(WithChunks(i))
    BY <1>2, LatestRun
  <1>4. \A r \in Runs : r \in WithChunks(i) <=> DatasetsOfRun(r) = {d}
    BY <1>1, OneDataset DEF DatasetsOfRun
  <1> QED
    BY <1>2, <1>3, <1>4

\* What is resolved, whatever the flags, unless all runs are asked.
LEMMA ScopeResolved ==
    ASSUME TypesOK, Resolve, ask'.pc = "ready", ask'.flag # "all"
    PROVE  /\ ask'.run \in Runs /\ ask'.source \in Datasets
           /\ ask'.flag = "latest" => \A r \in Runs :
                DatasetsOfRun(r) = {ask'.source} => r <= ask'.run
           /\ ~ask'.warned => DatasetsOfRun(ask'.run) \subseteq {ask'.source}
  <1>1. PICK i \in Inputs :
        ask' = IF ScopeRun(i) = {} \/ (i.flag # "all" /\ Selected(i) = {})
               THEN [pc |-> "refused"]
               ELSE [pc |-> IF i.dry THEN "dry" ELSE "ready", flag |-> i.flag,
                     run |-> CHOOSE r \in ScopeRun(i) : TRUE, warned |-> Warned(i),
                     source |-> IF i.flag = "all" THEN AnyDataset
                                ELSE CHOOSE d \in Selected(i) : TRUE,
                     hits |-> {}, turns |-> 0]
    BY DEF Resolve
  <1>2. ~(ScopeRun(i) = {} \/ (i.flag # "all" /\ Selected(i) = {}))
    BY <1>1
  <1>3. /\ ask'.flag = i.flag /\ ask'.warned = Warned(i)
        /\ ask'.run = CHOOSE r \in ScopeRun(i) : TRUE
        /\ ask'.source = IF i.flag = "all" THEN AnyDataset ELSE CHOOSE d \in Selected(i) : TRUE
        /\ ask'.pc = IF i.dry THEN "dry" ELSE "ready"
    BY <1>1, <1>2
  <1>4. /\ i.flag \in {"run", "latest", "none"} /\ ~i.dry
        /\ {i.run, i.env} \subseteq Runs \cup {NoRun}
        /\ i.flag = "run" <=> i.run # NoRun
        /\ ScopeRun(i) # {} /\ Selected(i) # {}
    BY <1>2, <1>3, InputsAssumption
  <1>5. PICK d \in Datasets : Selected(i) = {d}
    BY <1>4, OneSelected
  <1>6. ask'.source = d
    BY <1>3, <1>4, <1>5
  <1>7. ASSUME NEW r \in Runs, Warned(i) <=> i.dataset # AnyDataset /\ DatasetsOfRun(r) \ {i.dataset} # {}
        PROVE  ~Warned(i) => DatasetsOfRun(r) \subseteq {d}
    <2>1. CASE i.dataset = AnyDataset
      BY <1>4, <1>5, <2>1, OneSelected, OneDataset
    <2>2. CASE i.dataset # AnyDataset
      BY <1>4, <1>5, <1>7, <2>2, OneSelected
    <2> QED
      BY <2>1, <2>2
  <1>8. CASE i.flag = "run"
    <2>1. ScopeRun(i) = {i.run} /\ i.run \in Runs
      BY <1>4, <1>8 DEF ScopeRun
    <2>2. Warned(i) <=> i.dataset # AnyDataset /\ DatasetsOfRun(i.run) \ {i.dataset} # {}
      BY <1>4, <1>8 DEF Warned
    <2> QED
      BY <1>3, <1>6, <1>7, <1>8, <2>1, <2>2
  <1>9. CASE i.flag = "none" /\ i.env # NoRun
    <2>1. ScopeRun(i) = {i.env} /\ i.env \in Runs
      BY <1>4, <1>9 DEF ScopeRun
    <2>2. Warned(i) <=> i.dataset # AnyDataset
      BY <1>4, <1>9 DEF Warned
    <2>3. ~Warned(i) => DatasetsOfRun(i.env) \subseteq {d}
      BY <1>4, <1>5, <2>1, <2>2, OneSelected, OneDataset
    <2> QED
      BY <1>3, <1>6, <1>9, <2>1, <2>3
  <1>10. CASE i.flag = "latest" \/ (i.flag = "none" /\ i.env = NoRun)
    <2>1. WithChunks(i) # {} /\ ScopeRun(i) = {Max(WithChunks(i))}
      BY <1>4, <1>10 DEF ScopeRun
    <2>2. ask'.run = Max(WithChunks(i))
      BY <1>3, <2>1
    <2> QED
      BY <1>5, <1>6, <2>1, <2>2, LatestInScope
  <1> QED
    BY <1>4, <1>8, <1>9, <1>10

\* A question that searches is a whole record, and unless it asks all runs it has a scope.
AskInv ==
    ask.pc = "ready" =>
        /\ ask = [pc |-> "ready", flag |-> ask.flag, run |-> ask.run, warned |-> ask.warned,
                  source |-> ask.source, hits |-> ask.hits, turns |-> ask.turns]
        /\ ask.turns \in Nat
        /\ ask.flag # "all" => ask.run # NoRun /\ ask.source # AnyDataset

LEMMA ResolveStep ==
    ASSUME TypesOK, Resolve
    PROVE  AskInv' /\ AnswerStep
  <1>1. ask.pc = "none"
    BY DEF Resolve
  <1>2. AskInv'
    <2> SUFFICES ASSUME ask'.pc = "ready"
                 PROVE  /\ ask' = [pc |-> "ready", flag |-> ask'.flag, run |-> ask'.run,
                                   warned |-> ask'.warned, source |-> ask'.source,
                                   hits |-> ask'.hits, turns |-> ask'.turns]
                        /\ ask'.turns \in Nat
                        /\ ask'.flag # "all" => ask'.run # NoRun /\ ask'.source # AnyDataset
      BY DEF AskInv
    <2>1. \E f, r, w, d :
            ask' = [pc |-> "ready", flag |-> f, run |-> r, warned |-> w, source |-> d,
                    hits |-> {}, turns |-> 0]
      <3>1. \E p, f, r, w, d :
              \/ ask' = [pc |-> "refused"]
              \/ ask' = [pc |-> p, flag |-> f, run |-> r, warned |-> w, source |-> d,
                         hits |-> {}, turns |-> 0]
        BY Zenon DEF Resolve
      <3> QED
        BY <3>1
    <2>2. ask'.flag # "all" => ask'.run # NoRun /\ ask'.source # AnyDataset
      BY ScopeResolved, ScopeAssumption
    <2>3. PICK f, r, w, d :
            ask' = [pc |-> "ready", flag |-> f, run |-> r, warned |-> w, source |-> d,
                    hits |-> {}, turns |-> 0]
      BY <2>1
    <2> QED
      BY <2>2, <2>3
  <1>3. AnswerStep
    BY <1>1, ScopeResolved DEF AnswerStep
  <1> QED
    BY <1>2, <1>3

LEMMA SearchStep ==
    ASSUME TypesOK, DocumentsInv, AskInv, Search
    PROVE  AskInv' /\ AnswerStep
  <1>1. ask.pc = "ready" /\ UNCHANGED ingestVars
    BY DEF Search
  <1>2. ask = [pc |-> "ready", flag |-> ask.flag, run |-> ask.run, warned |-> ask.warned,
               source |-> ask.source, hits |-> ask.hits, turns |-> ask.turns]
        /\ ask.turns \in Nat
        /\ (ask.flag # "all" => ask.run # NoRun /\ ask.source # AnyDataset)
    BY <1>1 DEF AskInv
  <1>3. CASE index
    <2>1. PICK top \in SUBSET chunks :
            ask' = [ask EXCEPT !.turns = @ + 1, !.hits = { c \in top : Matches(c) }]
      BY <1>3 DEF Search, kSubset
    <2> DEFINE found == { c \in top : Matches(c) }
    <2>2. ask' = [pc |-> "ready", flag |-> ask.flag, run |-> ask.run, warned |-> ask.warned,
                  source |-> ask.source, hits |-> found, turns |-> ask.turns + 1]
      <3> HIDE DEF found
      <3>1. ask' = [ask EXCEPT !.turns = @ + 1, !.hits = found]
        BY <2>1 DEF found
      <3>2. PICK f, r, w, d, h, n :
              ask = [pc |-> "ready", flag |-> f, run |-> r, warned |-> w, source |-> d,
                     hits |-> h, turns |-> n]
        BY Zenon, <1>2
      <3>3. ask' = [pc |-> "ready", flag |-> f, run |-> r, warned |-> w, source |-> d,
                    hits |-> found, turns |-> n + 1]
        BY <3>1, <3>2
      <3>4. f = ask.flag /\ r = ask.run /\ w = ask.warned /\ d = ask.source /\ n = ask.turns
        BY <3>2
      <3> QED
        BY Zenon, <3>3, <3>4
    <2>3. AskInv'
      <3> HIDE DEF found
      <3> QED
        BY <1>2, <2>2 DEF AskInv
    <2>4. ask'.hits = found
      BY <2>2
    <2>5. ASSUME NEW c \in found
          PROVE  /\ ask.flag # "all" => c.run = ask.run /\ ingest[c.run].dataset = ask.source
                 /\ ~c.id => ~Done(c.run)
      <3>1. c \in chunks /\ Matches(c)
        OBVIOUS
      <3>2. ask.flag # "all" => c.run = ask.run /\ ingest[c.run].dataset = ask.source
        BY <1>2, <3>1 DEF Matches
      <3>3. c.run \in Runs /\ c \in Own(c.run)
        BY <3>1 DEF TypesOK, ChunkType, Own
      <3>4. Done(c.run) => c.id
        BY <3>3 DEF DocumentsInv, IngestInv, Past
      <3> QED
        BY <3>2, <3>4
    <2> HIDE DEF found
    <2> QED
      BY <1>1, <2>3, <2>4, <2>5 DEF AnswerStep
  <1>4. CASE ~index
    <2>1. ask'.pc = "failed"
      <3>1. ask' = [ask EXCEPT !.pc = "failed"]
        BY Zenon, <1>4 DEF Search
      <3> QED
        BY <1>2, <3>1
    <2> QED
      BY <2>1 DEF AskInv, AnswerStep
  <1> QED
    BY <1>3, <1>4

\* For any number of ingests, resets and searches, and any flags: a question gets chunks of
\* its own run and dataset only, learns when its run is of another dataset, is not given a
\* run older than a finished one of its dataset, and gets no chunk without an id of a run
\* that reported success.
THEOREM QuestionsInScope == DocumentsSpec => AnswersInScope
  <1>1. Init => AskInv
    BY DEF Init, NoAsk, AskInv
  <1>2. ASSUME TypesOK, DocumentsInv, AskInv, [Next]_documentVars
        PROVE  AskInv' /\ [AnswerStep]_documentVars
    <2>1. CASE Resolve
      BY <1>2, <2>1, ResolveStep
    <2>2. CASE Search
      BY <1>2, <2>2, SearchStep
    <2>3. CASE UNCHANGED ask
      <3>1. AnswerStep
        BY <1>2, <2>3 DEF AskInv, AnswerStep
      <3> QED
        BY <1>2, <2>3, <3>1 DEF AskInv
    <2> QED
      BY <1>2, <2>1, <2>2, <2>3 DEF Next, documentVars, askVars
  <1> QED
    BY <1>1, <1>2, DocumentsInvariant, PTL DEF DocumentsSpec, AnswersInScope
=============================================================================
