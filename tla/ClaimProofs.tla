---------------------------- MODULE ClaimProofs ----------------------------
(***************************************************************************)
(* Proofs about the claim stages: what matching returns, that the metrics  *)
(* add up, and the safety of overlapping extraction and participation.     *)
(***************************************************************************)
EXTENDS ClaimStages, FiniteSetTheorems, TLAPS

-----------------------------------------------------------------------------
(* The inductive invariant.                                                *)

IsFunction(f) == f = [x \in DOMAIN f |-> f[x]]

\* Functions are functions; the rows and edges of a job belong together.
ShapesOK ==
    /\ used \in [starts : Nat, dryRuns : Nat, resets : Nat, crashes : Nat]
    /\ IsFunction(participant) /\ IsFunction(claimRows)
    /\ IsFunction(mentionRows) /\ IsFunction(edgeRows)
    /\ DOMAIN claimRows = Jobs /\ DOMAIN mentionRows = Jobs /\ DOMAIN edgeRows = Jobs
    /\ \A j \in Jobs : IsFunction(claimRows[j]) /\ IsFunction(mentionRows[j])

Built == {"writeExtraction", "saveExtraction", "writeEdges", "saveMetrics", "saveParticipation"}
EdgesBuilt ==
    \A j \in Jobs : pc[j] \in Built => edgeRows[j] = EdgeRows(claimRows[j], mentionRows[j])

\* Claim and mention of an edge are of one run.
OneRun == \A e \in DOMAIN participant : e[1][1] = e[3][1]

\* No chunk comes back after a reset, and a job it did not meet found none.
AfterReset ==
    ~NoReset =>
        /\ chunks = {} /\ supportedBy = {} /\ mentionedIn = {}
        /\ \A j \in Jobs \ disturbed :
            pc[j] \in {"readMentions", "writeEdges"} =>
                \A i \in DOMAIN claimRows[j] : claimRows[j][i].chunks = {}

\* Prepared rows are of chunks that are there.
RowsOfChunks(run, rows) ==
    \A i \in DOMAIN rows : \A c \in rows[i].chunks : << run, c >> \in chunks

\* Rows that were read are of nodes that are there, with the chunks they were
\* read with and, unless rewritten, their texts.
ClaimRowsKnown(run, rows) ==
    \A i \in DOMAIN rows :
        /\ << run, i >> \in DOMAIN claims
        /\ rows[i].chunks \subseteq ChunksOf(supportedBy, << run, i >>)
        /\ << run, i >> \notin rewritten => rows[i].slots = claims[<< run, i >>]
MentionRowsKnown(run, rows) ==
    \A i \in DOMAIN rows :
        /\ << run, i >> \in DOMAIN mentions
        /\ rows[i].chunks \subseteq ChunksOf(mentionedIn, << run, i >>)
        /\ << run, i >> \notin rewritten => rows[i].name = mentions[<< run, i >>]

Key(run, e) == << << run, e[1] >>, e[2], << run, e[3] >> >>
RowsSaved(run, cRows, mRows) ==
    /\ \A i \in DOMAIN cRows : << run, i >> \in DOMAIN claims
    /\ \A i \in DOMAIN mRows : << run, i >> \in DOMAIN mentions
    /\ \A e \in DOMAIN EdgeRows(cRows, mRows) : Key(run, e) \in DOMAIN participant

MemoryTrue ==
    NoReset => \A j \in Jobs :
        /\ pc[j] = "writeExtraction" =>
            RowsOfChunks(RunOf(j), claimRows[j]) /\ RowsOfChunks(RunOf(j), mentionRows[j])
        /\ pc[j] \in {"readMentions", "writeEdges"} => ClaimRowsKnown(RunOf(j), claimRows[j])
        /\ pc[j] = "writeEdges" => MentionRowsKnown(RunOf(j), mentionRows[j])
        /\ pc[j] \in {"saveExtraction", "saveMetrics", "saveParticipation"} =>
            RowsSaved(RunOf(j), claimRows[j], mentionRows[j])

\* What participation reads when it reads now.
GraphClaims(run) ==
    [i \in { i \in ClaimIds : << run, i >> \in DOMAIN claims } |->
        [slots |-> claims[<< run, i >>], chunks |-> ChunksOf(supportedBy, << run, i >>)]]
GraphMentions(run) ==
    [i \in { i \in MentionIds : << run, i >> \in DOMAIN mentions } |->
        [name |-> mentions[<< run, i >>], chunks |-> ChunksOf(mentionedIn, << run, i >>)]]

\* Until a second extraction, a job of the run has read no claim or the graph as
\* it is, and the edges of the run are those the graph's rows lead to.
FirstReading ==
    NoReset => \A j \in Jobs :
        written[RunOf(j)] <= 1 =>
            /\ pc[j] = "readMentions" =>
                DOMAIN claimRows[j] = {} \/ claimRows[j] = GraphClaims(RunOf(j))
            /\ pc[j] = "writeEdges" =>
                \/ DOMAIN claimRows[j] = {}
                \/ /\ claimRows[j] = GraphClaims(RunOf(j))
                   /\ mentionRows[j] = GraphMentions(RunOf(j))

Unwritten ==
    NoReset => \A run \in Runs :
        written[run] = 0 =>
            /\ \A n \in DOMAIN claims : n[1] # run
            /\ \A n \in DOMAIN mentions : n[1] # run

EdgesExact(run) ==
    LET rows == EdgeRows(GraphClaims(run), GraphMentions(run)) IN
    \A e \in ClaimIds \X Roles \X MentionIds :
        /\ Key(run, e) \in DOMAIN participant <=> e \in DOMAIN rows
        /\ e \in DOMAIN rows => participant[Key(run, e)] = rows[e]
ExactUntilRewritten == NoReset => \A run \in Runs : written[run] <= 1 => EdgesExact(run)

RunEdges(run) == { e \in DOMAIN participant : e[1][1] = run }
RunClaims(run) == { n \in DOMAIN claims : n[1] = run }
RunMentions(run) == { n \in DOMAIN mentions : n[1] = run }
SummariesTrue ==
    NoReset => \A k \in DOMAIN summary :
        /\ summary[k].edges <= Cardinality(RunEdges(k[2]))
        /\ summary[k].claims <= Cardinality(RunClaims(k[2]))
        /\ summary[k].mentions <= Cardinality(RunMentions(k[2]))

MetricsAddUp(m) ==
    /\ m.slots = m.exact + m.ambiguous + m.unmatched + m.full + m.partial
    /\ m.noSuccess <= m.unmatched
    /\ m.withEdge <= m.edges /\ m.withEdge <= m.claims
    /\ m.edges <= m.exact + m.matchedParts
MetricsTrue == \A run \in DOMAIN metricsFile : MetricsAddUp(metricsFile[run])

-----------------------------------------------------------------------------
(* What matching returns.                                                  *)

Exact == {"raw_exact", "casefold_exact", "normalized_exact"}

\* A text is split into texts, two at least or none.
LEMMA TextsFacts ==
    ASSUME NEW text \in Texts
    PROVE  /\ Len(Parts[text]) \in Nat \ {1}
           /\ DOMAIN Parts[text] = 1 .. Len(Parts[text])
           /\ \A k \in DOMAIN Parts[text] : Parts[text][k] \in Texts
  <1>1. Parts[text] \in Seq(Texts) /\ Len(Parts[text]) # 1
    BY TextsAssumption
  <1> QED BY <1>1

\* The three levels of exact matching.
LEMMA LevelsFacts ==
    /\ \A k \in 1 .. 3 : Levels[k] \in Exact
    /\ Levels[1] = "raw_exact"
    /\ \A level \in Exact : \E k \in 1 .. 3 : level = Levels[k]
  BY DEF Levels, Exact

\* The smallest of the levels found.
LEMMA FirstLevel ==
    ASSUME NEW found, found \subseteq 1 .. 3, found # {}
    PROVE  /\ Min(found) \in found
           /\ \A k \in found : Min(found) <= k
  <1>1. \E k \in found : \A l \in found : k <= l
    <2>1. CASE 1 \in found  BY <2>1
    <2>2. CASE 1 \notin found /\ 2 \in found  BY <2>2
    <2>3. CASE 1 \notin found /\ 2 \notin found
      <3>1. \A k \in 1 .. 3 : k = 1 \/ k = 2 \/ k = 3
        OBVIOUS
      <3>2. \A k \in found : k = 3
        BY <2>3, <3>1
      <3>3. 3 \in found
        BY <3>2
      <3>4. \A l \in found : 3 <= l
        BY <3>2
      <3> QED BY <3>3, <3>4
    <2> QED BY <2>1, <2>2, <2>3
  <1> QED BY <1>1 DEF Min

\* One mention is matched, at the level recorded, or none.
LEMMA MatchTextFacts ==
    ASSUME NEW text, NEW names, IsFiniteSet(DOMAIN names)
    PROVE  LET match == MatchText(text, names) IN
           /\ match.outcome \in Exact \cup {"none", "ambiguous"}
           /\ match.outcome \notin Exact => match.mentions = {}
           /\ match.outcome \in Exact =>
                \E m \in DOMAIN names : /\ match.mentions = {m}
                                        /\ SameText(match.outcome, text, names[m])
  <1> DEFINE found == { k \in 1 .. 3 : Hits(Levels[k], text, names) # {} }
             level == Levels[Min(found)]
             hits  == Hits(level, text, names)
  <1>1. CASE found = {}
    <2>1. MatchText(text, names) = [outcome |-> "none", mentions |-> {}]
      BY <1>1 DEF MatchText
    <2> QED BY <2>1 DEF Exact
  <1>2. CASE found # {} /\ Cardinality(hits) = 1
    <2>1. MatchText(text, names) = [outcome |-> level, mentions |-> hits]
      BY <1>2 DEF MatchText
    <2>2. level \in Exact
      BY <1>2, FirstLevel, LevelsFacts
    <2>3. hits \subseteq DOMAIN names /\ IsFiniteSet(hits)
      BY FS_Subset DEF Hits
    <2>4. PICK m : hits = {m}
      BY <1>2, <2>3, FS_Singleton
    <2>5. m \in DOMAIN names /\ SameText(level, text, names[m])
      BY <2>4 DEF Hits
    <2> HIDE DEF hits, level
    <2> QED BY <2>1, <2>2, <2>4, <2>5
  <1>3. CASE found # {} /\ Cardinality(hits) # 1
    <2>1. MatchText(text, names) = [outcome |-> "ambiguous", mentions |-> {}]
      BY <1>3 DEF MatchText
    <2> QED BY <2>1 DEF Exact
  <1> QED BY <1>1, <1>2, <1>3

\* The mentions named like the text decide, whatever weaker levels match.
LEMMA RawDecides ==
    ASSUME NEW text, NEW names,
           { m \in DOMAIN names : names[m] = text } # {}
    PROVE  LET same == { m \in DOMAIN names : names[m] = text } IN
           MatchText(text, names) =
             IF Cardinality(same) = 1
             THEN [outcome |-> "raw_exact", mentions |-> same]
             ELSE [outcome |-> "ambiguous", mentions |-> {}]
  <1> DEFINE found == { k \in 1 .. 3 : Hits(Levels[k], text, names) # {} }
             same  == { m \in DOMAIN names : names[m] = text }
             hits  == Hits(Levels[Min(found)], text, names)
  <1>1. Hits("raw_exact", text, names) = same
    BY DEF Hits, SameText
  <1>2. 1 \in found
    BY <1>1, LevelsFacts
  <1>3. Min(found) = 1
    <2>1. found \subseteq 1 .. 3 /\ found # {}
      BY <1>2
    <2> HIDE DEF found
    <2>2. Min(found) \in 1 .. 3 /\ Min(found) <= 1
      BY <1>2, <2>1, FirstLevel
    <2> QED BY <2>2
  <1>4. Levels[Min(found)] = "raw_exact" /\ hits = same
    BY <1>1, <1>3, LevelsFacts
  <1>5. CASE Cardinality(same) = 1
    BY <1>2, <1>4, <1>5 DEF MatchText
  <1>6. CASE Cardinality(same) # 1
    BY <1>2, <1>4, <1>6 DEF MatchText
  <1> QED BY <1>5, <1>6

\* The parts of a text that match are finitely many, each one of its parts.
LEMMA PartFacts ==
    ASSUME NEW text \in Texts, NEW names, IsFiniteSet(DOMAIN names)
    PROVE  /\ MatchedParts(text, names) \subseteq 1 .. Len(Parts[text])
           /\ IsFiniteSet(MatchedParts(text, names))
           /\ Cardinality(MatchedParts(text, names)) \in 0 .. Len(Parts[text])
           /\ \A k \in MatchedParts(text, names) :
                \E m \in DOMAIN names :
                    /\ MatchText(Parts[text][k], names).mentions = {m}
                    /\ \E level \in 1 .. 3 : SameText(Levels[level], Parts[text][k], names[m])
  <1>1. MatchedParts(text, names) \subseteq 1 .. Len(Parts[text])
    BY TextsFacts DEF MatchedParts
  <1>2. IsFiniteSet(1 .. Len(Parts[text])) /\ Cardinality(1 .. Len(Parts[text])) = Len(Parts[text])
    <2>1. Len(Parts[text]) \in Nat
      BY TextsFacts
    <2>2. ASSUME NEW n \in Nat
          PROVE  IsFiniteSet(1 .. n) /\ Cardinality(1 .. n) = n
      BY FS_Interval
    <2> QED BY <2>1, <2>2
  <1>3. /\ IsFiniteSet(MatchedParts(text, names))
        /\ Cardinality(MatchedParts(text, names)) <= Len(Parts[text])
    BY <1>1, <1>2, FS_Subset
  <1>4. Cardinality(MatchedParts(text, names)) \in 0 .. Len(Parts[text])
    BY <1>3, FS_CardinalityType, TextsFacts
  <1>5. ASSUME NEW k \in MatchedParts(text, names)
        PROVE  \E m \in DOMAIN names :
                    /\ MatchText(Parts[text][k], names).mentions = {m}
                    /\ \E level \in 1 .. 3 : SameText(Levels[level], Parts[text][k], names[m])
    <2>1. MatchText(Parts[text][k], names).mentions # {}
      BY DEF MatchedParts
    <2>2. PICK m \in DOMAIN names :
            /\ MatchText(Parts[text][k], names).mentions = {m}
            /\ MatchText(Parts[text][k], names).outcome \in Exact
            /\ SameText(MatchText(Parts[text][k], names).outcome, Parts[text][k], names[m])
      BY <2>1, MatchTextFacts
    <2> QED BY <2>2, LevelsFacts
  <1> QED BY <1>1, <1>3, <1>4, <1>5

\* Matched as a whole, ambiguous, or split into parts that are matched alone.
LEMMA MatchSlotFacts ==
    ASSUME NEW text \in Texts, NEW names, IsFiniteSet(DOMAIN names)
    PROVE  LET match == MatchSlot(text, names) IN
           /\ match.outcome \in Methods \cup {"ambiguous", "unmatched"}
           /\ match.outcome \in Exact => match = MatchText(text, names)
           /\ match.outcome = "ambiguous" => match.mentions = {}
           /\ match.outcome \in {"unmatched", "list_split"} =>
                match.mentions = UNION { MatchText(Parts[text][k], names).mentions :
                                            k \in MatchedParts(text, names) }
           /\ match.outcome = "unmatched" <=>
                /\ MatchText(text, names).outcome = "none"
                /\ MatchedParts(text, names) = {}
           /\ \A m \in match.mentions :
                /\ m \in DOMAIN names
                /\ match.outcome \in Methods
                /\ Justifies(match.outcome, text, names[m])
  <1> DEFINE whole == MatchText(text, names)
             parts == MatchedParts(text, names)
             match == MatchSlot(text, names)
             ofParts == UNION { MatchText(Parts[text][k], names).mentions : k \in parts }
  <1>1. CASE whole.outcome # "none"
    <2>1. match = whole
      BY <1>1 DEF MatchSlot
    <2>2. /\ whole.outcome \in Exact \cup {"ambiguous"}
          /\ whole.outcome \notin Exact => whole.mentions = {}
          /\ whole.outcome \in Exact =>
                \E m \in DOMAIN names : /\ whole.mentions = {m}
                                        /\ SameText(whole.outcome, text, names[m])
      BY <1>1, MatchTextFacts
    <2>3. \A m \in whole.mentions :
                /\ m \in DOMAIN names
                /\ whole.outcome \in Methods
                /\ Justifies(whole.outcome, text, names[m])
      BY <2>2 DEF Exact, Methods, Justifies
    <2> HIDE DEF whole
    <2>4. /\ whole.outcome \in Methods \cup {"ambiguous", "unmatched"}
          /\ whole.outcome \notin {"unmatched", "list_split"}
          /\ whole.outcome = "ambiguous" => whole.mentions = {}
      BY <2>2 DEF Exact, Methods
    <2> HIDE DEF match
    <2> QED BY <1>1, <2>1, <2>3, <2>4 DEF whole, match
  <1>2. CASE whole.outcome = "none"
    <2>1. match = [outcome |-> IF parts = {} THEN "unmatched" ELSE "list_split",
                   mentions |-> ofParts]
      BY <1>2 DEF MatchSlot
    <2>2. ASSUME NEW m \in ofParts
          PROVE  m \in DOMAIN names /\ match.outcome \in Methods
                 /\ Justifies(match.outcome, text, names[m])
      <3>1. PICK k \in parts : m \in MatchText(Parts[text][k], names).mentions
        OBVIOUS
      <3>2. match.outcome = "list_split"
        BY <2>1, <3>1
      <3>3. PICK x \in DOMAIN names :
                /\ MatchText(Parts[text][k], names).mentions = {x}
                /\ \E level \in 1 .. 3 : SameText(Levels[level], Parts[text][k], names[x])
        BY PartFacts
      <3>4. x = m /\ k \in DOMAIN Parts[text]
        BY <3>1, <3>3, PartFacts, TextsFacts
      <3>5. Justifies("list_split", text, names[m])
        BY <3>3, <3>4 DEF Justifies
      <3> QED BY <3>2, <3>3, <3>4, <3>5 DEF Methods
    <2>3. /\ match.outcome \in {"unmatched", "list_split"}
          /\ match.mentions = ofParts
          /\ match.outcome = "unmatched" <=> parts = {}
      BY <2>1
    <2> HIDE DEF ofParts, parts, match
    <2>4. match.outcome \notin Exact \cup {"ambiguous"} /\ match.outcome \in Methods \cup {"unmatched"}
      BY <2>3 DEF Exact, Methods
    <2> QED BY <1>2, <2>2, <2>3, <2>4 DEF match, ofParts, parts
  <1> QED BY <1>1, <1>2

-----------------------------------------------------------------------------
(* The edges of claim and mention rows.                                    *)

RowsOK(cRows, mRows) ==
    Partial(cRows, ClaimIds, ClaimRow) /\ Partial(mRows, MentionIds, MentionRow)

\* A claim row is its slots and its chunks.
LEMMA RowFacts ==
    /\ \A row \in ClaimRow :
        /\ row.slots \in [Roles -> Texts \cup {NoText}]
        /\ row.chunks \subseteq Chunks
        /\ row = [slots |-> row.slots, chunks |-> row.chunks]
    /\ \A row \in MentionRow :
        /\ row.name \in Texts
        /\ row.chunks \subseteq Chunks
        /\ row = [name |-> row.name, chunks |-> row.chunks]
  BY DEF ClaimRow, MentionRow

\* A slot is compared with the mentions that share a chunk with the claim.
LEMMA CandidateFacts ==
    ASSUME NEW cRows, NEW mRows, RowsOK(cRows, mRows), NEW c \in DOMAIN cRows
    PROVE  LET names == NamesFor(cRows[c], mRows) IN
           /\ DOMAIN names = Candidates(cRows[c], mRows)
           /\ IsFiniteSet(DOMAIN names)
           /\ \A m \in DOMAIN names :
                /\ m \in DOMAIN mRows /\ m \in MentionIds
                /\ names[m] = mRows[m].name
                /\ mRows[m].chunks \cap cRows[c].chunks # {}
  <1>1. Candidates(cRows[c], mRows) \subseteq DOMAIN mRows
    BY DEF Candidates
  <1>2. DOMAIN mRows \subseteq MentionIds
    BY DEF RowsOK, Partial
  <1>3. IsFiniteSet(Candidates(cRows[c], mRows))
    BY <1>1, <1>2, FS_Subset, NodesAssumption
  <1>4. DOMAIN NamesFor(cRows[c], mRows) = Candidates(cRows[c], mRows)
    BY DEF NamesFor
  <1>5. \A m \in Candidates(cRows[c], mRows) :
            /\ NamesFor(cRows[c], mRows)[m] = mRows[m].name
            /\ mRows[m].chunks \cap cRows[c].chunks # {}
    BY DEF NamesFor, Candidates
  <1> QED BY <1>1, <1>2, <1>3, <1>4, <1>5

\* A slot belongs to a claim of the rows and has a text.
LEMMA SlotFacts ==
    ASSUME NEW cRows, NEW mRows, RowsOK(cRows, mRows), NEW s \in SlotsOf(cRows, mRows)
    PROVE  /\ s[1] \in DOMAIN cRows /\ s[1] \in ClaimIds /\ s[2] \in Roles
           /\ s = << s[1], s[2] >>
           /\ cRows[s[1]].slots[s[2]] \in Texts
           /\ IsFiniteSet(DOMAIN NamesFor(cRows[s[1]], mRows))
  <1>1. s \in (DOMAIN cRows) \X Roles /\ cRows[s[1]].slots[s[2]] # NoText
    BY DEF SlotsOf
  <1>2. s[1] \in DOMAIN cRows /\ s[2] \in Roles /\ s = << s[1], s[2] >>
    BY <1>1
  <1>3. s[1] \in ClaimIds /\ cRows[s[1]] \in ClaimRow
    BY <1>2 DEF RowsOK, Partial
  <1>4. cRows[s[1]].slots[s[2]] \in Texts
    BY <1>1, <1>2, <1>3, RowFacts
  <1> QED BY <1>2, <1>3, <1>4, CandidateFacts

\* An edge comes from a slot and leads to a candidate that matches it.
LEMMA EdgeRowsDomain ==
    ASSUME NEW cRows, NEW mRows, RowsOK(cRows, mRows)
    PROVE  /\ \A e \in DOMAIN EdgeRows(cRows, mRows) :
                /\ e = << e[1], e[2], e[3] >>
                /\ << e[1], e[2] >> \in SlotsOf(cRows, mRows)
                /\ e[3] \in SlotResult(cRows, mRows, << e[1], e[2] >>).mentions
                /\ EdgeRows(cRows, mRows)[e] = SlotResult(cRows, mRows, << e[1], e[2] >>).outcome
           /\ \A s \in SlotsOf(cRows, mRows) : \A m \in SlotResult(cRows, mRows, s).mentions :
                << s[1], s[2], m >> \in DOMAIN EdgeRows(cRows, mRows)
  <1> DEFINE slots == SlotsOf(cRows, mRows)
             found(s) == SlotResult(cRows, mRows, s).mentions
             edges == UNION { { << s[1], s[2], m >> : m \in found(s) } : s \in slots }
             rows == EdgeRows(cRows, mRows)
  <1>1. rows = [e \in edges |-> SlotResult(cRows, mRows, << e[1], e[2] >>).outcome]
    BY DEF EdgeRows
  <1>2. DOMAIN rows = edges
        /\ \A e \in edges : rows[e] = SlotResult(cRows, mRows, << e[1], e[2] >>).outcome
    <2> HIDE DEF edges, rows
    <2> QED BY <1>1
  <1>3. ASSUME NEW e \in edges
        PROVE  /\ e = << e[1], e[2], e[3] >>
               /\ << e[1], e[2] >> \in slots
               /\ e[3] \in found(<< e[1], e[2] >>)
    <2>1. PICK s \in slots : e \in { << s[1], s[2], m >> : m \in found(s) }
      OBVIOUS
    <2>2. PICK m \in found(s) : e = << s[1], s[2], m >>
      BY <2>1
    <2>3. s = << s[1], s[2] >>
      BY SlotFacts
    <2> HIDE DEF slots, found
    <2> QED BY <2>2, <2>3
  <1>4. ASSUME NEW s \in slots, NEW m \in found(s)
        PROVE  << s[1], s[2], m >> \in edges
    OBVIOUS
  <1> HIDE DEF edges
  <1> QED BY <1>2, <1>3, <1>4

\* What an edge row says of its claim, its mention and their texts.
LEMMA EdgeRowsFacts ==
    ASSUME NEW cRows, NEW mRows, RowsOK(cRows, mRows), NEW e \in DOMAIN EdgeRows(cRows, mRows)
    PROVE  /\ e \in ClaimIds \X Roles \X MentionIds
           /\ e[1] \in DOMAIN cRows /\ e[2] \in Roles /\ e[3] \in DOMAIN mRows
           /\ mRows[e[3]].chunks \cap cRows[e[1]].chunks # {}
           /\ cRows[e[1]].slots[e[2]] \in Texts
           /\ EdgeRows(cRows, mRows)[e] \in Methods
           /\ Justifies(EdgeRows(cRows, mRows)[e], cRows[e[1]].slots[e[2]], mRows[e[3]].name)
  <1> DEFINE s == << e[1], e[2] >>
             text == cRows[e[1]].slots[e[2]]
             names == NamesFor(cRows[e[1]], mRows)
  <1>1. /\ e = << e[1], e[2], e[3] >>
        /\ s \in SlotsOf(cRows, mRows)
        /\ e[3] \in SlotResult(cRows, mRows, s).mentions
        /\ EdgeRows(cRows, mRows)[e] = SlotResult(cRows, mRows, s).outcome
    BY EdgeRowsDomain
  <1>2. e[1] \in DOMAIN cRows /\ e[1] \in ClaimIds /\ e[2] \in Roles
        /\ text \in Texts /\ IsFiniteSet(DOMAIN names)
    BY <1>1, SlotFacts
  <1>3. SlotResult(cRows, mRows, s) = MatchSlot(text, names)
    BY DEF SlotResult
  <1>4. e[3] \in DOMAIN names /\ EdgeRows(cRows, mRows)[e] \in Methods
        /\ Justifies(EdgeRows(cRows, mRows)[e], text, names[e[3]])
    <2> HIDE DEF text, names, s
    <2> QED BY <1>1, <1>2, <1>3, MatchSlotFacts
  <1>5. /\ e[3] \in DOMAIN mRows /\ e[3] \in MentionIds
        /\ names[e[3]] = mRows[e[3]].name
        /\ mRows[e[3]].chunks \cap cRows[e[1]].chunks # {}
    BY <1>2, <1>4, CandidateFacts
  <1> QED BY <1>1, <1>2, <1>4, <1>5

\* Triples over finite sets are finitely many.
LEMMA TriplesFinite ==
    ASSUME NEW A, NEW B, NEW C, IsFiniteSet(A), IsFiniteSet(B), IsFiniteSet(C)
    PROVE  IsFiniteSet(A \X B \X C)
  <1> DEFINE S == (A \X B) \X C
             T == A \X B \X C
             f == [p \in S |-> << p[1][1], p[1][2], p[2] >>]
  <1>1. IsFiniteSet(S)
    BY FS_Product
  <1>2. \A p \in S : f[p] \in T
    OBVIOUS
  <1>3. ASSUME NEW t \in T
        PROVE  \E p \in S : f[p] = t
    <2>1. << << t[1], t[2] >>, t[3] >> \in S /\ t = << t[1], t[2], t[3] >>
      OBVIOUS
    <2> QED BY <2>1
  <1>4. f \in [S -> T]
    BY <1>2
  <1>5. f \in Surjection(S, T)
    <2> HIDE DEF f, S, T
    <2> QED BY <1>3, <1>4 DEF Surjection
  <1> QED BY <1>1, <1>5, FS_Surjection

\* Edges, claims and mentions can be counted.
LEMMA EdgeRowsFinite ==
    ASSUME NEW cRows, NEW mRows, RowsOK(cRows, mRows)
    PROVE  /\ IsFiniteSet(DOMAIN EdgeRows(cRows, mRows))
           /\ EdgeCount(cRows, mRows) \in Nat
           /\ IsFiniteSet(DOMAIN cRows) /\ Cardinality(DOMAIN cRows) \in Nat
           /\ IsFiniteSet(DOMAIN mRows) /\ Cardinality(DOMAIN mRows) \in Nat
           /\ IsFiniteSet(SlotsOf(cRows, mRows))
  <1>1. IsFiniteSet(Roles)
    <2>1. IsFiniteSet({"subject"} \cup {"object"})
      BY FS_Singleton, FS_AddElement
    <2>2. Roles = {"subject"} \cup {"object"}
      BY DEF Roles
    <2> QED BY <2>1, <2>2
  <1>2. IsFiniteSet(ClaimIds \X Roles \X MentionIds)
    BY <1>1, NodesAssumption, TriplesFinite
  <1>3. DOMAIN EdgeRows(cRows, mRows) \subseteq ClaimIds \X Roles \X MentionIds
    BY EdgeRowsFacts
  <1>4. /\ IsFiniteSet(DOMAIN EdgeRows(cRows, mRows))
        /\ Cardinality(DOMAIN EdgeRows(cRows, mRows)) \in Nat
    BY <1>2, <1>3, FS_Subset, FS_CardinalityType
  <1>5. DOMAIN cRows \subseteq ClaimIds /\ DOMAIN mRows \subseteq MentionIds
    BY DEF RowsOK, Partial
  <1>6. IsFiniteSet(DOMAIN cRows) /\ IsFiniteSet(DOMAIN mRows)
    BY <1>5, NodesAssumption, FS_Subset
  <1>7. IsFiniteSet((DOMAIN cRows) \X Roles)
    BY <1>1, <1>6, FS_Product
  <1>8. SlotsOf(cRows, mRows) \subseteq (DOMAIN cRows) \X Roles
    BY DEF SlotsOf
  <1>9. IsFiniteSet(SlotsOf(cRows, mRows))
    BY <1>7, <1>8, FS_Subset
  <1> QED BY <1>4, <1>6, <1>9, FS_CardinalityType DEF EdgeCount

\* Claims without chunks lead to no edges.
LEMMA NoClaimsNoEdges ==
    ASSUME NEW cRows, NEW mRows, RowsOK(cRows, mRows),
           \A i \in DOMAIN cRows : cRows[i].chunks = {}
    PROVE  DOMAIN EdgeRows(cRows, mRows) = {}
  <1> SUFFICES ASSUME NEW e \in DOMAIN EdgeRows(cRows, mRows)
               PROVE  FALSE
    OBVIOUS
  <1> QED BY EdgeRowsFacts

-----------------------------------------------------------------------------
(* The metrics add up.                                                     *)

\* Disjoint sets are counted one after the other.
LEMMA DisjointSum ==
    ASSUME NEW A, NEW B, IsFiniteSet(A), IsFiniteSet(B), A \cap B = {}
    PROVE  /\ IsFiniteSet(A \cup B)
           /\ Cardinality(A \cup B) = Cardinality(A) + Cardinality(B)
  <1>1. /\ IsFiniteSet(A \cup B)
        /\ Cardinality(A \cup B) = Cardinality(A) + Cardinality(B) - Cardinality(A \cap B)
    BY FS_Union
  <1>2. Cardinality(A \cap B) = 0 /\ Cardinality(A) \in Nat /\ Cardinality(B) \in Nat
    BY FS_EmptySet, FS_CardinalityType
  <1> QED BY <1>1, <1>2

\* The cardinality of a subset.
LEMMA SubsetCard ==
    ASSUME NEW S, IsFiniteSet(S), NEW T, T \subseteq S
    PROVE  /\ IsFiniteSet(T)
           /\ Cardinality(T) \in Nat /\ Cardinality(S) \in Nat
           /\ Cardinality(T) <= Cardinality(S)
  BY FS_Subset, FS_CardinalityType

\* The metrics of any rows add up: outcomes partition the slots, a claim with an edge
\* has an edge of its own, and an edge has a slot or a part of one.
LEMMA MetricsLemma ==
    ASSUME NEW cRows, NEW mRows, RowsOK(cRows, mRows)
    PROVE  MatchMetrics(cRows, mRows) \in Metrics /\ MetricsAddUp(MatchMetrics(cRows, mRows))
  <1> DEFINE slots      == SlotsOf(cRows, mRows)
             result(s)  == SlotResult(cRows, mRows, s)
             text(s)    == cRows[s[1]].slots[s[2]]
             names(s)   == NamesFor(cRows[s[1]], mRows)
             parts(s)   == MatchedParts(text(s), names(s))
             split      == { s \in slots : result(s).outcome \in {"unmatched", "list_split"} }
             several    == { s \in split : Len(Parts[text(s)]) >= 2 }
             exact      == { s \in slots : result(s).outcome \in Methods \ {"list_split"} }
             unmatched  == { s \in split : Cardinality(parts(s)) = 0 }
             ambiguous  == { s \in slots : result(s).outcome = "ambiguous" }
             full       == { s \in several : Cardinality(parts(s)) = Len(Parts[text(s)]) }
             partial    == { s \in several :
                                Cardinality(parts(s)) \in 1 .. Len(Parts[text(s)]) - 1 }
             none       == { s \in several : Cardinality(parts(s)) = 0 }
             pairs      == UNION { {s} \X parts(s) : s \in split }
             edges      == DOMAIN EdgeRows(cRows, mRows)
             with       == { e[1] : e \in edges }
             metrics    == MatchMetrics(cRows, mRows)
  <1>1. metrics =
          [claims |-> Cardinality(DOMAIN cRows), slots |-> Cardinality(slots),
           edges |-> Cardinality(edges), exact |-> Cardinality(exact),
           unmatched |-> Cardinality(unmatched), ambiguous |-> Cardinality(ambiguous),
           full |-> Cardinality(full), partial |-> Cardinality(partial),
           noSuccess |-> Cardinality(none), matchedParts |-> Cardinality(pairs),
           withEdge |-> Cardinality(with)]
    BY DEF MatchMetrics, EdgeCount
  <1>2. ASSUME NEW s \in slots
        PROVE  /\ Len(Parts[text(s)]) \in Nat \ {1}
               /\ Cardinality(parts(s)) \in 0 .. Len(Parts[text(s)])
               /\ IsFiniteSet(parts(s))
               /\ result(s).outcome \in Methods \cup {"ambiguous", "unmatched"}
               /\ result(s).outcome \in Exact =>
                    result(s).mentions = {} \/ \E m : result(s).mentions = {m}
               /\ result(s).outcome = "ambiguous" => result(s).mentions = {}
               /\ result(s).outcome \in {"unmatched", "list_split"} =>
                    \A m \in result(s).mentions :
                        \E k \in parts(s) : MatchText(Parts[text(s)][k], names(s)).mentions = {m}
    <2>1. text(s) \in Texts /\ IsFiniteSet(DOMAIN names(s))
      BY SlotFacts
    <2>2. result(s) = MatchSlot(text(s), names(s))
      BY DEF SlotResult
    <2>3. result(s).outcome \in Exact =>
            result(s).mentions = {} \/ \E m : result(s).mentions = {m}
      <3> HIDE DEF text, names, result
      <3> SUFFICES ASSUME result(s).outcome \in Exact
                   PROVE  \E m : result(s).mentions = {m}
        OBVIOUS
      <3>1. result(s) = MatchText(text(s), names(s))
        BY <2>1, <2>2, MatchSlotFacts
      <3> QED BY <2>1, <3>1, MatchTextFacts
    <2>4. ASSUME result(s).outcome \in {"unmatched", "list_split"}, NEW m \in result(s).mentions
          PROVE  \E k \in parts(s) : MatchText(Parts[text(s)][k], names(s)).mentions = {m}
      <3> HIDE DEF text, names
      <3>1. result(s).mentions = UNION { MatchText(Parts[text(s)][k], names(s)).mentions :
                                            k \in parts(s) }
        BY <2>1, <2>2, <2>4, MatchSlotFacts
      <3>2. PICK k \in parts(s) : m \in MatchText(Parts[text(s)][k], names(s)).mentions
        BY <2>4, <3>1
      <3>3. PICK x : MatchText(Parts[text(s)][k], names(s)).mentions = {x}
        BY <2>1, PartFacts
      <3> QED BY <3>2, <3>3
    <2> HIDE DEF text, names, result
    <2>5. /\ Len(Parts[text(s)]) \in Nat \ {1}
          /\ Cardinality(parts(s)) \in 0 .. Len(Parts[text(s)])
          /\ IsFiniteSet(parts(s))
      BY <2>1, TextsFacts, PartFacts
    <2>6. /\ result(s).outcome \in Methods \cup {"ambiguous", "unmatched"}
          /\ result(s).outcome = "ambiguous" => result(s).mentions = {}
      BY <2>1, <2>2, MatchSlotFacts
    <2> QED BY <2>3, <2>4, <2>5, <2>6
  <1>3. /\ IsFiniteSet(slots) /\ IsFiniteSet(edges) /\ IsFiniteSet(DOMAIN cRows)
        /\ Cardinality(DOMAIN cRows) \in Nat
    BY EdgeRowsFinite
  <1> HIDE DEF metrics, slots, result, text, names, parts, edges
  \* Subsets of the slots.
  <1>4. /\ split \subseteq slots /\ several \subseteq slots /\ exact \subseteq slots
        /\ unmatched \subseteq slots /\ ambiguous \subseteq slots /\ full \subseteq slots
        /\ partial \subseteq slots /\ none \subseteq slots
    OBVIOUS
  <1>5. /\ IsFiniteSet(split) /\ IsFiniteSet(several) /\ IsFiniteSet(exact)
        /\ IsFiniteSet(unmatched) /\ IsFiniteSet(ambiguous) /\ IsFiniteSet(full)
        /\ IsFiniteSet(partial) /\ IsFiniteSet(none)
    BY <1>3, <1>4, SubsetCard
  <1>6. Exact = Methods \ {"list_split"}
    BY DEF Exact, Methods
  <1>7. slots = exact \cup (ambiguous \cup (unmatched \cup (full \cup partial)))
    <2>1. ASSUME NEW s \in split
          PROVE  s \in unmatched \/ s \in full \/ s \in partial
      <3>1. CASE Cardinality(parts(s)) = 0  BY <3>1
      <3>2. CASE Cardinality(parts(s)) # 0
        <4>1. Len(Parts[text(s)]) >= 2 /\ Cardinality(parts(s)) \in 1 .. Len(Parts[text(s)])
          <5>1. /\ Len(Parts[text(s)]) \in Nat \ {1}
                /\ Cardinality(parts(s)) \in 0 .. Len(Parts[text(s)])
            BY <1>2, <1>4
          <5>2. \A n \in Nat \ {1} : \A k \in 0 .. n : k # 0 => n >= 2 /\ k \in 1 .. n
            OBVIOUS
          <5> HIDE DEF parts
          <5> QED BY <3>2, <5>1, <5>2
        <4>2. s \in several
          BY <4>1
        <4>3. CASE Cardinality(parts(s)) = Len(Parts[text(s)])  BY <4>2, <4>3
        <4>4. CASE Cardinality(parts(s)) # Len(Parts[text(s)])
          <5>1. Cardinality(parts(s)) \in 1 .. Len(Parts[text(s)]) - 1
            BY <1>2, <4>1, <4>4
          <5> QED BY <4>2, <5>1
        <4> QED BY <4>3, <4>4
      <3> QED BY <3>1, <3>2
    <2>2. ASSUME NEW s \in slots
          PROVE  s \in exact \/ s \in ambiguous \/ s \in split
      BY <1>2
    <2>3. slots \subseteq exact \cup (ambiguous \cup (unmatched \cup (full \cup partial)))
      <3> HIDE DEF exact, ambiguous, split, unmatched, full, partial
      <3> QED BY <2>1, <2>2
    <2> QED BY <1>4, <2>3
  <1>8. /\ full \cap partial = {} /\ unmatched \cap (full \cup partial) = {}
        /\ ambiguous \cap (unmatched \cup (full \cup partial)) = {}
        /\ exact \cap (ambiguous \cup (unmatched \cup (full \cup partial))) = {}
    <2>1. \A s \in slots : Cardinality(parts(s)) \in Nat /\ Len(Parts[text(s)]) \in Nat
      BY <1>2
    <2>2. \A s \in full \cup partial : Cardinality(parts(s)) # 0
      BY <1>4, <2>1
    <2>3. full \cap partial = {}
      BY <1>4, <2>1
    <2>4. unmatched \cap (full \cup partial) = {}
      BY <2>2
    <2>5. \A s \in unmatched \cup (full \cup partial) :
            result(s).outcome \in {"unmatched", "list_split"}
      OBVIOUS
    <2>6. \A s \in ambiguous : result(s).outcome = "ambiguous"
      OBVIOUS
    <2>7. \A s \in exact : result(s).outcome \notin {"ambiguous", "unmatched", "list_split"}
      BY DEF Methods
    <2> HIDE DEF exact, ambiguous, unmatched, full, partial
    <2> QED BY <2>3, <2>4, <2>5, <2>6, <2>7
  <1>9. Cardinality(slots) = Cardinality(exact) + Cardinality(ambiguous)
            + Cardinality(unmatched) + Cardinality(full) + Cardinality(partial)
    <2> HIDE DEF exact, ambiguous, unmatched, full, partial
    <2>1. /\ IsFiniteSet(full \cup partial)
          /\ Cardinality(full \cup partial) = Cardinality(full) + Cardinality(partial)
      BY <1>5, <1>8, DisjointSum
    <2>2. /\ IsFiniteSet(unmatched \cup (full \cup partial))
          /\ Cardinality(unmatched \cup (full \cup partial)) =
                Cardinality(unmatched) + Cardinality(full \cup partial)
      BY <1>5, <1>8, <2>1, DisjointSum
    <2>3. /\ IsFiniteSet(ambiguous \cup (unmatched \cup (full \cup partial)))
          /\ Cardinality(ambiguous \cup (unmatched \cup (full \cup partial))) =
                Cardinality(ambiguous) + Cardinality(unmatched \cup (full \cup partial))
      BY <1>5, <1>8, <2>2, DisjointSum
    <2>4. Cardinality(slots) = Cardinality(exact)
            + Cardinality(ambiguous \cup (unmatched \cup (full \cup partial)))
      BY <1>5, <1>7, <1>8, <2>3, DisjointSum
    <2>5. /\ Cardinality(exact) \in Nat /\ Cardinality(ambiguous) \in Nat
          /\ Cardinality(unmatched) \in Nat /\ Cardinality(full) \in Nat
          /\ Cardinality(partial) \in Nat
      BY <1>5, FS_CardinalityType
    <2> QED BY <2>1, <2>2, <2>3, <2>4, <2>5
  <1>10. IsFiniteSet(pairs)
    <2> DEFINE products == { {s} \X parts(s) : s \in split }
               f == [s \in split |-> {s} \X parts(s)]
    <2>1. f \in Surjection(split, products)
      BY DEF Surjection
    <2>2. IsFiniteSet(products)
      <3> HIDE DEF f, products
      <3> QED BY <1>5, <2>1, FS_Surjection
    <2>3. ASSUME NEW T \in products
          PROVE  IsFiniteSet(T)
      <3>1. PICK s \in split : T = {s} \X parts(s)
        OBVIOUS
      <3>2. IsFiniteSet({s}) /\ IsFiniteSet(parts(s))
        BY <1>2, FS_Singleton
      <3> QED BY <3>1, <3>2, FS_Product
    <2>4. pairs = UNION products
      OBVIOUS
    <2> HIDE DEF products, pairs
    <2> QED BY <2>2, <2>3, <2>4, FS_UNION
  \* Edges from a slot as a whole, and from its parts.
  <1> DEFINE whole == { e \in edges : << e[1], e[2] >> \in exact }
             apart == { e \in edges : << e[1], e[2] >> \in split }
  <1>11. \A e \in edges : /\ e = << e[1], e[2], e[3] >>
                          /\ << e[1], e[2] >> \in slots
                          /\ e[3] \in result(<< e[1], e[2] >>).mentions
                          /\ e[1] \in DOMAIN cRows
    <2>1. \A e \in edges : /\ e = << e[1], e[2], e[3] >>
                            /\ << e[1], e[2] >> \in slots
                            /\ e[3] \in result(<< e[1], e[2] >>).mentions
      <3>1. ASSUME NEW e \in DOMAIN EdgeRows(cRows, mRows)
            PROVE  /\ e = << e[1], e[2], e[3] >>
                   /\ << e[1], e[2] >> \in SlotsOf(cRows, mRows)
                   /\ e[3] \in SlotResult(cRows, mRows, << e[1], e[2] >>).mentions
        BY EdgeRowsDomain
      <3> QED BY <3>1 DEF edges, slots, result
    <2>2. \A e \in edges : e[1] \in DOMAIN cRows
      BY EdgeRowsFacts DEF edges
    <2> HIDE DEF edges, slots, result
    <2> QED BY <2>1, <2>2
  <1>12. edges = whole \cup apart
    <2>1. \A s \in slots : s \in exact \/ s \in split \/ result(s).mentions = {}
      BY <1>2, <1>6
    <2> HIDE DEF exact, split
    <2> QED BY <1>11, <2>1
  <1>13. Cardinality(whole) <= Cardinality(exact)
    <2> DEFINE f == [e \in whole |-> << e[1], e[2] >>]
    <2>1. f \in [whole -> exact]
      OBVIOUS
    <2>2. ASSUME NEW d \in whole, NEW e \in whole, f[d] = f[e]
          PROVE  d = e
      <3>1. d[1] = e[1] /\ d[2] = e[2]
        BY <2>2
      <3>2. PICK m : result(<< e[1], e[2] >>).mentions = {m}
        BY <1>2, <1>6, <1>11
      <3> QED BY <1>11, <3>1, <3>2
    <2>3. f \in Injection(whole, exact)
      <3> HIDE DEF f, whole, exact
      <3> QED BY <2>1, <2>2 DEF Injection, IsInjective
    <2> QED BY <1>5, <2>3, FS_Injection
  <1>14. Cardinality(apart) <= Cardinality(pairs)
    <2> DEFINE matches(s, k) == MatchText(Parts[text(s)][k], names(s)).mentions
               part(e) == CHOOSE k \in parts(<< e[1], e[2] >>) : matches(<< e[1], e[2] >>, k) = {e[3]}
               f == [e \in apart |-> << << e[1], e[2] >>, part(e) >>]
    <2>1. ASSUME NEW e \in apart
          PROVE  /\ part(e) \in parts(<< e[1], e[2] >>)
                 /\ matches(<< e[1], e[2] >>, part(e)) = {e[3]}
      <3>1. << e[1], e[2] >> \in split
        OBVIOUS
      <3>2. \E k \in parts(<< e[1], e[2] >>) : matches(<< e[1], e[2] >>, k) = {e[3]}
        BY <1>2, <1>4, <1>11, <3>1
      <3> HIDE DEF matches
      <3> QED BY <3>2
    <2> HIDE DEF part
    <2>2. ASSUME NEW e \in apart
          PROVE  f[e] \in pairs
      <3>1. << e[1], e[2] >> \in split
        OBVIOUS
      <3>2. f[e] = << << e[1], e[2] >>, part(e) >>
        OBVIOUS
      <3>3. f[e] \in { << e[1], e[2] >> } \X parts(<< e[1], e[2] >>)
        BY <2>1, <3>2
      <3> HIDE DEF f, split
      <3> QED BY <3>1, <3>3
    <2>3. ASSUME NEW d \in apart, NEW e \in apart, f[d] = f[e]
          PROVE  d = e
      <3>1. d[1] = e[1] /\ d[2] = e[2] /\ part(d) = part(e)
        BY <2>3
      <3>2. matches(<< e[1], e[2] >>, part(e)) = {e[3]}
            /\ matches(<< d[1], d[2] >>, part(d)) = {d[3]}
        BY <2>1
      <3> HIDE DEF matches
      <3>3. d[3] = e[3]
        BY <3>1, <3>2
      <3> QED BY <1>11, <3>1, <3>3
    <2>4. f \in Injection(apart, pairs)
      <3>1. DOMAIN f = apart /\ f = [e \in apart |-> f[e]]
        OBVIOUS
      <3> HIDE DEF f, apart, pairs
      <3>2. f \in [apart -> pairs]
        BY <2>2, <3>1
      <3> QED BY <2>3, <3>2 DEF Injection, IsInjective
    <2> QED BY <1>10, <2>4, FS_Injection
  <1>15. Cardinality(edges) <= Cardinality(exact) + Cardinality(pairs)
    <2>1. IsFiniteSet(whole) /\ IsFiniteSet(apart)
      BY <1>3, SubsetCard
    <2> HIDE DEF whole, apart, exact, pairs
    <2>2. Cardinality(edges) = Cardinality(whole) + Cardinality(apart) - Cardinality(whole \cap apart)
      BY <1>12, <2>1, FS_Union
    <2>3. /\ Cardinality(whole) \in Nat /\ Cardinality(apart) \in Nat
          /\ Cardinality(exact) \in Nat /\ Cardinality(pairs) \in Nat
          /\ Cardinality(whole \cap apart) \in Nat
      BY <1>5, <1>10, <2>1, FS_CardinalityType, FS_Intersection
    <2> QED BY <1>13, <1>14, <2>2, <2>3
  <1>16. /\ Cardinality(with) <= Cardinality(edges)
         /\ Cardinality(with) <= Cardinality(DOMAIN cRows)
         /\ Cardinality(with) \in Nat
    <2> DEFINE f == [e \in edges |-> e[1]]
    <2>1. f \in Surjection(edges, with)
      BY DEF Surjection
    <2>2. Cardinality(with) <= Cardinality(edges)
      <3> HIDE DEF f, with
      <3> QED BY <1>3, <2>1, FS_Surjection
    <2>3. with \subseteq DOMAIN cRows
      BY <1>11
    <2> HIDE DEF with
    <2> QED BY <1>3, <2>2, <2>3, SubsetCard
  <1>17. Cardinality(none) <= Cardinality(unmatched)
    <2>1. none \subseteq unmatched
      OBVIOUS
    <2> QED BY <1>5, <2>1, SubsetCard
  <1>18. /\ Cardinality(slots) \in Nat /\ Cardinality(edges) \in Nat /\ Cardinality(exact) \in Nat
         /\ Cardinality(unmatched) \in Nat /\ Cardinality(ambiguous) \in Nat
         /\ Cardinality(full) \in Nat /\ Cardinality(partial) \in Nat
         /\ Cardinality(none) \in Nat /\ Cardinality(pairs) \in Nat
    BY <1>3, <1>5, <1>10, FS_CardinalityType
  <1> HIDE DEF split, several, exact, unmatched, ambiguous, full, partial, none, pairs, with
  <1>19. metrics \in Metrics
    BY <1>1, <1>3, <1>16, <1>18 DEF Metrics
  <1>20. MetricsAddUp(metrics)
    BY <1>1, <1>9, <1>15, <1>16, <1>17, <1>18 DEF MetricsAddUp
  <1> QED BY <1>19, <1>20 DEF metrics

-----------------------------------------------------------------------------
(* Types.                                                                  *)

\* The empty rows.
LEMMA NoRowsFacts ==
    /\ DOMAIN NoRows = {} /\ IsFunction(NoRows)
    /\ \A D, T : Partial(NoRows, D, T)
  BY DEF NoRows, IsFunction, Partial

\* Merging keeps keys, and the second argument wins.
LEMMA MergeFacts ==
    ASSUME NEW f, NEW g
    PROVE  /\ DOMAIN Merge(f, g) = (DOMAIN f) \cup (DOMAIN g)
           /\ \A x \in DOMAIN g : Merge(f, g)[x] = g[x]
           /\ \A x \in (DOMAIN f) \ (DOMAIN g) : Merge(f, g)[x] = f[x]
           /\ IsFunction(Merge(f, g))
  BY DEF Merge, IsFunction

\* Merging keeps types.
LEMMA MergePartial ==
    ASSUME NEW f, NEW g, NEW D, NEW T, Partial(f, D, T), Partial(g, D, T)
    PROVE  Partial(Merge(f, g), D, T)
  BY DEF Merge, Partial

\* An edge in the graph has its row's run at both ends.
LEMMA KeyFacts ==
    ASSUME NEW run, NEW e
    PROVE  /\ Key(run, e)[1] = << run, e[1] >> /\ Key(run, e)[2] = e[2]
           /\ Key(run, e)[3] = << run, e[3] >>
           /\ Key(run, e)[1][1] = run /\ Key(run, e)[1][2] = e[1]
           /\ Key(run, e)[3][1] = run /\ Key(run, e)[3][2] = e[3]
  BY DEF Key

\* Edges are written for the rows whose ends exist; other edges keep their method.
LEMMA EdgesWrittenFacts ==
    ASSUME NEW run, NEW rows, NEW claimNodes, NEW mentionNodes,
           DOMAIN rows \subseteq ClaimIds \X Roles \X MentionIds
    PROVE  LET there == { e \in DOMAIN rows : /\ << run, e[1] >> \in claimNodes
                                              /\ << run, e[3] >> \in mentionNodes }
               after == EdgesWritten(run, rows, claimNodes, mentionNodes)
           IN  /\ \A k : k \in DOMAIN after <=>
                    k \in DOMAIN participant \/ \E e \in there : k = Key(run, e)
               /\ \A e \in there : after[Key(run, e)] = rows[e]
               /\ \A k \in DOMAIN participant :
                    (\A e \in there : k # Key(run, e)) => after[k] = participant[k]
               /\ IsFunction(after)
  <1> DEFINE there == { e \in DOMAIN rows : /\ << run, e[1] >> \in claimNodes
                                            /\ << run, e[3] >> \in mentionNodes }
             after == EdgesWritten(run, rows, claimNodes, mentionNodes)
             keys == { Key(run, e) : e \in there }
             new == [k \in keys |-> rows[<< k[1][2], k[2], k[3][2] >>]]
  <1>1. after = Merge(participant, new)
    BY DEF EdgesWritten, Key
  <1>2. DOMAIN new = keys
    OBVIOUS
  <1>3. ASSUME NEW e \in there
        PROVE  new[Key(run, e)] = rows[e]
    <2>1. e = << e[1], e[2], e[3] >>
      OBVIOUS
    <2>2. Key(run, e) \in keys
      OBVIOUS
    <2>3. new[Key(run, e)] = rows[<< Key(run, e)[1][2], Key(run, e)[2], Key(run, e)[3][2] >>]
      BY <2>2
    <2>4. << Key(run, e)[1][2], Key(run, e)[2], Key(run, e)[3][2] >> = << e[1], e[2], e[3] >>
      BY KeyFacts
    <2> HIDE DEF new
    <2> QED BY <2>1, <2>3, <2>4
  <1>4. \A e \in there : Key(run, e) \in keys
    OBVIOUS
  <1>5. \A k : k \in keys <=> \E e \in there : k = Key(run, e)
    OBVIOUS
  <1> HIDE DEF new, after, keys
  <1>6. /\ DOMAIN after = (DOMAIN participant) \cup keys
        /\ \A k \in keys : after[k] = new[k]
        /\ \A k \in (DOMAIN participant) \ keys : after[k] = participant[k]
        /\ IsFunction(after)
    BY <1>1, <1>2, MergeFacts
  <1>7. \A e \in there : after[Key(run, e)] = rows[e]
    BY <1>3, <1>4, <1>6
  <1> HIDE DEF there
  <1> QED BY <1>5, <1>6, <1>7 DEF after, there

TypeInv == TypeOK /\ ShapesOK

\* A task has a stage and a run.
LEMMA TaskFacts ==
    /\ NoTask \in Task
    /\ \A t \in Task : t.stage \in Stages /\ t.run \in Runs
  <1>1. \A t \in Task : t.stage \in Stages /\ t.run \in Runs
    BY DEF Task
  <1>2. PICK run : run \in Runs
    BY NodesAssumption
  <1>3. [stage |-> "extraction", run |-> run] \in Task
    BY <1>2 DEF Task, Stages
  <1>4. \E t \in Task : TRUE
    BY <1>3
  <1> QED BY <1>1, <1>4 DEF NoTask

\* What TypeInv says of one job.
LEMMA JobTypes ==
    ASSUME TypeInv, NEW j \in Jobs
    PROVE  /\ pc[j] \in Steps /\ task[j].stage \in Stages /\ RunOf(j) \in Runs
           /\ RowsOK(claimRows[j], mentionRows[j])
           /\ Partial(edgeRows[j], ClaimIds \X Roles \X MentionIds, Methods)
           /\ IsFunction(claimRows[j]) /\ IsFunction(mentionRows[j])
  <1>1. pc[j] \in Steps /\ task[j] \in Task
    BY DEF TypeInv, TypeOK
  <1>2. task[j].stage \in Stages /\ RunOf(j) \in Runs
    BY <1>1, TaskFacts DEF RunOf
  <1>3. /\ Partial(claimRows[j], ClaimIds, ClaimRow)
        /\ Partial(mentionRows[j], MentionIds, MentionRow)
        /\ Partial(edgeRows[j], ClaimIds \X Roles \X MentionIds, Methods)
    BY DEF TypeInv, TypeOK
  <1>4. IsFunction(claimRows[j]) /\ IsFunction(mentionRows[j])
    BY DEF TypeInv, ShapesOK
  <1> QED BY <1>1, <1>2, <1>3, <1>4 DEF RowsOK

\* The part of the invariant about jobs, files and bounds.
JobsOK ==
    /\ pc \in [Jobs -> Steps] /\ task \in [Jobs -> Task]
    /\ DOMAIN claimRows = Jobs /\ DOMAIN mentionRows = Jobs /\ DOMAIN edgeRows = Jobs
    /\ IsFunction(claimRows) /\ IsFunction(mentionRows) /\ IsFunction(edgeRows)
    /\ \A j \in Jobs :
        /\ RowsOK(claimRows[j], mentionRows[j])
        /\ Partial(edgeRows[j], ClaimIds \X Roles \X MentionIds, Methods)
        /\ IsFunction(claimRows[j]) /\ IsFunction(mentionRows[j])
    /\ disturbed \subseteq Jobs
FilesOK ==
    /\ Partial(summary, Stages \X Runs, Summary)
    /\ Partial(metricsFile, Runs, Metrics)
    /\ used \in [starts : Nat, dryRuns : Nat, resets : Nat, crashes : Nat]
GraphOK ==
    /\ chunks \subseteq Runs \X Chunks
    /\ Partial(claims, ClaimNodes, [Roles -> Texts \cup {NoText}])
    /\ Partial(mentions, MentionNodes, Texts)
    /\ supportedBy \subseteq (DOMAIN claims) \X Chunks
    /\ mentionedIn \subseteq (DOMAIN mentions) \X Chunks
    /\ Partial(participant, (DOMAIN claims) \X Roles \X (DOMAIN mentions), Methods)
    /\ IsFunction(participant)
    /\ written \in [Runs -> Nat]
    /\ rewritten \subseteq (DOMAIN claims) \cup (DOMAIN mentions)

\* Type correctness in three parts.
LEMMA TypeParts == TypeInv <=> JobsOK /\ FilesOK /\ GraphOK
  BY DEF TypeInv, TypeOK, ShapesOK, JobsOK, FilesOK, GraphOK, RowsOK
\* The same in the next state.
LEMMA TypePartsNext == TypeInv' <=> JobsOK' /\ FilesOK' /\ GraphOK'
  BY DEF TypeInv, TypeOK, ShapesOK, JobsOK, FilesOK, GraphOK, RowsOK

\* Edge rows have the type of edge rows.
LEMMA EdgeRowsType ==
    ASSUME NEW cRows, NEW mRows, RowsOK(cRows, mRows)
    PROVE  Partial(EdgeRows(cRows, mRows), ClaimIds \X Roles \X MentionIds, Methods)
  BY EdgeRowsFacts DEF Partial

\* A job that ends or raises forgets its rows.
LEMMA ForgetTypes ==
    ASSUME JobsOK, NEW j \in Jobs, Forget(j)
    PROVE  JobsOK'
  <1>1. pc' \in [Jobs -> Steps] /\ task' \in [Jobs -> Task]
    BY TaskFacts DEF JobsOK, Forget, Goto, Steps
  <1>2. /\ DOMAIN claimRows' = Jobs /\ DOMAIN mentionRows' = Jobs /\ DOMAIN edgeRows' = Jobs
        /\ IsFunction(claimRows)' /\ IsFunction(mentionRows)' /\ IsFunction(edgeRows)'
        /\ disturbed' \subseteq Jobs
    BY DEF IsFunction, JobsOK, Forget
  <1>3. ASSUME NEW k \in Jobs
        PROVE  /\ claimRows'[k] \in {NoRows, claimRows[k]}
               /\ mentionRows'[k] \in {NoRows, mentionRows[k]}
               /\ edgeRows'[k] \in {NoRows, edgeRows[k]}
    BY DEF JobsOK, Forget
  <1>4. ASSUME NEW k \in Jobs
        PROVE  /\ RowsOK(claimRows[k], mentionRows[k])'
               /\ Partial(edgeRows[k], ClaimIds \X Roles \X MentionIds, Methods)'
               /\ IsFunction(claimRows[k])' /\ IsFunction(mentionRows[k])'
    BY <1>3, NoRowsFacts DEF JobsOK, RowsOK
  <1> QED BY <1>1, <1>2, <1>4 DEF JobsOK

\* Prepared rows keep only chunks that were read.
LEMMA PreparedTypes ==
    ASSUME NEW rows, NEW read, NEW D
    PROVE  /\ Partial(rows, D, ClaimRow) => Partial(Prepared(rows, read), D, ClaimRow)
           /\ Partial(rows, D, MentionRow) => Partial(Prepared(rows, read), D, MentionRow)
           /\ IsFunction(Prepared(rows, read))
           /\ DOMAIN Prepared(rows, read) = DOMAIN rows
  <1>1. IsFunction(Prepared(rows, read)) /\ DOMAIN Prepared(rows, read) = DOMAIN rows
    BY DEF Prepared, IsFunction
  <1>2. \A row \in ClaimRow : [row EXCEPT !.chunks = @ \cap read] \in ClaimRow
    BY DEF ClaimRow
  <1>3. \A row \in MentionRow : [row EXCEPT !.chunks = @ \cap read] \in MentionRow
    BY DEF MentionRow
  <1>4. \A i \in DOMAIN rows : Prepared(rows, read)[i] = [rows[i] EXCEPT !.chunks = @ \cap read]
    BY DEF Prepared
  <1> QED BY <1>1, <1>2, <1>3, <1>4 DEF Partial

\* Exchanging the rows of one job.
LEMMA RowsTypes ==
    ASSUME JobsOK, NEW j \in Jobs, NEW step \in Steps, Goto(j, step),
           NEW cRows, NEW mRows, NEW eRows, RowsOK(cRows, mRows),
           Partial(eRows, ClaimIds \X Roles \X MentionIds, Methods),
           IsFunction(cRows), IsFunction(mRows),
           claimRows' = [claimRows EXCEPT ![j] = cRows],
           mentionRows' = [mentionRows EXCEPT ![j] = mRows],
           edgeRows' = [edgeRows EXCEPT ![j] = eRows],
           UNCHANGED << task, disturbed >>
    PROVE  JobsOK'
  <1>1. pc' \in [Jobs -> Steps] /\ task' \in [Jobs -> Task]
    BY DEF JobsOK, Goto
  <1>2. /\ DOMAIN claimRows' = Jobs /\ DOMAIN mentionRows' = Jobs /\ DOMAIN edgeRows' = Jobs
        /\ IsFunction(claimRows)' /\ IsFunction(mentionRows)' /\ IsFunction(edgeRows)'
        /\ disturbed' \subseteq Jobs
    BY DEF IsFunction, JobsOK
  <1>3. ASSUME NEW k \in Jobs
        PROVE  /\ RowsOK(claimRows[k], mentionRows[k])'
               /\ Partial(edgeRows[k], ClaimIds \X Roles \X MentionIds, Methods)'
               /\ IsFunction(claimRows[k])' /\ IsFunction(mentionRows[k])'
    <2>1. CASE k = j
      <3>1. claimRows'[k] = cRows /\ mentionRows'[k] = mRows /\ edgeRows'[k] = eRows
        BY <2>1 DEF JobsOK
      <3> QED BY <3>1 DEF RowsOK
    <2>2. CASE k # j
      <3>1. /\ claimRows'[k] = claimRows[k] /\ mentionRows'[k] = mentionRows[k]
            /\ edgeRows'[k] = edgeRows[k]
        BY <2>2 DEF JobsOK
      <3> QED BY <3>1 DEF JobsOK, RowsOK
    <2> QED BY <2>1, <2>2
  <1> QED BY <1>1, <1>2, <1>3 DEF JobsOK

Bounds == [starts : Nat, dryRuns : Nat, resets : Nat, crashes : Nat]

\* Counting a reset, start or crash.
LEMMA SpendTypes ==
    ASSUME used \in Bounds, NEW what \in {"starts", "dryRuns", "resets", "crashes"}, Spend(what)
    PROVE  /\ used' \in Bounds
           /\ what # "resets" => used'.resets = used.resets
           /\ what = "resets" => used'.resets > 0
  <1>1. CASE what = "starts"
    BY <1>1 DEF Bounds, Spend
  <1>2. CASE what = "dryRuns"
    BY <1>2 DEF Bounds, Spend
  <1>3. CASE what = "resets"
    BY <1>3 DEF Bounds, Spend
  <1>4. CASE what = "crashes"
    BY <1>4 DEF Bounds, Spend
  <1> QED BY <1>1, <1>2, <1>3, <1>4

\* The graph after an extraction was written.
LEMMA ClaimsWrittenFacts ==
    ASSUME GraphOK, NEW run \in Runs, NEW rows, Partial(rows, ClaimIds, ClaimRow)
    PROVE  LET after == ClaimsWritten(run, rows) IN
           /\ Partial(after, ClaimNodes, [Roles -> Texts \cup {NoText}])
           /\ \A n : n \in DOMAIN after <=>
                n \in DOMAIN claims \/ \E i \in DOMAIN rows : n = << run, i >>
           /\ \A i \in DOMAIN rows : after[<< run, i >>] = NewSlots(<< run, i >>, rows[i])
           /\ \A n \in DOMAIN claims :
                (\A i \in DOMAIN rows : n # << run, i >>) => after[n] = claims[n]
  <1> DEFINE new == [n \in {run} \X DOMAIN rows |-> NewSlots(n, rows[n[2]])]
  <1>1. ClaimsWritten(run, rows) = Merge(claims, new)
    BY DEF ClaimsWritten
  <1>2. ASSUME NEW i \in DOMAIN rows
        PROVE  /\ NewSlots(<< run, i >>, rows[i]) \in [Roles -> Texts \cup {NoText}]
               /\ << run, i >> \in ClaimNodes
    <2>1. rows[i] \in ClaimRow /\ i \in ClaimIds
      BY DEF Partial
    <2>2. rows[i].slots \in [Roles -> Texts \cup {NoText}]
      BY <2>1, RowFacts
    <2>3. << run, i >> \in DOMAIN claims => claims[<< run, i >>] \in [Roles -> Texts \cup {NoText}]
      BY DEF GraphOK, Partial
    <2> QED BY <2>1, <2>2, <2>3 DEF NewSlots, ClaimNodes
  <1>3. \A n \in {run} \X DOMAIN rows : \E i \in DOMAIN rows : n = << run, i >> /\ n[2] = i
    OBVIOUS
  <1>4. \A i \in DOMAIN rows : << run, i >> \in {run} \X DOMAIN rows
    OBVIOUS
  <1>5. DOMAIN new = {run} \X DOMAIN rows
    OBVIOUS
  <1>6. \A i \in DOMAIN rows : new[<< run, i >>] = NewSlots(<< run, i >>, rows[i])
    OBVIOUS
  <1> HIDE DEF new
  <1>7. Partial(new, ClaimNodes, [Roles -> Texts \cup {NoText}])
    BY <1>2, <1>3, <1>5, <1>6 DEF Partial
  <1>8. Partial(Merge(claims, new), ClaimNodes, [Roles -> Texts \cup {NoText}])
    BY <1>7, MergePartial DEF GraphOK
  <1>9. /\ DOMAIN Merge(claims, new) = (DOMAIN claims) \cup (DOMAIN new)
        /\ \A n \in DOMAIN new : Merge(claims, new)[n] = new[n]
        /\ \A n \in (DOMAIN claims) \ (DOMAIN new) : Merge(claims, new)[n] = claims[n]
    BY MergeFacts
  <1>10. \A n : n \in DOMAIN new <=> \E i \in DOMAIN rows : n = << run, i >>
    BY <1>3, <1>4, <1>5
  <1> QED BY <1>1, <1>6, <1>8, <1>9, <1>10

\* Writing mention rows adds their nodes and sets their names.
LEMMA MentionsWrittenFacts ==
    ASSUME GraphOK, NEW run \in Runs, NEW rows, Partial(rows, MentionIds, MentionRow)
    PROVE  LET after == MentionsWritten(run, rows) IN
           /\ Partial(after, MentionNodes, Texts)
           /\ \A n : n \in DOMAIN after <=>
                n \in DOMAIN mentions \/ \E i \in DOMAIN rows : n = << run, i >>
           /\ \A i \in DOMAIN rows : after[<< run, i >>] = rows[i].name
           /\ \A n \in DOMAIN mentions :
                (\A i \in DOMAIN rows : n # << run, i >>) => after[n] = mentions[n]
  <1> DEFINE new == [n \in {run} \X DOMAIN rows |-> rows[n[2]].name]
  <1>1. MentionsWritten(run, rows) = Merge(mentions, new)
    BY DEF MentionsWritten
  <1>2. ASSUME NEW i \in DOMAIN rows
        PROVE  rows[i].name \in Texts /\ << run, i >> \in MentionNodes
    <2>1. rows[i] \in MentionRow /\ i \in MentionIds
      BY DEF Partial
    <2> QED BY <2>1, RowFacts DEF MentionNodes
  <1>3. \A n \in {run} \X DOMAIN rows : \E i \in DOMAIN rows : n = << run, i >> /\ n[2] = i
    OBVIOUS
  <1>4. \A i \in DOMAIN rows : << run, i >> \in {run} \X DOMAIN rows
    OBVIOUS
  <1>5. DOMAIN new = {run} \X DOMAIN rows
    OBVIOUS
  <1>6. \A i \in DOMAIN rows : new[<< run, i >>] = rows[i].name
    OBVIOUS
  <1> HIDE DEF new
  <1>7. Partial(new, MentionNodes, Texts)
    BY <1>2, <1>3, <1>5, <1>6 DEF Partial
  <1>8. Partial(Merge(mentions, new), MentionNodes, Texts)
    BY <1>7, MergePartial DEF GraphOK
  <1>9. /\ DOMAIN Merge(mentions, new) = (DOMAIN mentions) \cup (DOMAIN new)
        /\ \A n \in DOMAIN new : Merge(mentions, new)[n] = new[n]
        /\ \A n \in (DOMAIN mentions) \ (DOMAIN new) : Merge(mentions, new)[n] = mentions[n]
    BY MergeFacts
  <1>10. \A n : n \in DOMAIN new <=> \E i \in DOMAIN rows : n = << run, i >>
    BY <1>3, <1>4, <1>5
  <1> QED BY <1>1, <1>6, <1>8, <1>9, <1>10

\* An edge to a chunk comes from a row with that chunk, if the chunk is there.
LEMMA LinkOf ==
    ASSUME NEW run, NEW rows, NEW l \in LinksOf(run, rows)
    PROVE  \E i \in DOMAIN rows : \E c \in rows[i].chunks :
                << run, c >> \in chunks /\ l = << << run, i >>, c >>
  <1> DEFINE there(i) == { c \in rows[i].chunks : << run, c >> \in chunks }
             links(i) == { << << run, i >>, c >> : c \in there(i) }
  <1>1. PICK i \in DOMAIN rows : l \in links(i)
    BY DEF LinksOf
  <1>2. PICK c \in there(i) : l = << << run, i >>, c >>
    BY <1>1
  <1> QED BY <1>2

\* Each chunk of a row that is there gets its edge.
LEMMA LinkWritten ==
    ASSUME NEW run, NEW rows, NEW i \in DOMAIN rows, NEW c \in rows[i].chunks,
           << run, c >> \in chunks
    PROVE  << << run, i >>, c >> \in LinksOf(run, rows)
  BY DEF LinksOf

\* Edges to chunks begin at nodes that are there.
LEMMA LinksType ==
    ASSUME NEW run, NEW rows, NEW nodes,
           \A i \in DOMAIN rows : << run, i >> \in nodes /\ rows[i].chunks \subseteq Chunks
    PROVE  LinksOf(run, rows) \subseteq nodes \X Chunks
  <1> SUFFICES ASSUME NEW l \in LinksOf(run, rows)
               PROVE  l \in nodes \X Chunks
    OBVIOUS
  <1>1. PICK i \in DOMAIN rows : \E c \in rows[i].chunks :
            << run, c >> \in chunks /\ l = << << run, i >>, c >>
    BY LinkOf
  <1> QED BY <1>1

\* Edges written for rows of the run lead from and to the nodes they are matched with.
LEMMA EdgesWrittenType ==
    ASSUME NEW run, NEW rows, NEW C, NEW M,
           Partial(participant, C \X Roles \X M, Methods),
           Partial(rows, ClaimIds \X Roles \X MentionIds, Methods)
    PROVE  Partial(EdgesWritten(run, rows, C, M), C \X Roles \X M, Methods)
           /\ IsFunction(EdgesWritten(run, rows, C, M))
  <1> DEFINE there == { e \in DOMAIN rows : << run, e[1] >> \in C /\ << run, e[3] >> \in M }
             after == EdgesWritten(run, rows, C, M)
  <1>1. /\ \A k : k \in DOMAIN after <=>
                k \in DOMAIN participant \/ \E e \in there : k = Key(run, e)
        /\ \A e \in there : after[Key(run, e)] = rows[e]
        /\ \A k \in DOMAIN participant :
                (\A e \in there : k # Key(run, e)) => after[k] = participant[k]
        /\ IsFunction(after)
    BY EdgesWrittenFacts DEF Partial
  <1>2. ASSUME NEW e \in there
        PROVE  Key(run, e) \in C \X Roles \X M /\ rows[e] \in Methods
    BY DEF Key, Partial
  <1> HIDE DEF there, after
  <1>3. DOMAIN after \subseteq C \X Roles \X M
    BY <1>1, <1>2 DEF Partial
  <1>4. ASSUME NEW k \in DOMAIN after
        PROVE  after[k] \in Methods
    <2>1. CASE \E e \in there : k = Key(run, e)
      BY <1>1, <1>2, <2>1
    <2>2. CASE ~ \E e \in there : k = Key(run, e)
      BY <1>1, <2>2 DEF Partial
    <2> QED BY <2>1, <2>2
  <1>5. Partial(after, C \X Roles \X M, Methods)
    BY <1>3, <1>4 DEF Partial
  <1> QED BY <1>1, <1>5 DEF after

\* The transaction of an extraction keeps types.
LEMMA WriteExtractionTypes ==
    ASSUME TypeInv, NEW j \in Jobs, WriteExtraction(j)
    PROVE  GraphOK'
  <1> DEFINE run == RunOf(j)
  <1>1. GraphOK /\ run \in Runs
    BY TypeParts, JobTypes
  <1>2. /\ Partial(claimRows[j], ClaimIds, ClaimRow)
        /\ Partial(mentionRows[j], MentionIds, MentionRow)
        /\ Partial(edgeRows[j], ClaimIds \X Roles \X MentionIds, Methods)
    BY JobTypes DEF RowsOK
  <1>3. /\ claims' = ClaimsWritten(run, claimRows[j])
        /\ mentions' = MentionsWritten(run, mentionRows[j])
        /\ supportedBy' = supportedBy \cup LinksOf(run, claimRows[j])
        /\ mentionedIn' = mentionedIn \cup LinksOf(run, mentionRows[j])
        /\ participant' = EdgesWritten(run, edgeRows[j], DOMAIN claims', DOMAIN mentions')
        /\ written' = [written EXCEPT ![run] = @ + 1]
        /\ chunks' = chunks
        /\ rewritten' = rewritten
             \cup { n \in DOMAIN claims : claims'[n] # claims[n] }
             \cup { n \in DOMAIN mentions : mentions'[n] # mentions[n] }
    BY DEF WriteExtraction
  <1> HIDE DEF run
  <1>4. /\ Partial(claims', ClaimNodes, [Roles -> Texts \cup {NoText}])
        /\ DOMAIN claims \subseteq DOMAIN claims'
        /\ \A i \in DOMAIN claimRows[j] : << run, i >> \in DOMAIN claims'
    BY <1>1, <1>2, <1>3, ClaimsWrittenFacts
  <1>5. /\ Partial(mentions', MentionNodes, Texts)
        /\ DOMAIN mentions \subseteq DOMAIN mentions'
        /\ \A i \in DOMAIN mentionRows[j] : << run, i >> \in DOMAIN mentions'
    BY <1>1, <1>2, <1>3, MentionsWrittenFacts
  <1>6. /\ \A i \in DOMAIN claimRows[j] : claimRows[j][i].chunks \subseteq Chunks
        /\ \A i \in DOMAIN mentionRows[j] : mentionRows[j][i].chunks \subseteq Chunks
    BY <1>2, RowFacts DEF Partial
  <1>7. supportedBy' \subseteq (DOMAIN claims') \X Chunks
    <2>1. LinksOf(run, claimRows[j]) \subseteq (DOMAIN claims') \X Chunks
      BY <1>4, <1>6, LinksType
    <2>2. supportedBy \subseteq (DOMAIN claims') \X Chunks
      BY <1>1, <1>4 DEF GraphOK
    <2> QED BY <1>3, <2>1, <2>2
  <1>8. mentionedIn' \subseteq (DOMAIN mentions') \X Chunks
    <2>1. LinksOf(run, mentionRows[j]) \subseteq (DOMAIN mentions') \X Chunks
      BY <1>5, <1>6, LinksType
    <2>2. mentionedIn \subseteq (DOMAIN mentions') \X Chunks
      BY <1>1, <1>5 DEF GraphOK
    <2> QED BY <1>3, <2>1, <2>2
  <1>9. /\ Partial(participant', (DOMAIN claims') \X Roles \X (DOMAIN mentions'), Methods)
        /\ IsFunction(participant')
    <2>1. Partial(participant, (DOMAIN claims') \X Roles \X (DOMAIN mentions'), Methods)
      BY <1>1, <1>4, <1>5 DEF GraphOK, Partial
    <2> QED BY <1>2, <1>3, <2>1, EdgesWrittenType
  <1>10. written' \in [Runs -> Nat]
    BY <1>1, <1>3 DEF GraphOK
  <1>11. rewritten' \subseteq (DOMAIN claims') \cup (DOMAIN mentions')
    BY <1>1, <1>3, <1>4, <1>5 DEF GraphOK
  <1> QED BY <1>1, <1>3, <1>4, <1>5, <1>7, <1>8, <1>9, <1>10, <1>11 DEF GraphOK

\* The write of participation keeps types.
LEMMA WriteEdgesTypes ==
    ASSUME TypeInv, NEW j \in Jobs, WriteEdges(j)
    PROVE  GraphOK'
  <1>1. GraphOK /\ Partial(edgeRows[j], ClaimIds \X Roles \X MentionIds, Methods)
    BY TypeParts, JobTypes
  <1>2. participant' = EdgesWritten(RunOf(j), edgeRows[j], DOMAIN claims, DOMAIN mentions)
    BY DEF WriteEdges
  <1>3. /\ Partial(participant', (DOMAIN claims) \X Roles \X (DOMAIN mentions), Methods)
        /\ IsFunction(participant')
    BY <1>1, <1>2, EdgesWrittenType DEF GraphOK
  <1> QED BY <1>1, <1>3 DEF GraphOK, WriteEdges, history

\* What a job reports is a summary.
LEMMA ReportedType ==
    ASSUME TypeInv, NEW j \in Jobs
    PROVE  Reported(j) \in Summary
  BY JobTypes, EdgeRowsFinite DEF Reported, Summary

\* Saving a summary keeps types.
LEMMA SaveSummaryTypes ==
    ASSUME TypeInv, NEW j \in Jobs, NEW report \in Summary, SaveSummary(j, report)
    PROVE  JobsOK' /\ FilesOK' /\ GraphOK'
  <1>1. JobsOK'
    BY TypeParts, ForgetTypes DEF SaveSummary
  <1>2. Partial(summary', Stages \X Runs, Summary)
    <2> DEFINE new == [k \in {<< task[j].stage, RunOf(j) >>} |-> report]
    <2>1. Partial(new, Stages \X Runs, Summary)
      BY JobTypes DEF Partial
    <2>2. summary' = Merge(summary, new)
      BY DEF SaveSummary
    <2> HIDE DEF new
    <2> QED BY <2>1, <2>2, MergePartial, TypeParts DEF FilesOK
  <1>3. FilesOK'
    BY <1>2, TypeParts DEF SaveSummary, FilesOK
  <1>4. GraphOK'
    BY TypeParts DEF SaveSummary, GraphOK, graphVars
  <1> QED BY <1>1, <1>3, <1>4

\* A job that starts, or goes on with the rows it has.
LEMMA GotoTypes ==
    ASSUME JobsOK, NEW j \in Jobs, NEW step \in Steps, Goto(j, step), UNCHANGED rowVars,
           task' \in [Jobs -> Task], disturbed' \subseteq Jobs
    PROVE  JobsOK'
  <1>1. pc' \in [Jobs -> Steps]
    BY DEF JobsOK, Goto
  <1> QED BY <1>1 DEF JobsOK, rowVars, RowsOK, IsFunction

\* Starting a job keeps types.
LEMMA StartTypes ==
    ASSUME TypeInv, NEW j \in Jobs, Start(j) \/ StartDry(j)
    PROVE  JobsOK' /\ FilesOK' /\ GraphOK'
  <1>1. task' \in [Jobs -> Task] /\ UNCHANGED << graphVars, rowVars, fileVars, history >>
    BY TypeParts DEF Start, StartDry, JobsOK
  <1>2. \E step \in Steps : Goto(j, step)
    BY DEF Start, StartDry, Steps
  <1>3. JobsOK'
    BY <1>1, <1>2, GotoTypes, TypeParts DEF JobsOK, history
  <1>4. \E what \in {"starts", "dryRuns", "resets", "crashes"} : Spend(what)
    BY DEF Start, StartDry
  <1>5. FilesOK'
    BY <1>1, <1>4, SpendTypes, TypeParts DEF FilesOK, fileVars, Bounds
  <1>6. GraphOK'
    BY <1>1, TypeParts DEF GraphOK, graphVars, history
  <1> QED BY <1>3, <1>5, <1>6

\* Raising and dying keep types.
LEMMA ForgetStepTypes ==
    ASSUME TypeInv, NEW j \in Jobs, ExtractRaises(j) \/ Crash(j)
    PROVE  JobsOK' /\ FilesOK' /\ GraphOK'
  <1>1. Forget(j) /\ UNCHANGED << graphVars, fileVars, written, rewritten >>
    BY DEF ExtractRaises, Crash
  <1>2. JobsOK'
    BY <1>1, ForgetTypes, TypeParts
  <1>3. UNCHANGED used \/ Spend("crashes")
    BY DEF ExtractRaises, Crash
  <1>4. used' \in Bounds
    BY <1>3, SpendTypes, TypeParts DEF FilesOK, Bounds
  <1> QED BY <1>1, <1>2, <1>4, TypeParts DEF FilesOK, GraphOK, graphVars, fileVars, Bounds

\* Preparing the model's answer keeps types.
LEMMA ExtractTypes ==
    ASSUME TypeInv, NEW j \in Jobs, Extract(j)
    PROVE  JobsOK'
  <1> DEFINE read == { c \in Chunks : << RunOf(j), c >> \in chunks }
  <1>1. PICK out \in Outputs :
            /\ claimRows' = [claimRows EXCEPT ![j] = Prepared(out.claims, read)]
            /\ mentionRows' = [mentionRows EXCEPT ![j] = Prepared(out.mentions, read)]
            /\ edgeRows' = [edgeRows EXCEPT ![j] =
                    EdgeRows(Prepared(out.claims, read), Prepared(out.mentions, read))]
    BY DEF Extract
  <1> DEFINE cRows == Prepared(out.claims, read)
             mRows == Prepared(out.mentions, read)
  <1> HIDE DEF read
  <1>2. RowsOK(cRows, mRows) /\ IsFunction(cRows) /\ IsFunction(mRows)
    BY OutputsAssumption, PreparedTypes DEF RowsOK
  <1>3. Partial(EdgeRows(cRows, mRows), ClaimIds \X Roles \X MentionIds, Methods)
    BY <1>2, EdgeRowsType
  <1>4. Goto(j, "writeExtraction") /\ UNCHANGED << task, disturbed >>
    BY DEF Extract, history
  <1> HIDE DEF cRows, mRows
  <1>5. "writeExtraction" \in Steps
    BY DEF Steps
  <1> QED BY <1>1, <1>2, <1>3, <1>4, <1>5, RowsTypes, TypeParts DEF cRows, mRows

\* What participation reads.
LEMMA GraphRowsTypes ==
    ASSUME GraphOK, NEW run \in Runs
    PROVE  RowsOK(GraphClaims(run), GraphMentions(run))
           /\ IsFunction(GraphClaims(run)) /\ IsFunction(GraphMentions(run))
  <1>1. ASSUME NEW i \in DOMAIN GraphClaims(run)
        PROVE  i \in ClaimIds /\ GraphClaims(run)[i] \in ClaimRow
    <2>1. i \in ClaimIds /\ << run, i >> \in DOMAIN claims
      BY DEF GraphClaims
    <2>2. claims[<< run, i >>] \in [Roles -> Texts \cup {NoText}]
      BY <2>1 DEF GraphOK, Partial
    <2>3. ChunksOf(supportedBy, << run, i >>) \subseteq Chunks
      BY DEF ChunksOf
    <2>4. GraphClaims(run)[i] = [slots |-> claims[<< run, i >>],
                                 chunks |-> ChunksOf(supportedBy, << run, i >>)]
      BY <2>1 DEF GraphClaims
    <2> QED BY <2>1, <2>2, <2>3, <2>4 DEF ClaimRow
  <1>2. ASSUME NEW i \in DOMAIN GraphMentions(run)
        PROVE  i \in MentionIds /\ GraphMentions(run)[i] \in MentionRow
    <2>1. i \in MentionIds /\ << run, i >> \in DOMAIN mentions
      BY DEF GraphMentions
    <2>2. mentions[<< run, i >>] \in Texts
      BY <2>1 DEF GraphOK, Partial
    <2>3. ChunksOf(mentionedIn, << run, i >>) \subseteq Chunks
      BY DEF ChunksOf
    <2>4. GraphMentions(run)[i] = [name |-> mentions[<< run, i >>],
                                   chunks |-> ChunksOf(mentionedIn, << run, i >>)]
      BY <2>1 DEF GraphMentions
    <2> QED BY <2>1, <2>2, <2>3, <2>4 DEF MentionRow
  <1>3. IsFunction(GraphClaims(run)) /\ IsFunction(GraphMentions(run))
    BY DEF GraphClaims, GraphMentions, IsFunction
  <1> QED BY <1>1, <1>2, <1>3 DEF RowsOK, Partial

\* The two queries answer with the rows of the graph.
LEMMA ReadClaimsFacts ==
    ASSUME NEW j \in Jobs, ReadClaims(j)
    PROVE  claimRows' = [claimRows EXCEPT ![j] = GraphClaims(RunOf(j))]
  BY DEF ReadClaims, GraphClaims

\* What participation has in memory when it has read the mentions.
LEMMA ReadMentionsFacts ==
    ASSUME NEW j \in Jobs, ReadMentions(j)
    PROVE  /\ mentionRows' = [mentionRows EXCEPT ![j] = GraphMentions(RunOf(j))]
           /\ edgeRows' = [edgeRows EXCEPT ![j] = EdgeRows(claimRows[j], GraphMentions(RunOf(j)))]
  BY DEF ReadMentions, GraphMentions

\* Both reads of participation keep types.
LEMMA ReadTypes ==
    ASSUME TypeInv, NEW j \in Jobs, ReadClaims(j) \/ ReadMentions(j)
    PROVE  JobsOK'
  <1>1. /\ JobsOK /\ GraphOK /\ RunOf(j) \in Runs /\ RowsOK(claimRows[j], mentionRows[j])
        /\ Partial(edgeRows[j], ClaimIds \X Roles \X MentionIds, Methods)
        /\ IsFunction(claimRows[j]) /\ IsFunction(mentionRows[j])
    BY TypeParts, JobTypes
  <1>2. /\ RowsOK(GraphClaims(RunOf(j)), GraphMentions(RunOf(j)))
        /\ IsFunction(GraphClaims(RunOf(j))) /\ IsFunction(GraphMentions(RunOf(j)))
    BY <1>1, GraphRowsTypes
  <1>3. UNCHANGED << task, disturbed >>
    BY DEF ReadClaims, ReadMentions, history
  <1>4. CASE ReadClaims(j)
    <2>1. RowsOK(GraphClaims(RunOf(j)), mentionRows[j])
      BY <1>1, <1>2 DEF RowsOK
    <2>2. mentionRows' = [mentionRows EXCEPT ![j] = mentionRows[j]]
          /\ edgeRows' = [edgeRows EXCEPT ![j] = edgeRows[j]]
      BY <1>1, <1>4 DEF ReadClaims, JobsOK, IsFunction
    <2>3. Goto(j, "readMentions") /\ "readMentions" \in Steps
      BY <1>4 DEF ReadClaims, Steps
    <2> QED BY <1>1, <1>2, <1>3, <1>4, <2>1, <2>2, <2>3, ReadClaimsFacts, RowsTypes
  <1>5. CASE ReadMentions(j)
    <2>1. RowsOK(claimRows[j], GraphMentions(RunOf(j)))
      BY <1>1, <1>2 DEF RowsOK
    <2>2. claimRows' = [claimRows EXCEPT ![j] = claimRows[j]]
      BY <1>1, <1>5 DEF ReadMentions, JobsOK, IsFunction
    <2>3. Goto(j, "writeEdges") /\ "writeEdges" \in Steps
      BY <1>5 DEF ReadMentions, Steps
    <2>4. Partial(EdgeRows(claimRows[j], GraphMentions(RunOf(j))),
                  ClaimIds \X Roles \X MentionIds, Methods)
      BY <2>1, EdgeRowsType
    <2> QED BY <1>1, <1>2, <1>3, <1>5, <2>1, <2>2, <2>3, <2>4, ReadMentionsFacts, RowsTypes
  <1> QED BY <1>4, <1>5

\* Saving the metrics keeps types.
LEMMA SaveMetricsTypes ==
    ASSUME TypeInv, NEW j \in Jobs, SaveMetrics(j)
    PROVE  JobsOK' /\ FilesOK' /\ GraphOK'
  <1>1. RunOf(j) \in Runs /\ RowsOK(claimRows[j], mentionRows[j])
    BY JobTypes
  <1>2. JobsOK'
    <2>1. Goto(j, "saveParticipation") /\ "saveParticipation" \in Steps
      BY DEF SaveMetrics, Steps
    <2>2. UNCHANGED << rowVars, task, disturbed >>
      BY DEF SaveMetrics, history
    <2> QED BY <2>1, <2>2, GotoTypes, TypeParts DEF JobsOK
  <1>3. Partial(metricsFile', Runs, Metrics)
    <2> DEFINE new == [r \in {RunOf(j)} |-> MatchMetrics(claimRows[j], mentionRows[j])]
    <2>1. MatchMetrics(claimRows[j], mentionRows[j]) \in Metrics
      BY <1>1, MetricsLemma
    <2>2. Partial(new, Runs, Metrics)
      BY <1>1, <2>1 DEF Partial
    <2>3. metricsFile' = Merge(metricsFile, new)
      BY DEF SaveMetrics
    <2> HIDE DEF new
    <2> QED BY <2>2, <2>3, MergePartial, TypeParts DEF FilesOK
  <1>4. FilesOK' /\ GraphOK'
    BY <1>3, TypeParts DEF SaveMetrics, FilesOK, GraphOK, graphVars, history
  <1> QED BY <1>2, <1>4

\* The initial state is type-correct.
LEMMA TypeInit == Init => TypeInv
  <1> SUFFICES ASSUME Init PROVE JobsOK /\ FilesOK /\ GraphOK
    BY TypeParts
  <1>1. JobsOK
    BY TaskFacts, NoRowsFacts DEF Init, JobsOK, RowsOK, Steps, IsFunction
  <1>2. FilesOK
    BY NoRowsFacts DEF Init, FilesOK
  <1>3. GraphOK
    BY NoRowsFacts DEF Init, GraphOK
  <1> QED BY <1>1, <1>2, <1>3

\* Every step keeps types.
LEMMA TypeStep == TypeInv /\ [Next]_vars => TypeInv'
  <1> SUFFICES ASSUME TypeInv, [Next]_vars PROVE JobsOK' /\ FilesOK' /\ GraphOK'
    BY TypePartsNext
  <1>0. JobsOK /\ FilesOK /\ GraphOK
    BY TypeParts
  <1>1. ASSUME NEW j \in Jobs, JobStep(j) PROVE JobsOK' /\ FilesOK' /\ GraphOK'
    <2>1. CASE Start(j) \/ StartDry(j)  BY <2>1, StartTypes
    <2>2. CASE ExtractRaises(j) \/ Crash(j)  BY <2>2, ForgetStepTypes
    <2>3. CASE Extract(j)
      <3>1. FilesOK' /\ GraphOK'
        BY <1>0, <2>3 DEF Extract, FilesOK, GraphOK, graphVars, fileVars, history
      <3> QED BY <2>3, <3>1, ExtractTypes
    <2>4. CASE WriteExtraction(j)
      <3>1. Goto(j, "saveExtraction") /\ "saveExtraction" \in Steps
        BY <2>4 DEF WriteExtraction, Steps
      <3>2. UNCHANGED << task, rowVars, fileVars, used >> /\ disturbed' \subseteq Jobs
        BY <1>0, <2>4 DEF WriteExtraction, JobsOK
      <3>3. JobsOK'
        BY <1>0, <3>1, <3>2, GotoTypes DEF JobsOK
      <3>4. FilesOK'
        BY <1>0, <3>2 DEF FilesOK, fileVars
      <3> QED BY <2>4, <3>3, <3>4, WriteExtractionTypes
    <2>5. CASE ReadClaims(j) \/ ReadMentions(j)
      <3>1. FilesOK' /\ GraphOK'
        BY <1>0, <2>5 DEF ReadClaims, ReadMentions, FilesOK, GraphOK, graphVars, fileVars, history
      <3> QED BY <2>5, <3>1, ReadTypes
    <2>6. CASE WriteEdges(j)
      <3>1. Goto(j, "saveMetrics") /\ "saveMetrics" \in Steps
        BY <2>6 DEF WriteEdges, Steps
      <3>2. UNCHANGED << task, rowVars, fileVars, disturbed, used >>
        BY <2>6 DEF WriteEdges, history
      <3>3. JobsOK'
        BY <1>0, <3>1, <3>2, GotoTypes DEF JobsOK
      <3>4. FilesOK'
        BY <1>0, <3>2 DEF FilesOK, fileVars
      <3> QED BY <2>6, <3>3, <3>4, WriteEdgesTypes
    <2>7. CASE SaveMetrics(j)  BY <2>7, SaveMetricsTypes
    <2>8. CASE SaveLiveSummary(j)
      BY <2>8, ReportedType, SaveSummaryTypes DEF SaveLiveSummary
    <2>9. CASE SaveDrySummary(j)
      <3>1. [status |-> "dry_run", claims |-> 0, mentions |-> 0, edges |-> 0] \in Summary
        BY DEF Summary
      <3> QED BY <2>9, <3>1, SaveSummaryTypes DEF SaveDrySummary
    <2> QED BY <1>1, <2>1, <2>2, <2>3, <2>4, <2>5, <2>6, <2>7, <2>8, <2>9 DEF JobStep
  <1>2. ASSUME NEW run \in Runs, Ingest(run) PROVE JobsOK' /\ FilesOK' /\ GraphOK'
    <2>1. chunks' \subseteq Runs \X Chunks
      BY <1>0, <1>2 DEF Ingest, GraphOK
    <2> QED BY <1>0, <1>2, <2>1
            DEF Ingest, JobsOK, FilesOK, GraphOK, RowsOK, rowVars, fileVars, history
  <1>3. ASSUME Reset PROVE JobsOK' /\ FilesOK' /\ GraphOK'
    <2>1. JobsOK'
      BY <1>0, <1>3 DEF Reset, JobsOK, RowsOK, rowVars
    <2>2. FilesOK'
      BY <1>0, <1>3, SpendTypes DEF Reset, FilesOK, fileVars, Bounds
    <2>3. GraphOK'
      BY <1>0, <1>3, NoRowsFacts DEF Reset, GraphOK
    <2> QED BY <2>1, <2>2, <2>3
  <1>4. CASE UNCHANGED vars
    BY <1>0, <1>4 DEF vars, graphVars, rowVars, fileVars, history, JobsOK, FilesOK, GraphOK, RowsOK
  <1> QED BY <1>1, <1>2, <1>3, <1>4 DEF Next

-----------------------------------------------------------------------------
(* What a step does to the graph and to the memory of the jobs.            *)

Same(k) ==
    /\ pc'[k] = pc[k] /\ task'[k] = task[k]
    /\ claimRows'[k] = claimRows[k] /\ mentionRows'[k] = mentionRows[k]
    /\ edgeRows'[k] = edgeRows[k]
Others(j) == \A k \in Jobs \ {j} : Same(k)

\* A step of a job that touches neither the graph nor rows in use.
Quiet(j) ==
    /\ UNCHANGED << graphVars, written, rewritten >>
    /\ used'.resets = used.resets
    /\ pc'[j] \in {"idle", "readChunks", "readClaims", "saveDry"}
    /\ Others(j)
    /\ disturbed \ {j} \subseteq disturbed'
Loud(j) ==
    \/ Extract(j) \/ WriteExtraction(j) \/ ReadClaims(j) \/ ReadMentions(j)
    \/ WriteEdges(j) \/ SaveMetrics(j)

\* The graph grows and texts that change are recorded.
Grows ==
    /\ chunks \subseteq chunks'
    /\ supportedBy \subseteq supportedBy' /\ mentionedIn \subseteq mentionedIn'
    /\ DOMAIN claims \subseteq DOMAIN claims'
    /\ DOMAIN mentions \subseteq DOMAIN mentions'
    /\ DOMAIN participant \subseteq DOMAIN participant'
    /\ rewritten \subseteq rewritten'
    /\ \A n \in (DOMAIN claims) \ rewritten' : claims'[n] = claims[n]
    /\ \A n \in (DOMAIN mentions) \ rewritten' : mentions'[n] = mentions[n]

\* Steps that change one job and its files only.
LEMMA QuietSteps ==
    ASSUME TypeInv, NEW j \in Jobs,
           \/ Start(j) \/ StartDry(j) \/ ExtractRaises(j) \/ Crash(j)
           \/ SaveLiveSummary(j) \/ SaveDrySummary(j)
    PROVE  Quiet(j)
  <1>0. JobsOK /\ used \in Bounds
    BY TypeParts DEF FilesOK, Bounds
  <1>1. CASE Start(j) \/ StartDry(j)
    <2>1. used'.resets = used.resets
      BY <1>0, <1>1, SpendTypes DEF Start, StartDry
    <2>2. Others(j) /\ pc'[j] \in {"idle", "readChunks", "readClaims", "saveDry"}
      BY <1>0, <1>1 DEF Start, StartDry, Others, Same, JobsOK, Goto, rowVars
    <2> QED BY <1>1, <2>1, <2>2 DEF Start, StartDry, Quiet, history
  <1>2. CASE ExtractRaises(j) \/ Crash(j) \/ SaveLiveSummary(j) \/ SaveDrySummary(j)
    <2>1. Forget(j) /\ UNCHANGED << graphVars, written, rewritten >>
      BY <1>2 DEF ExtractRaises, Crash, SaveLiveSummary, SaveDrySummary, SaveSummary
    <2>2. UNCHANGED used \/ Spend("crashes")
      BY <1>2 DEF ExtractRaises, Crash, SaveLiveSummary, SaveDrySummary, SaveSummary
    <2>3. used'.resets = used.resets
      BY <1>0, <2>2, SpendTypes
    <2>4. Others(j) /\ pc'[j] = "idle" /\ disturbed \ {j} \subseteq disturbed'
      BY <1>0, <2>1 DEF Others, Same, JobsOK, Forget, Goto
    <2> QED BY <2>1, <2>3, <2>4 DEF Quiet
  <1> QED BY <1>1, <1>2

\* The other steps of a job leave other jobs alone.
LEMMA LoudSteps ==
    ASSUME TypeInv, NEW j \in Jobs, Loud(j)
    PROVE  Others(j) /\ task'[j] = task[j] /\ used' = used
  <1>0. JobsOK
    BY TypeParts
  <1>1. CASE Extract(j)
    BY <1>0, <1>1 DEF Extract, Others, Same, JobsOK, Goto
  <1>2. CASE WriteExtraction(j)
    BY <1>0, <1>2 DEF WriteExtraction, Others, Same, JobsOK, Goto, rowVars
  <1>3. CASE ReadClaims(j)
    BY <1>0, <1>3 DEF ReadClaims, Others, Same, JobsOK, Goto
  <1>4. CASE ReadMentions(j)
    BY <1>0, <1>4 DEF ReadMentions, Others, Same, JobsOK, Goto
  <1>5. CASE WriteEdges(j)
    BY <1>0, <1>5 DEF WriteEdges, Others, Same, JobsOK, Goto, rowVars
  <1>6. CASE SaveMetrics(j)
    BY <1>0, <1>6 DEF SaveMetrics, Others, Same, JobsOK, Goto, rowVars
  <1> QED BY <1>1, <1>2, <1>3, <1>4, <1>5, <1>6 DEF Loud

\* A step is one of a job, quiet or not, an ingest or a reset.
LEMMA StepKinds ==
    ASSUME TypeInv, Next
    PROVE  \/ \E j \in Jobs : Quiet(j)
           \/ \E j \in Jobs : Loud(j)
           \/ \E run \in Runs : Ingest(run)
           \/ Reset
  <1>1. CASE \E j \in Jobs : JobStep(j)
    <2>1. PICK j \in Jobs : JobStep(j)
      BY <1>1
    <2>2. CASE Loud(j)
      BY <2>2
    <2>3. CASE ~Loud(j)
      <3>1. \/ Start(j) \/ StartDry(j) \/ ExtractRaises(j) \/ Crash(j)
            \/ SaveLiveSummary(j) \/ SaveDrySummary(j)
        BY <2>1, <2>3 DEF JobStep, Loud
      <3> QED BY <3>1, QuietSteps
    <2> QED BY <2>2, <2>3
  <1> QED BY <1>1 DEF Next

\* What is between the steps of jobs: nothing of theirs changes.
LEMMA AllSame ==
    ASSUME UNCHANGED vars \/ (\E run \in Runs : Ingest(run)) \/ Reset
    PROVE  \A k \in Jobs : Same(k)
  BY DEF vars, rowVars, Ingest, Reset, Same

\* The graph after the transaction of an extraction.
LEMMA ExtractionGraph ==
    ASSUME TypeInv, NEW j \in Jobs, WriteExtraction(j)
    PROVE  LET run == RunOf(j) IN
           /\ \A n : n \in DOMAIN claims' <=>
                n \in DOMAIN claims \/ \E i \in DOMAIN claimRows[j] : n = << run, i >>
           /\ \A n : n \in DOMAIN mentions' <=>
                n \in DOMAIN mentions \/ \E i \in DOMAIN mentionRows[j] : n = << run, i >>
           /\ \A i \in DOMAIN claimRows[j] :
                claims'[<< run, i >>] = NewSlots(<< run, i >>, claimRows[j][i])
           /\ \A i \in DOMAIN mentionRows[j] : mentions'[<< run, i >>] = mentionRows[j][i].name
           /\ \A n \in DOMAIN claims :
                (\A i \in DOMAIN claimRows[j] : n # << run, i >>) => claims'[n] = claims[n]
           /\ \A n \in DOMAIN mentions :
                (\A i \in DOMAIN mentionRows[j] : n # << run, i >>) => mentions'[n] = mentions[n]
  <1>1. /\ GraphOK /\ RunOf(j) \in Runs /\ Partial(claimRows[j], ClaimIds, ClaimRow)
        /\ Partial(mentionRows[j], MentionIds, MentionRow)
    BY TypeParts, JobTypes DEF RowsOK
  <1>2. /\ claims' = ClaimsWritten(RunOf(j), claimRows[j])
        /\ mentions' = MentionsWritten(RunOf(j), mentionRows[j])
    BY DEF WriteExtraction
  <1>3. LET after == ClaimsWritten(RunOf(j), claimRows[j]) IN
           /\ \A n : n \in DOMAIN after <=>
                n \in DOMAIN claims \/ \E i \in DOMAIN claimRows[j] : n = << RunOf(j), i >>
           /\ \A i \in DOMAIN claimRows[j] :
                after[<< RunOf(j), i >>] = NewSlots(<< RunOf(j), i >>, claimRows[j][i])
           /\ \A n \in DOMAIN claims :
                (\A i \in DOMAIN claimRows[j] : n # << RunOf(j), i >>) => after[n] = claims[n]
    BY <1>1, ClaimsWrittenFacts
  <1>4. LET after == MentionsWritten(RunOf(j), mentionRows[j]) IN
           /\ \A n : n \in DOMAIN after <=>
                n \in DOMAIN mentions \/ \E i \in DOMAIN mentionRows[j] : n = << RunOf(j), i >>
           /\ \A i \in DOMAIN mentionRows[j] : after[<< RunOf(j), i >>] = mentionRows[j][i].name
           /\ \A n \in DOMAIN mentions :
                (\A i \in DOMAIN mentionRows[j] : n # << RunOf(j), i >>) => after[n] = mentions[n]
    BY <1>1, MentionsWrittenFacts
  <1> QED BY <1>2, <1>3, <1>4

\* The edges after a write: those of the rows whose ends exist, and the old ones.
LEMMA EdgesAfter ==
    ASSUME TypeInv, NEW j \in Jobs, WriteExtraction(j) \/ WriteEdges(j)
    PROVE  LET run == RunOf(j)
               there == { e \in DOMAIN edgeRows[j] : /\ << run, e[1] >> \in DOMAIN claims'
                                                     /\ << run, e[3] >> \in DOMAIN mentions' }
           IN  /\ \A k : k \in DOMAIN participant' <=>
                    k \in DOMAIN participant \/ \E e \in there : k = Key(run, e)
               /\ \A e \in there : participant'[Key(run, e)] = edgeRows[j][e]
               /\ \A k \in DOMAIN participant :
                    (\A e \in there : k # Key(run, e)) => participant'[k] = participant[k]
               /\ IsFunction(participant)'
  <1>1. participant' = EdgesWritten(RunOf(j), edgeRows[j], DOMAIN claims', DOMAIN mentions')
    BY DEF WriteExtraction, WriteEdges
  <1>2. DOMAIN edgeRows[j] \subseteq ClaimIds \X Roles \X MentionIds
    BY JobTypes DEF Partial
  <1>3. IsFunction(participant') => IsFunction(participant)'
    BY DEF IsFunction
  <1>4. LET run == RunOf(j)
            there == { e \in DOMAIN edgeRows[j] : /\ << run, e[1] >> \in DOMAIN claims'
                                                  /\ << run, e[3] >> \in DOMAIN mentions' }
            after == EdgesWritten(run, edgeRows[j], DOMAIN claims', DOMAIN mentions')
        IN  /\ \A k : k \in DOMAIN after <=>
                    k \in DOMAIN participant \/ \E e \in there : k = Key(run, e)
            /\ \A e \in there : after[Key(run, e)] = edgeRows[j][e]
            /\ \A k \in DOMAIN participant :
                    (\A e \in there : k # Key(run, e)) => after[k] = participant[k]
            /\ IsFunction(after)
    BY <1>2, EdgesWrittenFacts
  <1> QED BY <1>1, <1>3, <1>4

\* Nothing leaves the graph except by a reset.
LEMMA GrowsUnlessReset ==
    ASSUME TypeInv, [Next]_vars
    PROVE  \/ Grows /\ used'.resets = used.resets
           \/ Reset /\ used'.resets > 0
  <1>1. CASE \E j \in Jobs : Quiet(j)
    BY <1>1 DEF Quiet, graphVars, Grows
  <1>2. CASE \E j \in Jobs : Loud(j)
    <2>1. PICK j \in Jobs : Loud(j)
      BY <1>2
    <2>2. used' = used
      BY <2>1, LoudSteps
    <2>3. CASE WriteExtraction(j)
      <3>1. /\ chunks' = chunks
            /\ supportedBy \subseteq supportedBy' /\ mentionedIn \subseteq mentionedIn'
            /\ rewritten' = rewritten
                 \cup { n \in DOMAIN claims : claims'[n] # claims[n] }
                 \cup { n \in DOMAIN mentions : mentions'[n] # mentions[n] }
        BY <2>3 DEF WriteExtraction
      <3>2. DOMAIN claims \subseteq DOMAIN claims' /\ DOMAIN mentions \subseteq DOMAIN mentions'
        BY <2>3, ExtractionGraph
      <3>3. DOMAIN participant \subseteq DOMAIN participant'
        BY <2>3, EdgesAfter
      <3> QED BY <2>2, <3>1, <3>2, <3>3 DEF Grows
    <2>4. CASE WriteEdges(j)
      <3>1. DOMAIN participant \subseteq DOMAIN participant'
        BY <2>4, EdgesAfter
      <3> QED BY <2>2, <2>4, <3>1 DEF WriteEdges, history, Grows
    <2>5. CASE Extract(j) \/ ReadClaims(j) \/ ReadMentions(j) \/ SaveMetrics(j)
      BY <2>2, <2>5 DEF Extract, ReadClaims, ReadMentions, SaveMetrics, graphVars, history, Grows
    <2> QED BY <2>1, <2>3, <2>4, <2>5 DEF Loud
  <1>3. CASE \E run \in Runs : Ingest(run)
    BY <1>3 DEF Ingest, history, Grows
  <1>4. CASE Reset
    BY <1>4, SpendTypes, TypeParts DEF Reset, FilesOK, Bounds
  <1>5. CASE UNCHANGED vars
    BY <1>5 DEF vars, graphVars, history, Grows
  <1> QED BY <1>1, <1>2, <1>3, <1>4, <1>5, StepKinds

-----------------------------------------------------------------------------
(* Memory and graph belong together.                                       *)

\* From its linking on, a job's edges are those of its rows.
LEMMA EdgesBuiltStep == TypeInv /\ EdgesBuilt /\ [Next]_vars => EdgesBuilt'
  <1> SUFFICES ASSUME TypeInv, EdgesBuilt, [Next]_vars, NEW k \in Jobs, pc'[k] \in Built
               PROVE  edgeRows'[k] = EdgeRows(claimRows'[k], mentionRows'[k])
    BY DEF EdgesBuilt
  <1>0. JobsOK
    BY TypeParts
  <1>1. CASE Same(k)
    BY <1>1 DEF Same, EdgesBuilt
  <1>2. CASE \E j \in Jobs : Quiet(j)
    BY <1>1, <1>2 DEF Quiet, Others, Built
  <1>3. CASE \E j \in Jobs : Loud(j)
    <2>1. PICK j \in Jobs : Loud(j)
      BY <1>3
    <2>2. CASE k # j
      BY <1>1, <2>1, <2>2, LoudSteps DEF Others
    <2>3. CASE k = j
      <3>1. CASE Extract(k)
        BY <1>0, <3>1 DEF Extract, JobsOK
      <3>2. CASE ReadMentions(k)
        BY <1>0, <3>2 DEF ReadMentions, JobsOK
      <3>3. CASE ReadClaims(k)
        BY <1>0, <3>3 DEF ReadClaims, JobsOK, Goto, Built
      <3>4. CASE WriteExtraction(k) \/ WriteEdges(k) \/ SaveMetrics(k)
        <4>1. pc[k] \in Built /\ UNCHANGED rowVars
          BY <3>4 DEF WriteExtraction, WriteEdges, SaveMetrics, Built
        <4> QED BY <4>1 DEF rowVars, EdgesBuilt
      <3> QED BY <2>1, <2>3, <3>1, <3>2, <3>3, <3>4 DEF Loud
    <2> QED BY <2>2, <2>3
  <1>4. CASE UNCHANGED vars \/ (\E run \in Runs : Ingest(run)) \/ Reset
    BY <1>1, <1>4, AllSame
  <1> QED BY <1>2, <1>3, <1>4, StepKinds

\* Edges never cross runs.
LEMMA OneRunStep == TypeInv /\ OneRun /\ [Next]_vars => OneRun'
  <1> SUFFICES ASSUME TypeInv, OneRun, [Next]_vars PROVE OneRun'
    OBVIOUS
  <1>1. CASE UNCHANGED participant
    BY <1>1 DEF OneRun
  <1>2. ASSUME NEW j \in Jobs, WriteExtraction(j) \/ WriteEdges(j)
        PROVE  OneRun'
    <2>1. \A k \in DOMAIN participant' :
            k \in DOMAIN participant \/ \E e : k = Key(RunOf(j), e)
      BY <1>2, EdgesAfter
    <2> QED BY <2>1, KeyFacts DEF OneRun
  <1>3. CASE Reset
    BY <1>3, NoRowsFacts DEF Reset, OneRun
  <1>4. CASE \E j \in Jobs : Quiet(j)
    BY <1>1, <1>4 DEF Quiet, graphVars
  <1>5. CASE \E j \in Jobs : Loud(j)
    BY <1>1, <1>2, <1>5
       DEF Loud, Extract, ReadClaims, ReadMentions, SaveMetrics, graphVars
  <1>6. CASE \E run \in Runs : Ingest(run)
    BY <1>1, <1>6 DEF Ingest
  <1>7. CASE UNCHANGED vars
    BY <1>1, <1>7 DEF vars, graphVars
  <1> QED BY <1>3, <1>4, <1>5, <1>6, <1>7, StepKinds

\* Chunks never come back after a reset.
LEMMA AfterResetStep == TypeInv /\ AfterReset /\ [Next]_vars => AfterReset'
  <1> SUFFICES ASSUME TypeInv, AfterReset, [Next]_vars PROVE AfterReset'
    OBVIOUS
  <1>0. JobsOK /\ used \in Bounds
    BY TypeParts DEF FilesOK, Bounds
  <1>1. CASE Reset
    <2>1. chunks' = {} /\ supportedBy' = {} /\ mentionedIn' = {}
      BY <1>1 DEF Reset
    <2>2. \A k \in Jobs \ disturbed' : pc'[k] = "idle"
      BY <1>1 DEF Reset, Active
    <2> QED BY <2>1, <2>2 DEF AfterReset
  <1>2. CASE ~Reset
    <2> SUFFICES ASSUME ~NoReset' PROVE
            /\ chunks' = {} /\ supportedBy' = {} /\ mentionedIn' = {}
            /\ \A k \in Jobs \ disturbed' :
                pc'[k] \in {"readMentions", "writeEdges"} =>
                    \A i \in DOMAIN claimRows'[k] : claimRows'[k][i].chunks = {}
      BY DEF AfterReset
    <2>1. ~NoReset
      BY <1>2, GrowsUnlessReset DEF NoReset
    <2>2. chunks = {} /\ supportedBy = {} /\ mentionedIn = {}
      BY <2>1 DEF AfterReset
    <2>3. ASSUME NEW k \in Jobs \ disturbed, Same(k)
          PROVE  pc'[k] \in {"readMentions", "writeEdges"} =>
                    \A i \in DOMAIN claimRows'[k] : claimRows'[k][i].chunks = {}
      BY <2>1, <2>3 DEF AfterReset, Same
    <2>4. CASE \E j \in Jobs : Quiet(j)
      <3>1. PICK j \in Jobs : Quiet(j)
        BY <2>4
      <3> QED BY <2>2, <2>3, <3>1 DEF Quiet, Others, graphVars
    <2>5. CASE \E j \in Jobs : Loud(j)
      <3>1. PICK j \in Jobs : Loud(j)
        BY <2>5
      <3>2. Others(j) /\ disturbed \subseteq disturbed'
        BY <3>1, LoudSteps DEF Loud, Extract, WriteExtraction, ReadClaims, ReadMentions,
                              WriteEdges, SaveMetrics, history
      <3>3. chunks' = {} /\ supportedBy' = {} /\ mentionedIn' = {}
        <4>1. CASE WriteExtraction(j)
          <5>1. /\ chunks' = chunks
                /\ supportedBy' = supportedBy \cup LinksOf(RunOf(j), claimRows[j])
                /\ mentionedIn' = mentionedIn \cup LinksOf(RunOf(j), mentionRows[j])
            BY <4>1 DEF WriteExtraction
          <5>2. \A run, rows : LinksOf(run, rows) = {}
            BY <2>2, LinkOf
          <5> QED BY <2>2, <5>1, <5>2
        <4>2. CASE ~WriteExtraction(j)
          BY <2>2, <3>1, <4>2
             DEF Loud, Extract, ReadClaims, ReadMentions, WriteEdges, SaveMetrics, graphVars
        <4> QED BY <4>1, <4>2
      <3>4. ASSUME j \notin disturbed', pc'[j] \in {"readMentions", "writeEdges"},
                   NEW i \in DOMAIN claimRows'[j]
            PROVE  claimRows'[j][i].chunks = {}
        <4>1. CASE ReadClaims(j)
          <5>1. claimRows'[j] = GraphClaims(RunOf(j))
            BY <1>0, <4>1, ReadClaimsFacts DEF JobsOK, IsFunction
          <5>2. claimRows'[j][i].chunks = ChunksOf(supportedBy, << RunOf(j), i >>)
            BY <3>4, <5>1 DEF GraphClaims
          <5> QED BY <2>2, <5>2 DEF ChunksOf
        <4>2. CASE ReadMentions(j)
          <5>1. pc[j] = "readMentions" /\ UNCHANGED << claimRows, disturbed >>
            BY <4>2 DEF ReadMentions, history
          <5> QED BY <2>1, <3>4, <5>1 DEF AfterReset
        <4>3. pc'[j] \notin {"readMentions", "writeEdges"} \/ ReadClaims(j) \/ ReadMentions(j)
          BY <1>0, <3>1 DEF Loud, Extract, WriteExtraction, WriteEdges, SaveMetrics, Goto, JobsOK
        <4> QED BY <3>4, <4>1, <4>2, <4>3
      <3> QED BY <2>3, <3>2, <3>3, <3>4 DEF Others
    <2>6. CASE \E run \in Runs : Ingest(run)
      BY <2>1, <2>6 DEF Ingest, NoReset
    <2>7. CASE UNCHANGED vars
      BY <2>2, <2>3, <2>7, AllSame DEF vars, graphVars, history
    <2> QED BY <1>2, <2>4, <2>5, <2>6, <2>7, StepKinds
  <1> QED BY <1>1, <1>2

Knows(k) ==
    /\ pc[k] = "writeExtraction" =>
        RowsOfChunks(RunOf(k), claimRows[k]) /\ RowsOfChunks(RunOf(k), mentionRows[k])
    /\ pc[k] \in {"readMentions", "writeEdges"} => ClaimRowsKnown(RunOf(k), claimRows[k])
    /\ pc[k] = "writeEdges" => MentionRowsKnown(RunOf(k), mentionRows[k])
    /\ pc[k] \in {"saveExtraction", "saveMetrics", "saveParticipation"} =>
        RowsSaved(RunOf(k), claimRows[k], mentionRows[k])

\* Claim rows in memory stay known while the graph grows.
LEMMA ClaimRowsStay ==
    ASSUME TypeInv, Grows, NEW k \in Jobs, claimRows'[k] = claimRows[k], task'[k] = task[k],
           ClaimRowsKnown(RunOf(k), claimRows[k])
    PROVE  ClaimRowsKnown(RunOf(k), claimRows[k])'
  BY DEF ClaimRowsKnown, RunOf, Grows, ChunksOf

\* Mention rows in memory stay known while the graph grows.
LEMMA MentionRowsStay ==
    ASSUME TypeInv, Grows, NEW k \in Jobs, mentionRows'[k] = mentionRows[k], task'[k] = task[k],
           MentionRowsKnown(RunOf(k), mentionRows[k])
    PROVE  MentionRowsKnown(RunOf(k), mentionRows[k])'
  BY DEF MentionRowsKnown, RunOf, Grows, ChunksOf

\* Rows once written stay while the graph grows.
LEMMA RowsSavedStay ==
    ASSUME TypeInv, Grows, NEW k \in Jobs, task'[k] = task[k],
           claimRows'[k] = claimRows[k], mentionRows'[k] = mentionRows[k],
           RowsSaved(RunOf(k), claimRows[k], mentionRows[k])
    PROVE  RowsSaved(RunOf(k), claimRows[k], mentionRows[k])'
  BY DEF RowsSaved, RunOf, Grows

\* What a job knows stays true while others step and the graph grows.
LEMMA KnowsStay ==
    ASSUME TypeInv, Grows, NEW k \in Jobs, Same(k), Knows(k)
    PROVE  Knows(k)'
  <1>1. pc'[k] = "writeExtraction" =>
            RowsOfChunks(RunOf(k), claimRows[k])' /\ RowsOfChunks(RunOf(k), mentionRows[k])'
    BY DEF Knows, Same, RowsOfChunks, RunOf, Grows
  <1> QED BY <1>1, ClaimRowsStay, MentionRowsStay, RowsSavedStay DEF Knows, Same

\* Rows of the graph are known.
LEMMA GraphRowsKnown ==
    ASSUME TypeInv, NEW run
    PROVE  /\ ClaimRowsKnown(run, GraphClaims(run))
           /\ MentionRowsKnown(run, GraphMentions(run))
  BY DEF ClaimRowsKnown, GraphClaims, MentionRowsKnown, GraphMentions

\* Prepared rows are of chunks that were read.
LEMMA ExtractKnows ==
    ASSUME TypeInv, NEW j \in Jobs, Extract(j)
    PROVE  Knows(j)'
  <1> DEFINE read == { c \in Chunks : << RunOf(j), c >> \in chunks }
  <1>1. PICK out \in Outputs :
            /\ claimRows' = [claimRows EXCEPT ![j] = Prepared(out.claims, read)]
            /\ mentionRows' = [mentionRows EXCEPT ![j] = Prepared(out.mentions, read)]
    BY DEF Extract
  <1>2. claimRows'[j] = Prepared(out.claims, read) /\ mentionRows'[j] = Prepared(out.mentions, read)
    BY <1>1, TypeParts DEF JobsOK
  <1>3. RowsOK(out.claims, out.mentions)
    BY OutputsAssumption DEF RowsOK
  <1>4. ASSUME NEW rows, NEW i \in DOMAIN rows, rows[i] \in ClaimRow \cup MentionRow
        PROVE  Prepared(rows, read)[i].chunks = rows[i].chunks \cap read
    BY <1>4 DEF Prepared, ClaimRow, MentionRow
  <1>5. \A i \in DOMAIN claimRows'[j] : claimRows'[j][i].chunks \subseteq read
    BY <1>2, <1>3, <1>4, PreparedTypes DEF RowsOK, Partial
  <1>6. \A i \in DOMAIN mentionRows'[j] : mentionRows'[j][i].chunks \subseteq read
    BY <1>2, <1>3, <1>4, PreparedTypes DEF RowsOK, Partial
  <1>7. pc'[j] = "writeExtraction" /\ task' = task /\ chunks' = chunks
    BY TypeParts DEF Extract, JobsOK, Goto, graphVars
  <1> QED BY <1>5, <1>6, <1>7 DEF Knows, RowsOfChunks, RunOf

\* After its write, a job's rows are in the graph.
LEMMA WriteSaves ==
    ASSUME TypeInv, EdgesBuilt, NEW j \in Jobs, WriteExtraction(j) \/ WriteEdges(j),
           \A i \in DOMAIN claimRows[j] : << RunOf(j), i >> \in DOMAIN claims',
           \A i \in DOMAIN mentionRows[j] : << RunOf(j), i >> \in DOMAIN mentions'
    PROVE  RowsSaved(RunOf(j), claimRows[j], mentionRows[j])'
  <1>1. UNCHANGED << task, rowVars >> /\ pc[j] \in Built
    BY DEF WriteExtraction, WriteEdges, Built
  <1>2. edgeRows[j] = EdgeRows(claimRows[j], mentionRows[j])
    BY <1>1 DEF EdgesBuilt
  <1>3. \A e \in DOMAIN edgeRows[j] : e[1] \in DOMAIN claimRows[j] /\ e[3] \in DOMAIN mentionRows[j]
    BY <1>2, JobTypes, EdgeRowsFacts
  <1>4. \A e \in DOMAIN edgeRows[j] : Key(RunOf(j), e) \in DOMAIN participant'
    BY <1>3, EdgesAfter
  <1> QED BY <1>1, <1>2, <1>4 DEF RowsSaved, RunOf, rowVars

\* Rows in memory stay true of the graph until a reset.
LEMMA MemoryTrueStep == TypeInv /\ EdgesBuilt /\ MemoryTrue /\ [Next]_vars => MemoryTrue'
  <1> SUFFICES ASSUME TypeInv, EdgesBuilt, MemoryTrue, [Next]_vars, NoReset', NEW k \in Jobs
               PROVE  Knows(k)'
    BY DEF MemoryTrue, Knows
  <1>0. JobsOK
    BY TypeParts
  <1>1. Grows /\ NoReset
    BY GrowsUnlessReset, TypeParts DEF NoReset
  <1>2. Knows(k)
    BY <1>1 DEF MemoryTrue, Knows
  <1>3. CASE Same(k)
    BY <1>1, <1>2, <1>3, KnowsStay
  <1>4. CASE \E j \in Jobs : Quiet(j)
    BY <1>3, <1>4 DEF Quiet, Others, Knows
  <1>5. CASE \E j \in Jobs : Loud(j)
    <2>1. PICK j \in Jobs : Loud(j)
      BY <1>5
    <2>2. CASE k # j
      BY <1>3, <2>1, <2>2, LoudSteps DEF Others
    <2>3. CASE k = j
      <3>0. task'[k] = task[k]
        BY <2>1, <2>3, LoudSteps
      <3>1. CASE Extract(k)
        BY <3>1, ExtractKnows
      <3>2. CASE WriteExtraction(k)
        <4>1. RowsSaved(RunOf(k), claimRows[k], mentionRows[k])'
          BY <3>2, ExtractionGraph, WriteSaves
        <4>2. pc'[k] = "saveExtraction"
          BY <1>0, <3>2 DEF WriteExtraction, Goto, JobsOK
        <4> QED BY <4>1, <4>2 DEF Knows
      <3>3. CASE ReadClaims(k)
        <4>1. /\ claimRows'[k] = GraphClaims(RunOf(k)) /\ pc'[k] = "readMentions"
              /\ UNCHANGED << claims, supportedBy, rewritten >>
          BY <1>0, <3>3, ReadClaimsFacts DEF ReadClaims, Goto, JobsOK, graphVars, history
        <4>2. ClaimRowsKnown(RunOf(k), claimRows[k])'
          <5>1. ClaimRowsKnown(RunOf(k), claimRows'[k])
            BY <4>1, GraphRowsKnown
          <5> QED BY <3>0, <4>1, <5>1 DEF ClaimRowsKnown, RunOf, ChunksOf
        <4> QED BY <4>1, <4>2 DEF Knows
      <3>4. CASE ReadMentions(k)
        <4>1. /\ mentionRows'[k] = GraphMentions(RunOf(k)) /\ pc'[k] = "writeEdges"
              /\ pc[k] = "readMentions"
              /\ UNCHANGED << claimRows, mentions, mentionedIn, rewritten >>
          BY <1>0, <3>4, ReadMentionsFacts DEF ReadMentions, Goto, JobsOK, graphVars, history
        <4>2. MentionRowsKnown(RunOf(k), mentionRows[k])'
          <5>1. MentionRowsKnown(RunOf(k), mentionRows'[k])
            BY <4>1, GraphRowsKnown
          <5> QED BY <3>0, <4>1, <5>1 DEF MentionRowsKnown, RunOf, ChunksOf
        <4>3. ClaimRowsKnown(RunOf(k), claimRows[k])'
          BY <1>1, <1>2, <3>0, <4>1, ClaimRowsStay DEF Knows
        <4> QED BY <4>1, <4>2, <4>3 DEF Knows
      <3>5. CASE WriteEdges(k)
        <4>1. /\ \A i \in DOMAIN claimRows[k] : << RunOf(k), i >> \in DOMAIN claims'
              /\ \A i \in DOMAIN mentionRows[k] : << RunOf(k), i >> \in DOMAIN mentions'
          BY <1>2, <3>5 DEF WriteEdges, Knows, ClaimRowsKnown, MentionRowsKnown
        <4>2. RowsSaved(RunOf(k), claimRows[k], mentionRows[k])'
          BY <3>5, <4>1, WriteSaves
        <4>3. pc'[k] = "saveMetrics"
          BY <1>0, <3>5 DEF WriteEdges, Goto, JobsOK
        <4> QED BY <4>2, <4>3 DEF Knows
      <3>6. CASE SaveMetrics(k)
        <4>1. pc[k] = "saveMetrics" /\ pc'[k] = "saveParticipation" /\ UNCHANGED rowVars
          BY <1>0, <3>6 DEF SaveMetrics, Goto, JobsOK
        <4>2. RowsSaved(RunOf(k), claimRows[k], mentionRows[k])'
          BY <1>1, <1>2, <3>0, <4>1, RowsSavedStay DEF Knows, rowVars
        <4> QED BY <4>1, <4>2 DEF Knows
      <3> QED BY <2>1, <2>3, <3>1, <3>2, <3>3, <3>4, <3>5, <3>6 DEF Loud
    <2> QED BY <2>2, <2>3
  <1>6. CASE UNCHANGED vars \/ (\E run \in Runs : Ingest(run)) \/ Reset
    BY <1>3, <1>6, AllSame
  <1> QED BY <1>4, <1>5, <1>6, StepKinds

\* An extraction that ends with the slots its rows had, read with chunks still there.
LEMMA EvidenceSharedStep ==
    TypeInv /\ EdgesBuilt /\ MemoryTrue /\ OneRun /\ EvidenceShared /\ [Next]_vars => EvidenceShared'
  <1> SUFFICES ASSUME TypeInv, EdgesBuilt, MemoryTrue, OneRun, EvidenceShared, [Next]_vars, NoReset',
                      NEW e \in DOMAIN participant'
               PROVE  /\ e[1][1] = e[3][1]
                      /\ \E c \in Chunks : << e[1], c >> \in supportedBy' /\ << e[3], c >> \in mentionedIn'
    BY DEF EvidenceShared, ChunksOf
  <1>1. Grows /\ NoReset
    BY GrowsUnlessReset, TypeParts DEF NoReset
  <1>2. e[1][1] = e[3][1]
    BY OneRunStep DEF OneRun
  <1>3. CASE e \in DOMAIN participant
    <2>1. \E c \in Chunks : << e[1], c >> \in supportedBy /\ << e[3], c >> \in mentionedIn
      BY <1>1, <1>3 DEF EvidenceShared, ChunksOf
    <2> QED BY <1>1, <1>2, <2>1 DEF Grows
  <1>4. ASSUME NEW j \in Jobs, WriteExtraction(j) \/ WriteEdges(j), e \notin DOMAIN participant
        PROVE  \E c \in Chunks : << e[1], c >> \in supportedBy' /\ << e[3], c >> \in mentionedIn'
    <2> DEFINE run == RunOf(j)
    <2>1. PICK d \in DOMAIN edgeRows[j] : e = Key(run, d)
      BY <1>4, EdgesAfter
    <2>2. edgeRows[j] = EdgeRows(claimRows[j], mentionRows[j])
      BY <1>4 DEF EdgesBuilt, Built, WriteExtraction, WriteEdges
    <2>3. /\ d[1] \in DOMAIN claimRows[j] /\ d[3] \in DOMAIN mentionRows[j]
          /\ claimRows[j][d[1]].chunks \cap mentionRows[j][d[3]].chunks # {}
      BY <2>1, <2>2, JobTypes, EdgeRowsFacts
    <2>4. PICK c : c \in claimRows[j][d[1]].chunks /\ c \in mentionRows[j][d[3]].chunks
      BY <2>3
    <2>5. c \in Chunks
      BY <2>3, <2>4, JobTypes, RowFacts DEF RowsOK, Partial
    <2>6. e[1] = << run, d[1] >> /\ e[3] = << run, d[3] >>
      BY <2>1, KeyFacts
    <2>7. CASE WriteExtraction(j)
      <3>1. << run, c >> \in chunks
        BY <1>1, <2>3, <2>4, <2>7 DEF MemoryTrue, WriteExtraction, RowsOfChunks
      <3>2. << << run, d[1] >>, c >> \in LinksOf(run, claimRows[j])
            /\ << << run, d[3] >>, c >> \in LinksOf(run, mentionRows[j])
        BY <2>3, <2>4, <3>1, LinkWritten
      <3> QED BY <2>5, <2>6, <2>7, <3>2 DEF WriteExtraction
    <2>8. CASE WriteEdges(j)
      <3>1. ClaimRowsKnown(run, claimRows[j]) /\ MentionRowsKnown(run, mentionRows[j])
        BY <1>1, <2>8 DEF MemoryTrue, WriteEdges
      <3>2. << << run, d[1] >>, c >> \in supportedBy /\ << << run, d[3] >>, c >> \in mentionedIn
        BY <2>3, <2>4, <3>1 DEF ClaimRowsKnown, MentionRowsKnown, ChunksOf
      <3> QED BY <1>1, <2>5, <2>6, <3>2 DEF Grows
    <2> QED BY <1>4, <2>7, <2>8
  <1>5. CASE \E j \in Jobs : Loud(j)
    <2>1. PICK j \in Jobs : Loud(j)
      BY <1>5
    <2>2. CASE WriteExtraction(j) \/ WriteEdges(j)
      BY <1>2, <1>3, <1>4, <2>2
    <2>3. CASE ~(WriteExtraction(j) \/ WriteEdges(j))
      BY <1>3, <2>1, <2>3 DEF Loud, Extract, ReadClaims, ReadMentions, SaveMetrics, graphVars
    <2> QED BY <2>2, <2>3
  <1>6. CASE \E j \in Jobs : Quiet(j)
    BY <1>3, <1>6 DEF Quiet, graphVars
  <1>7. CASE \E run \in Runs : Ingest(run)
    BY <1>3, <1>7 DEF Ingest
  <1>8. CASE Reset
    BY <1>8, NoRowsFacts DEF Reset
  <1>9. CASE UNCHANGED vars
    BY <1>3, <1>9 DEF vars, graphVars
  <1> QED BY <1>5, <1>6, <1>7, <1>8, <1>9, StepKinds

\* An edge that is not written keeps its method and, unless rewritten, its texts.
LEMMA EdgesJustifiedStep ==
    TypeInv /\ EdgesBuilt /\ MemoryTrue /\ EdgesJustified /\ [Next]_vars => EdgesJustified'
  <1> SUFFICES ASSUME TypeInv, EdgesBuilt, MemoryTrue, EdgesJustified, [Next]_vars, NoReset',
                      NEW e \in DOMAIN participant', e[1] \notin rewritten', e[3] \notin rewritten'
               PROVE  /\ claims'[e[1]][e[2]] # NoText
                      /\ Justifies(participant'[e], claims'[e[1]][e[2]], mentions'[e[3]])
    BY DEF EdgesJustified
  <1>1. Grows /\ NoReset
    BY GrowsUnlessReset, TypeParts DEF NoReset
  <1>2. ASSUME e \in DOMAIN participant, participant'[e] = participant[e]
        PROVE  /\ claims'[e[1]][e[2]] # NoText
               /\ Justifies(participant'[e], claims'[e[1]][e[2]], mentions'[e[3]])
    <2>1. e[1] \in DOMAIN claims /\ e[3] \in DOMAIN mentions
      BY <1>2, TypeParts DEF GraphOK, Partial
    <2>2. claims'[e[1]] = claims[e[1]] /\ mentions'[e[3]] = mentions[e[3]]
      BY <1>1, <2>1 DEF Grows
    <2>3. e[1] \notin rewritten /\ e[3] \notin rewritten
      BY <1>1 DEF Grows
    <2>4. /\ claims[e[1]][e[2]] # NoText
          /\ Justifies(participant[e], claims[e[1]][e[2]], mentions[e[3]])
      BY <1>1, <1>2, <2>3 DEF EdgesJustified
    <2> QED BY <1>2, <2>2, <2>4
  <1>3. ASSUME NEW j \in Jobs, WriteExtraction(j) \/ WriteEdges(j)
        PROVE  /\ claims'[e[1]][e[2]] # NoText
               /\ Justifies(participant'[e], claims'[e[1]][e[2]], mentions'[e[3]])
    <2> DEFINE run == RunOf(j)
               there == { d \in DOMAIN edgeRows[j] : /\ << run, d[1] >> \in DOMAIN claims'
                                                     /\ << run, d[3] >> \in DOMAIN mentions' }
    <2>1. CASE \A d \in there : e # Key(run, d)
      <3>1. /\ \A k : k \in DOMAIN participant' <=>
                    k \in DOMAIN participant \/ \E d \in there : k = Key(run, d)
            /\ \A k \in DOMAIN participant :
                    (\A d \in there : k # Key(run, d)) => participant'[k] = participant[k]
        BY <1>3, EdgesAfter
      <3> HIDE DEF there
      <3> QED BY <1>2, <2>1, <3>1
    <2>2. CASE \E d \in there : e = Key(run, d)
      <3>1. PICK d \in there : e = Key(run, d)
        BY <2>2
      <3>2. participant'[e] = edgeRows[j][d]
        BY <1>3, <3>1, EdgesAfter
      <3>3. edgeRows[j] = EdgeRows(claimRows[j], mentionRows[j])
        BY <1>3 DEF EdgesBuilt, Built, WriteExtraction, WriteEdges
      <3>4. /\ d[1] \in DOMAIN claimRows[j] /\ d[2] \in Roles /\ d[3] \in DOMAIN mentionRows[j]
            /\ claimRows[j][d[1]].slots[d[2]] \in Texts
            /\ Justifies(edgeRows[j][d], claimRows[j][d[1]].slots[d[2]], mentionRows[j][d[3]].name)
        BY <3>1, <3>3, JobTypes, EdgeRowsFacts
      <3>5. e[1] = << run, d[1] >> /\ e[2] = d[2] /\ e[3] = << run, d[3] >>
        BY <3>1, KeyFacts
      <3>6. /\ claims'[e[1]][e[2]] = claimRows[j][d[1]].slots[d[2]]
            /\ mentions'[e[3]] = mentionRows[j][d[3]].name
        <4>1. CASE WriteExtraction(j)
          <5>1. /\ claims'[e[1]] = NewSlots(e[1], claimRows[j][d[1]])
                /\ mentions'[e[3]] = mentionRows[j][d[3]].name
            BY <3>4, <3>5, <4>1, ExtractionGraph
          <5> QED BY <3>4, <3>5, <5>1, NoTextAssumption DEF NewSlots
        <4>2. CASE WriteEdges(j)
          <5>1. ClaimRowsKnown(run, claimRows[j]) /\ MentionRowsKnown(run, mentionRows[j])
            BY <1>1, <4>2 DEF MemoryTrue, WriteEdges
          <5>2. UNCHANGED << claims, mentions, rewritten >>
            BY <4>2 DEF WriteEdges, history
          <5> QED BY <3>4, <3>5, <5>1, <5>2 DEF ClaimRowsKnown, MentionRowsKnown
        <4> QED BY <1>3, <4>1, <4>2
      <3> QED BY <3>2, <3>4, <3>6, NoTextAssumption
    <2> QED BY <2>1, <2>2
  <1>4. CASE UNCHANGED participant
    BY <1>2, <1>4
  <1>5. CASE \E j \in Jobs : Loud(j)
    BY <1>3, <1>4, <1>5 DEF Loud, Extract, ReadClaims, ReadMentions, SaveMetrics, graphVars
  <1>6. CASE \E j \in Jobs : Quiet(j)
    BY <1>4, <1>6 DEF Quiet, graphVars
  <1>7. CASE \E run \in Runs : Ingest(run)
    BY <1>4, <1>7 DEF Ingest
  <1>8. CASE Reset
    BY <1>8, NoRowsFacts DEF Reset
  <1>9. CASE UNCHANGED vars
    BY <1>4, <1>9 DEF vars, graphVars
  <1> QED BY <1>5, <1>6, <1>7, <1>8, <1>9, StepKinds

-----------------------------------------------------------------------------
(* Until a second extraction the edges of a run are exact.                 *)

\* No step but an extraction of the run, or a reset, changes its nodes.
LEMMA GraphRowsStay ==
    ASSUME TypeInv, [Next]_vars, ~Reset, NEW run \in Runs,
           \A j \in Jobs : WriteExtraction(j) => RunOf(j) # run
    PROVE  /\ \A n : n[1] = run => (n \in DOMAIN claims' <=> n \in DOMAIN claims)
           /\ \A n : n[1] = run => (n \in DOMAIN mentions' <=> n \in DOMAIN mentions)
           /\ GraphClaims(run)' = GraphClaims(run)
           /\ GraphMentions(run)' = GraphMentions(run)
           /\ written'[run] = written[run]
  <1>1. ASSUME UNCHANGED << claims, mentions, supportedBy, mentionedIn, written >>
        PROVE  /\ \A n : n[1] = run => (n \in DOMAIN claims' <=> n \in DOMAIN claims)
               /\ \A n : n[1] = run => (n \in DOMAIN mentions' <=> n \in DOMAIN mentions)
               /\ GraphClaims(run)' = GraphClaims(run)
               /\ GraphMentions(run)' = GraphMentions(run)
               /\ written'[run] = written[run]
    BY <1>1 DEF GraphClaims, GraphMentions, ChunksOf
  <1>2. ASSUME NEW j \in Jobs, WriteExtraction(j)
        PROVE  /\ \A n : n[1] = run => (n \in DOMAIN claims' <=> n \in DOMAIN claims)
               /\ \A n : n[1] = run => (n \in DOMAIN mentions' <=> n \in DOMAIN mentions)
               /\ GraphClaims(run)' = GraphClaims(run)
               /\ GraphMentions(run)' = GraphMentions(run)
               /\ written'[run] = written[run]
    <2>1. RunOf(j) # run /\ RunOf(j) \in Runs
      BY <1>2, JobTypes
    <2>2. \A n : n[1] = run =>
            /\ n \in DOMAIN claims' <=> n \in DOMAIN claims
            /\ n \in DOMAIN mentions' <=> n \in DOMAIN mentions
            /\ n \in DOMAIN claims => claims'[n] = claims[n]
            /\ n \in DOMAIN mentions => mentions'[n] = mentions[n]
      BY <1>2, <2>1, ExtractionGraph
    <2>3. \A rows, n, c : n[1] = run => << n, c >> \notin LinksOf(RunOf(j), rows)
      <3> SUFFICES ASSUME NEW rows, NEW n, NEW c, n[1] = run, << n, c >> \in LinksOf(RunOf(j), rows)
                   PROVE  FALSE
        OBVIOUS
      <3>1. PICK i \in DOMAIN rows : \E d \in rows[i].chunks :
                << RunOf(j), d >> \in chunks /\ << n, c >> = << << RunOf(j), i >>, d >>
        BY LinkOf
      <3>2. n = << RunOf(j), i >>
        BY <3>1
      <3> QED BY <2>1, <3>2
    <2>4. ASSUME NEW n, n[1] = run
          PROVE  /\ ChunksOf(supportedBy, n)' = ChunksOf(supportedBy, n)
                 /\ ChunksOf(mentionedIn, n)' = ChunksOf(mentionedIn, n)
      <3>1. /\ supportedBy' = supportedBy \cup LinksOf(RunOf(j), claimRows[j])
            /\ mentionedIn' = mentionedIn \cup LinksOf(RunOf(j), mentionRows[j])
        BY <1>2 DEF WriteExtraction
      <3>2. \A c : /\ << n, c >> \in supportedBy' <=> << n, c >> \in supportedBy
                   /\ << n, c >> \in mentionedIn' <=> << n, c >> \in mentionedIn
        BY <2>3, <2>4, <3>1
      <3> QED BY <3>2 DEF ChunksOf
    <2>5. \A i : << run, i >>[1] = run
      OBVIOUS
    <2>6. GraphClaims(run)' = GraphClaims(run)
      BY <2>2, <2>4, <2>5 DEF GraphClaims
    <2>7. GraphMentions(run)' = GraphMentions(run)
      BY <2>2, <2>4, <2>5 DEF GraphMentions
    <2>8. written'[run] = written[run]
      BY <1>2, <2>1, TypeParts DEF WriteExtraction, GraphOK
    <2> QED BY <2>2, <2>6, <2>7, <2>8
  <1>3. CASE \E j \in Jobs : Loud(j)
    BY <1>1, <1>2, <1>3
       DEF Loud, Extract, ReadClaims, ReadMentions, WriteEdges, SaveMetrics, graphVars, history
  <1>4. CASE \E j \in Jobs : Quiet(j)
    BY <1>1, <1>4 DEF Quiet, graphVars
  <1>5. CASE \E r \in Runs : Ingest(r)
    BY <1>1, <1>5 DEF Ingest, history
  <1>6. CASE UNCHANGED vars
    BY <1>1, <1>6 DEF vars, graphVars, history
  <1> QED BY <1>3, <1>4, <1>5, <1>6, StepKinds

\* The graph of a run without nodes has no rows.
LEMMA UnwrittenRows ==
    ASSUME TypeInv, Unwritten, NoReset, NEW run \in Runs, written[run] = 0
    PROVE  /\ DOMAIN GraphClaims(run) = {}
           /\ \A i : << run, i >> \notin DOMAIN claims /\ << run, i >> \notin DOMAIN mentions
           /\ \A k \in DOMAIN participant : k[1][1] # run
  <1>1. \A i : << run, i >> \notin DOMAIN claims /\ << run, i >> \notin DOMAIN mentions
    <2>1. \A i : << run, i >>[1] = run
      OBVIOUS
    <2> QED BY <2>1 DEF Unwritten
  <1>2. \A k \in DOMAIN participant : k[1] \in DOMAIN claims
    BY TypeParts DEF GraphOK, Partial
  <1>3. \A k \in DOMAIN participant : k[1][1] # run
    BY <1>2 DEF Unwritten
  <1> QED BY <1>1, <1>3 DEF GraphClaims

\* The transaction of an extraction is counted.
LEMMA OneMore ==
    ASSUME TypeInv, NEW j \in Jobs, WriteExtraction(j)
    PROVE  /\ written[RunOf(j)] \in Nat
           /\ written'[RunOf(j)] = written[RunOf(j)] + 1
  BY TypeParts, JobTypes DEF WriteExtraction, GraphOK

\* A run no extraction wrote has no nodes.
LEMMA UnwrittenStep == TypeInv /\ Unwritten /\ [Next]_vars => Unwritten'
  <1> SUFFICES ASSUME TypeInv, Unwritten, [Next]_vars, NoReset', NEW run \in Runs, written'[run] = 0
               PROVE  /\ \A n \in DOMAIN claims' : n[1] # run
                      /\ \A n \in DOMAIN mentions' : n[1] # run
    BY DEF Unwritten
  <1>1. ~Reset /\ NoReset
    BY GrowsUnlessReset, TypeParts, SpendTypes DEF NoReset, Reset, FilesOK, Bounds
  <1>2. \A j \in Jobs : WriteExtraction(j) => RunOf(j) # run
    BY OneMore
  <1>3. /\ \A n : n[1] = run => (n \in DOMAIN claims' <=> n \in DOMAIN claims)
        /\ \A n : n[1] = run => (n \in DOMAIN mentions' <=> n \in DOMAIN mentions)
        /\ written'[run] = written[run]
    BY <1>1, <1>2, GraphRowsStay
  <1> QED BY <1>1, <1>3 DEF Unwritten

\* Until a second extraction, what was read is what is there.
LEMMA FirstReadingStep ==
    TypeInv /\ Unwritten /\ FirstReading /\ [Next]_vars => FirstReading'
  <1> SUFFICES ASSUME TypeInv, Unwritten, FirstReading, [Next]_vars, NoReset',
                      NEW k \in Jobs, written'[RunOf(k)'] <= 1
               PROVE  /\ pc'[k] = "readMentions" =>
                            \/ DOMAIN claimRows'[k] = {}
                            \/ claimRows'[k] = GraphClaims(RunOf(k))'
                      /\ pc'[k] = "writeEdges" =>
                            \/ DOMAIN claimRows'[k] = {}
                            \/ /\ claimRows'[k] = GraphClaims(RunOf(k))'
                               /\ mentionRows'[k] = GraphMentions(RunOf(k))'
    BY DEF FirstReading
  <1>0. PICK run \in Runs : JobsOK /\ run = RunOf(k)
    BY TypeParts, JobTypes
  <1>1. ~Reset /\ NoReset
    BY GrowsUnlessReset, TypeParts, SpendTypes DEF NoReset, Reset, FilesOK, Bounds
  <1>2. ASSUME Same(k)
        PROVE  /\ pc'[k] = "readMentions" =>
                    \/ DOMAIN claimRows'[k] = {}
                    \/ claimRows'[k] = GraphClaims(RunOf(k))'
               /\ pc'[k] = "writeEdges" =>
                    \/ DOMAIN claimRows'[k] = {}
                    \/ /\ claimRows'[k] = GraphClaims(RunOf(k))'
                       /\ mentionRows'[k] = GraphMentions(RunOf(k))'
    <2>1. RunOf(k)' = run
      BY <1>0, <1>2 DEF Same, RunOf
    <2>2. CASE \A j \in Jobs : WriteExtraction(j) => RunOf(j) # run
      <3>1. /\ GraphClaims(run)' = GraphClaims(run) /\ GraphMentions(run)' = GraphMentions(run)
            /\ written'[run] = written[run]
        BY <1>0, <1>1, <2>2, GraphRowsStay
      <3>2. GraphClaims(RunOf(k))' = GraphClaims(run) /\ GraphMentions(RunOf(k))' = GraphMentions(run)
        BY <2>1, <3>1 DEF GraphClaims, GraphMentions
      <3> QED BY <1>0, <1>1, <1>2, <2>1, <3>1, <3>2 DEF Same, FirstReading
    <2>3. ASSUME NEW j \in Jobs, WriteExtraction(j), RunOf(j) = run,
                 pc'[k] \in {"readMentions", "writeEdges"}
          PROVE  DOMAIN claimRows'[k] = {}
      <3>1. written[run] = 0
        BY <2>1, <2>3, OneMore
      <3>2. DOMAIN claimRows[k] = {} \/ claimRows[k] = GraphClaims(run)
        BY <1>0, <1>1, <1>2, <2>3, <3>1 DEF FirstReading, Same
      <3>3. DOMAIN GraphClaims(run) = {}
        BY <1>0, <1>1, <3>1, UnwrittenRows
      <3> QED BY <1>2, <3>2, <3>3 DEF Same
    <2> QED BY <2>2, <2>3
  <1>3. CASE \E j \in Jobs : Quiet(j)
    BY <1>2, <1>3 DEF Quiet, Others
  <1>4. CASE \E j \in Jobs : Loud(j)
    <2>1. PICK j \in Jobs : Loud(j)
      BY <1>4
    <2>2. CASE k # j
      BY <1>2, <2>1, <2>2, LoudSteps DEF Others
    <2>3. CASE k = j
      <3>1. RunOf(k)' = run
        BY <1>0, <2>1, <2>3, LoudSteps DEF RunOf
      <3>2. CASE ReadClaims(k)
        <4>1. /\ claimRows'[k] = GraphClaims(run) /\ pc'[k] = "readMentions"
              /\ UNCHANGED << claims, supportedBy >>
          BY <1>0, <3>2, ReadClaimsFacts DEF ReadClaims, Goto, JobsOK, graphVars
        <4>2. GraphClaims(RunOf(k))' = GraphClaims(run)
          BY <3>1, <4>1 DEF GraphClaims, ChunksOf
        <4> QED BY <4>1, <4>2
      <3>3. CASE ReadMentions(k)
        <4>1. /\ mentionRows'[k] = GraphMentions(run) /\ pc'[k] = "writeEdges"
              /\ pc[k] = "readMentions"
              /\ UNCHANGED << claimRows, claims, supportedBy, mentions, mentionedIn, written >>
          BY <1>0, <3>3, ReadMentionsFacts DEF ReadMentions, Goto, JobsOK, graphVars, history
        <4>2. /\ GraphClaims(RunOf(k))' = GraphClaims(run)
              /\ GraphMentions(RunOf(k))' = GraphMentions(run)
          BY <3>1, <4>1 DEF GraphClaims, GraphMentions, ChunksOf
        <4>3. DOMAIN claimRows[k] = {} \/ claimRows[k] = GraphClaims(run)
          BY <1>0, <1>1, <3>1, <4>1 DEF FirstReading
        <4> QED BY <4>1, <4>2, <4>3
      <3>4. CASE ~(ReadClaims(k) \/ ReadMentions(k))
        BY <1>0, <2>1, <2>3, <3>4
           DEF Loud, Extract, WriteExtraction, WriteEdges, SaveMetrics, Goto, JobsOK
      <3> QED BY <3>2, <3>3, <3>4
    <2> QED BY <2>2, <2>3
  <1>5. CASE UNCHANGED vars \/ (\E r \in Runs : Ingest(r))
    BY <1>2, <1>5, AllSame
  <1> QED BY <1>1, <1>3, <1>4, <1>5, StepKinds

\* The first extraction of a run leaves the rows it wrote.
LEMMA FirstExtraction ==
    ASSUME TypeInv, MemoryTrue, Unwritten, NoReset, NEW j \in Jobs, NEW run \in Runs,
           WriteExtraction(j), run = RunOf(j), written[run] = 0
    PROVE  GraphClaims(run)' = claimRows[j] /\ GraphMentions(run)' = mentionRows[j]
  <1>1. /\ RowsOfChunks(run, claimRows[j]) /\ RowsOfChunks(run, mentionRows[j])
        /\ supportedBy' = supportedBy \cup LinksOf(run, claimRows[j])
        /\ mentionedIn' = mentionedIn \cup LinksOf(run, mentionRows[j])
    BY DEF MemoryTrue, WriteExtraction
  <1>2. /\ Partial(claimRows[j], ClaimIds, ClaimRow) /\ IsFunction(claimRows[j])
        /\ Partial(mentionRows[j], MentionIds, MentionRow) /\ IsFunction(mentionRows[j])
    BY JobTypes DEF RowsOK
  <1>3. \A i : << run, i >> \notin DOMAIN claims /\ << run, i >> \notin DOMAIN mentions
    BY UnwrittenRows
  <1>4. /\ \A i : << run, i >> \in DOMAIN claims' <=> i \in DOMAIN claimRows[j]
        /\ \A i : << run, i >> \in DOMAIN mentions' <=> i \in DOMAIN mentionRows[j]
    BY <1>3, ExtractionGraph
  <1>5. \A i, c : /\ << << run, i >>, c >> \notin supportedBy
                  /\ << << run, i >>, c >> \notin mentionedIn
    BY <1>3, TypeParts DEF GraphOK
  <1>6. ASSUME NEW i \in DOMAIN claimRows[j]
        PROVE  /\ claims'[<< run, i >>] = claimRows[j][i].slots
               /\ ChunksOf(supportedBy, << run, i >>)' = claimRows[j][i].chunks
    <2>1. claimRows[j][i].slots \in [Roles -> Texts \cup {NoText}]
          /\ claimRows[j][i].chunks \subseteq Chunks
      BY <1>2, RowFacts DEF Partial
    <2>2. claims'[<< run, i >>] = NewSlots(<< run, i >>, claimRows[j][i])
      BY ExtractionGraph
    <2>3. claims'[<< run, i >>] = claimRows[j][i].slots
      BY <1>3, <2>1, <2>2 DEF NewSlots
    <2>4. ASSUME NEW c, << << run, i >>, c >> \in LinksOf(run, claimRows[j])
          PROVE  c \in claimRows[j][i].chunks
      <3>0. \A rows : \A l \in LinksOf(run, rows) :
                \E x \in DOMAIN rows : \E d \in rows[x].chunks :
                    << run, d >> \in chunks /\ l = << << run, x >>, d >>
        BY LinkOf
      <3>1. PICK x \in DOMAIN claimRows[j] : \E d \in claimRows[j][x].chunks :
                << run, d >> \in chunks /\ << << run, i >>, c >> = << << run, x >>, d >>
        BY <2>4, <3>0
      <3>2. x = i /\ c \in claimRows[j][x].chunks
        BY <3>1
      <3> QED BY <3>2
    <2>5. ASSUME NEW c \in claimRows[j][i].chunks
          PROVE  << << run, i >>, c >> \in LinksOf(run, claimRows[j])
      BY <1>1, LinkWritten DEF RowsOfChunks
    <2>6. \A c : << << run, i >>, c >> \in supportedBy' <=> c \in claimRows[j][i].chunks
      BY <1>1, <1>5, <2>4, <2>5
    <2> QED BY <2>1, <2>3, <2>6 DEF ChunksOf
  <1>7. ASSUME NEW i \in DOMAIN mentionRows[j]
        PROVE  /\ mentions'[<< run, i >>] = mentionRows[j][i].name
               /\ ChunksOf(mentionedIn, << run, i >>)' = mentionRows[j][i].chunks
    <2>1. mentionRows[j][i].chunks \subseteq Chunks
      BY <1>2, RowFacts DEF Partial
    <2>2. mentions'[<< run, i >>] = mentionRows[j][i].name
      BY ExtractionGraph
    <2>4. ASSUME NEW c, << << run, i >>, c >> \in LinksOf(run, mentionRows[j])
          PROVE  c \in mentionRows[j][i].chunks
      <3>0. \A rows : \A l \in LinksOf(run, rows) :
                \E x \in DOMAIN rows : \E d \in rows[x].chunks :
                    << run, d >> \in chunks /\ l = << << run, x >>, d >>
        BY LinkOf
      <3>1. PICK x \in DOMAIN mentionRows[j] : \E d \in mentionRows[j][x].chunks :
                << run, d >> \in chunks /\ << << run, i >>, c >> = << << run, x >>, d >>
        BY <2>4, <3>0
      <3>2. x = i /\ c \in mentionRows[j][x].chunks
        BY <3>1
      <3> QED BY <3>2
    <2>5. ASSUME NEW c \in mentionRows[j][i].chunks
          PROVE  << << run, i >>, c >> \in LinksOf(run, mentionRows[j])
      BY <1>1, LinkWritten DEF RowsOfChunks
    <2>6. \A c : << << run, i >>, c >> \in mentionedIn' <=> c \in mentionRows[j][i].chunks
      BY <1>1, <1>5, <2>4, <2>5
    <2> QED BY <2>1, <2>2, <2>6 DEF ChunksOf
  <1>8. GraphClaims(run)' = claimRows[j]
    <2>1. { i \in ClaimIds : << run, i >> \in DOMAIN claims' } = DOMAIN claimRows[j]
      BY <1>2, <1>4 DEF Partial
    <2>2. ASSUME NEW i \in DOMAIN claimRows[j]
          PROVE  [slots |-> claims'[<< run, i >>],
                  chunks |-> ChunksOf(supportedBy, << run, i >>)'] = claimRows[j][i]
      <3>1. claimRows[j][i] = [slots |-> claimRows[j][i].slots, chunks |-> claimRows[j][i].chunks]
        BY <1>2, RowFacts DEF Partial
      <3> QED BY <1>6, <3>1
    <2>3. GraphClaims(run)' = [i \in DOMAIN claimRows[j] |->
                [slots |-> claims'[<< run, i >>], chunks |-> ChunksOf(supportedBy, << run, i >>)']]
      BY <2>1 DEF GraphClaims
    <2> QED BY <1>2, <2>2, <2>3 DEF IsFunction
  <1>9. GraphMentions(run)' = mentionRows[j]
    <2>1. { i \in MentionIds : << run, i >> \in DOMAIN mentions' } = DOMAIN mentionRows[j]
      BY <1>2, <1>4 DEF Partial
    <2>2. ASSUME NEW i \in DOMAIN mentionRows[j]
          PROVE  [name |-> mentions'[<< run, i >>],
                  chunks |-> ChunksOf(mentionedIn, << run, i >>)'] = mentionRows[j][i]
      <3>1. mentionRows[j][i] = [name |-> mentionRows[j][i].name, chunks |-> mentionRows[j][i].chunks]
        BY <1>2, RowFacts DEF Partial
      <3> QED BY <1>7, <3>1
    <2>3. GraphMentions(run)' = [i \in DOMAIN mentionRows[j] |->
                [name |-> mentions'[<< run, i >>], chunks |-> ChunksOf(mentionedIn, << run, i >>)']]
      BY <2>1 DEF GraphMentions
    <2> QED BY <1>2, <2>2, <2>3 DEF IsFunction
  <1> QED BY <1>8, <1>9

\* Writing edges that are there already, with their methods, changes nothing.
LEMMA NothingNew ==
    ASSUME TypeInv, NEW j \in Jobs, WriteEdges(j),
           \A e \in DOMAIN edgeRows[j] :
                /\ Key(RunOf(j), e) \in DOMAIN participant
                /\ participant[Key(RunOf(j), e)] = edgeRows[j][e]
    PROVE  participant' = participant
  <1> DEFINE there == { e \in DOMAIN edgeRows[j] :
                            /\ << RunOf(j), e[1] >> \in DOMAIN claims'
                            /\ << RunOf(j), e[3] >> \in DOMAIN mentions' }
  <1>1. /\ \A k : k \in DOMAIN participant' <=>
                k \in DOMAIN participant \/ \E e \in there : k = Key(RunOf(j), e)
        /\ \A e \in there : participant'[Key(RunOf(j), e)] = edgeRows[j][e]
        /\ \A k \in DOMAIN participant :
                (\A e \in there : k # Key(RunOf(j), e)) => participant'[k] = participant[k]
        /\ IsFunction(participant)'
    BY EdgesAfter
  <1>2. there \subseteq DOMAIN edgeRows[j]
    OBVIOUS
  <1> HIDE DEF there
  <1>3. DOMAIN participant' = DOMAIN participant
    BY <1>1, <1>2
  <1>4. ASSUME NEW k \in DOMAIN participant
        PROVE  participant'[k] = participant[k]
    <2>1. CASE \E e \in there : k = Key(RunOf(j), e)
      BY <1>1, <1>2, <2>1
    <2>2. CASE ~ \E e \in there : k = Key(RunOf(j), e)
      BY <1>1, <2>2
    <2> QED BY <2>1, <2>2
  <1>5. IsFunction(participant)
    BY TypeParts DEF GraphOK
  <1> QED BY <1>1, <1>3, <1>4, <1>5 DEF IsFunction

\* Participation after at most one extraction of its run.
LEMMA RebuildSame ==
    ASSUME TypeInv, EdgesBuilt, AfterReset, FirstReading, ExactUntilRewritten,
           NEW j \in Jobs, WriteEdges(j), written[RunOf(j)] <= 1,
           NoReset \/ j \notin disturbed
    PROVE  participant' = participant
  <1> DEFINE run == RunOf(j)
  <1>1. /\ edgeRows[j] = EdgeRows(claimRows[j], mentionRows[j])
        /\ RowsOK(claimRows[j], mentionRows[j]) /\ run \in Runs
    BY JobTypes DEF EdgesBuilt, Built, WriteEdges
  <1>2. CASE \A i \in DOMAIN claimRows[j] : claimRows[j][i].chunks = {}
    BY <1>1, <1>2, NoClaimsNoEdges, NothingNew
  <1>3. CASE ~NoReset
    BY <1>2, <1>3 DEF AfterReset, WriteEdges
  <1>4. CASE NoReset
    <2>1. DOMAIN claimRows[j] = {} \/ /\ claimRows[j] = GraphClaims(run)
                                      /\ mentionRows[j] = GraphMentions(run)
      BY <1>4 DEF FirstReading, WriteEdges
    <2>2. CASE DOMAIN claimRows[j] = {}
      BY <1>2, <2>2
    <2>3. CASE claimRows[j] = GraphClaims(run) /\ mentionRows[j] = GraphMentions(run)
      <3>1. EdgesExact(run)
        BY <1>1, <1>4 DEF ExactUntilRewritten
      <3>2. \A e \in DOMAIN edgeRows[j] : e \in ClaimIds \X Roles \X MentionIds
        BY <1>1, EdgeRowsFacts
      <3>3. \A e \in DOMAIN edgeRows[j] :
                /\ Key(run, e) \in DOMAIN participant
                /\ participant[Key(run, e)] = edgeRows[j][e]
        BY <1>1, <2>3, <3>1, <3>2 DEF EdgesExact
      <3> QED BY <3>3, NothingNew
    <2> QED BY <2>1, <2>2, <2>3
  <1> QED BY <1>3, <1>4

\* Exact edges stay exact while the rows and edges of the run stay.
LEMMA ExactStay ==
    ASSUME NEW run, EdgesExact(run),
           GraphClaims(run)' = GraphClaims(run), GraphMentions(run)' = GraphMentions(run),
           \A e \in ClaimIds \X Roles \X MentionIds :
                /\ Key(run, e) \in DOMAIN participant' <=> Key(run, e) \in DOMAIN participant
                /\ Key(run, e) \in DOMAIN participant =>
                        participant'[Key(run, e)] = participant[Key(run, e)]
    PROVE  EdgesExact(run)'
  <1> DEFINE rows == EdgeRows(GraphClaims(run), GraphMentions(run))
  <1>1. rows' = rows
    OBVIOUS
  <1>2. \A e \in ClaimIds \X Roles \X MentionIds :
            /\ Key(run, e) \in DOMAIN participant <=> e \in DOMAIN rows
            /\ e \in DOMAIN rows => participant[Key(run, e)] = rows[e]
    BY DEF EdgesExact
  <1>3. \A e \in ClaimIds \X Roles \X MentionIds :
            /\ Key(run, e) \in DOMAIN participant' <=> e \in DOMAIN rows'
            /\ e \in DOMAIN rows' => participant'[Key(run, e)] = rows'[e]
    <2> HIDE DEF rows
    <2> QED BY <1>1, <1>2
  <1> QED BY <1>3 DEF EdgesExact, Key

\* Until a second extraction, each write leaves the edges exact.
LEMMA ExactStep ==
    /\ TypeInv /\ EdgesBuilt /\ AfterReset /\ MemoryTrue /\ Unwritten /\ FirstReading
    /\ ExactUntilRewritten /\ [Next]_vars
    => ExactUntilRewritten'
  <1> SUFFICES ASSUME TypeInv, EdgesBuilt, AfterReset, MemoryTrue, Unwritten, FirstReading,
                      ExactUntilRewritten, [Next]_vars, NoReset', NEW run \in Runs, written'[run] <= 1
               PROVE  EdgesExact(run)'
    BY DEF ExactUntilRewritten
  <1>1. ~Reset /\ NoReset
    BY GrowsUnlessReset, TypeParts, SpendTypes DEF NoReset, Reset, FilesOK, Bounds
  <1>2. ASSUME NEW j \in Jobs, WriteExtraction(j), RunOf(j) = run
        PROVE  EdgesExact(run)'
    <2>1. written[run] = 0
      BY <1>2, OneMore
    <2>2. GraphClaims(run)' = claimRows[j] /\ GraphMentions(run)' = mentionRows[j]
      BY <1>1, <1>2, <2>1, FirstExtraction
    <2>3. edgeRows[j] = EdgeRows(claimRows[j], mentionRows[j]) /\ RowsOK(claimRows[j], mentionRows[j])
      BY <1>2, JobTypes DEF EdgesBuilt, Built, WriteExtraction
    <2>4. \A e \in DOMAIN edgeRows[j] :
            e[1] \in DOMAIN claimRows[j] /\ e[3] \in DOMAIN mentionRows[j]
      BY <2>3, EdgeRowsFacts
    <2>5. \A e \in DOMAIN edgeRows[j] :
            << run, e[1] >> \in DOMAIN claims' /\ << run, e[3] >> \in DOMAIN mentions'
      BY <1>2, <2>4, ExtractionGraph
    <2>6. /\ \A k : k \in DOMAIN participant' <=>
                k \in DOMAIN participant \/ \E e \in DOMAIN edgeRows[j] : k = Key(run, e)
          /\ \A e \in DOMAIN edgeRows[j] : participant'[Key(run, e)] = edgeRows[j][e]
      BY <1>2, <2>5, EdgesAfter
    <2>7. \A k \in DOMAIN participant : k[1][1] # run
      BY <1>1, <2>1, UnwrittenRows
    <2>8. \A d, e : d \in ClaimIds \X Roles \X MentionIds /\ e \in ClaimIds \X Roles \X MentionIds
                    /\ Key(run, d) = Key(run, e) => d = e
      BY DEF Key
    <2>9. DOMAIN edgeRows[j] \subseteq ClaimIds \X Roles \X MentionIds
      BY JobTypes DEF Partial
    <2>10. \A e \in ClaimIds \X Roles \X MentionIds :
            /\ Key(run, e) \in DOMAIN participant' <=> e \in DOMAIN edgeRows[j]
            /\ e \in DOMAIN edgeRows[j] => participant'[Key(run, e)] = edgeRows[j][e]
      BY <2>6, <2>7, <2>8, <2>9, KeyFacts
    <2>11. EdgeRows(GraphClaims(run), GraphMentions(run))' = edgeRows[j]
      BY <2>2, <2>3
    <2> QED BY <2>10, <2>11 DEF EdgesExact, Key
  <1>3. ASSUME \A j \in Jobs : WriteExtraction(j) => RunOf(j) # run
        PROVE  EdgesExact(run)'
    <2>1. /\ GraphClaims(run)' = GraphClaims(run) /\ GraphMentions(run)' = GraphMentions(run)
          /\ written'[run] = written[run]
      BY <1>1, <1>3, GraphRowsStay
    <2>2. EdgesExact(run)
      BY <1>1, <2>1 DEF ExactUntilRewritten
    <2>3. CASE participant' = participant
      BY <2>1, <2>2, <2>3, ExactStay
    <2>4. ASSUME NEW j \in Jobs, WriteExtraction(j) \/ WriteEdges(j), RunOf(j) # run
          PROVE  EdgesExact(run)'
      <3> DEFINE there == { e \in DOMAIN edgeRows[j] :
                                /\ << RunOf(j), e[1] >> \in DOMAIN claims'
                                /\ << RunOf(j), e[3] >> \in DOMAIN mentions' }
      <3>1. /\ \A k : k \in DOMAIN participant' <=>
                    k \in DOMAIN participant \/ \E e \in there : k = Key(RunOf(j), e)
            /\ \A k \in DOMAIN participant :
                    (\A e \in there : k # Key(RunOf(j), e)) => participant'[k] = participant[k]
        BY <2>4, EdgesAfter
      <3>2. \A d, e : Key(run, d) # Key(RunOf(j), e)
        BY <2>4, KeyFacts
      <3> HIDE DEF there
      <3>3. \A e \in ClaimIds \X Roles \X MentionIds :
                /\ Key(run, e) \in DOMAIN participant' <=> Key(run, e) \in DOMAIN participant
                /\ Key(run, e) \in DOMAIN participant =>
                        participant'[Key(run, e)] = participant[Key(run, e)]
        BY <3>1, <3>2
      <3> QED BY <2>1, <2>2, <3>3, ExactStay
    <2>5. ASSUME NEW j \in Jobs, WriteEdges(j), RunOf(j) = run
          PROVE  EdgesExact(run)'
      BY <1>1, <2>1, <2>3, <2>5, RebuildSame
    <2>6. CASE \E j \in Jobs : Loud(j)
      BY <1>3, <2>3, <2>4, <2>5, <2>6
         DEF Loud, Extract, ReadClaims, ReadMentions, SaveMetrics, graphVars
    <2>7. CASE \E j \in Jobs : Quiet(j)
      BY <2>3, <2>7 DEF Quiet, graphVars
    <2>8. CASE \E r \in Runs : Ingest(r)
      BY <2>3, <2>8 DEF Ingest
    <2>9. CASE UNCHANGED vars
      BY <2>3, <2>9 DEF vars, graphVars
    <2> QED BY <1>1, <2>6, <2>7, <2>8, <2>9, StepKinds
  <1> QED BY <1>2, <1>3

-----------------------------------------------------------------------------
(* Namesakes.                                                              *)

\* The edge to a namesake is there exactly if it is the only one.
LEMMA NamesakesLemma == TypeInv /\ ExactUntilRewritten => NamesakesDecide
  <1> SUFFICES ASSUME TypeInv, ExactUntilRewritten, NoReset,
                      NEW claim \in DOMAIN claims, NEW role \in Roles, written[claim[1]] = 1,
                      NEW m \in Namesakes(claim, role)
               PROVE  << claim, role, m >> \in DOMAIN participant <=> Namesakes(claim, role) = {m}
    BY DEF NamesakesDecide
  <1>1. PICK run \in Runs, c \in ClaimIds : claim = << run, c >>
    BY TypeParts DEF GraphOK, Partial, ClaimNodes
  <1>2. /\ m \in DOMAIN mentions /\ m[1] = run /\ mentions[m] = claims[claim][role]
        /\ ChunksOf(supportedBy, claim) \cap ChunksOf(mentionedIn, m) # {}
    BY <1>1 DEF Namesakes
  <1>3. PICK x \in MentionIds : m = << run, x >>
    BY <1>2, TypeParts DEF GraphOK, Partial, MentionNodes
  <1> DEFINE cRows == GraphClaims(run)
             mRows == GraphMentions(run)
             names == NamesFor(cRows[c], mRows)
             text  == cRows[c].slots[role]
             same  == { y \in DOMAIN names : names[y] = text }
             edge  == << c, role, x >>
  <1>4. RowsOK(cRows, mRows)
    BY GraphRowsTypes, TypeParts
  <1>5. /\ c \in DOMAIN cRows /\ cRows[c].slots = claims[claim]
        /\ cRows[c].chunks = ChunksOf(supportedBy, claim)
    BY <1>1 DEF GraphClaims
  <1>6. \A y : y \in DOMAIN mRows <=> y \in MentionIds /\ << run, y >> \in DOMAIN mentions
    BY DEF GraphMentions
  <1>7. \A y \in DOMAIN mRows : /\ mRows[y].name = mentions[<< run, y >>]
                                /\ mRows[y].chunks = ChunksOf(mentionedIn, << run, y >>)
    BY DEF GraphMentions
  <1>8. text \in Texts /\ text = mentions[m]
    BY <1>2, <1>5, TypeParts DEF GraphOK, Partial
  <1> HIDE DEF cRows, mRows
  <1>9. /\ DOMAIN names = Candidates(cRows[c], mRows) /\ IsFiniteSet(DOMAIN names)
        /\ \A y \in DOMAIN names : names[y] = mRows[y].name
    BY <1>4, <1>5, CandidateFacts
  <1>10. \A y : y \in same <=> << run, y >> \in Namesakes(claim, role) /\ y \in MentionIds
    <2> SUFFICES ASSUME NEW y
                 PROVE  y \in same <=> << run, y >> \in Namesakes(claim, role) /\ y \in MentionIds
      OBVIOUS
    <2>1. y \in DOMAIN names <=>
            /\ y \in DOMAIN mRows
            /\ mRows[y].chunks \cap cRows[c].chunks # {}
      BY <1>9 DEF Candidates
    <2>2. y \in same <=> y \in DOMAIN names /\ mRows[y].name = text
      BY <1>9
    <2>3. << run, y >> \in Namesakes(claim, role) <=>
            /\ << run, y >> \in DOMAIN mentions /\ mentions[<< run, y >>] = text
            /\ ChunksOf(supportedBy, claim) \cap ChunksOf(mentionedIn, << run, y >>) # {}
      BY <1>1, <1>5 DEF Namesakes
    <2> HIDE DEF same, names, text
    <2> QED BY <1>5, <1>6, <1>7, <2>1, <2>2, <2>3
  <1>11. x \in same
    BY <1>3, <1>10
  <1>12. \A n \in Namesakes(claim, role) : \E y \in same : n = << run, y >>
    <2>1. \A n \in Namesakes(claim, role) : n \in MentionNodes /\ n[1] = run
      BY <1>1, TypeParts DEF Namesakes, GraphOK, Partial
    <2> HIDE DEF same
    <2> QED BY <1>10, <2>1 DEF MentionNodes
  <1>13. Namesakes(claim, role) = {m} <=> same = {x}
    <2> HIDE DEF same
    <2>1. ASSUME Namesakes(claim, role) = {m} PROVE same = {x}
      BY <1>3, <1>10, <1>11, <2>1
    <2>2. ASSUME same = {x} PROVE Namesakes(claim, role) = {m}
      BY <1>3, <1>12, <2>2
    <2> QED BY <2>1, <2>2
  <1>14. Cardinality(same) = 1 <=> same = {x}
    <2>1. IsFiniteSet(same)
      BY <1>9, FS_Subset
    <2> HIDE DEF same
    <2>2. Cardinality({x}) = 1
      BY FS_Singleton
    <2>3. Cardinality(same) = 1 => \E y : same = {y}
      BY <2>1, FS_Singleton
    <2> QED BY <1>11, <2>2, <2>3
  <1>15. edge \in DOMAIN EdgeRows(cRows, mRows) <=> same = {x}
    <2> DEFINE slot == << c, role >>
               whole == MatchText(text, names)
    <2>1. whole = IF Cardinality(same) = 1
                  THEN [outcome |-> "raw_exact", mentions |-> same]
                  ELSE [outcome |-> "ambiguous", mentions |-> {}]
      BY <1>11, RawDecides
    <2>2. whole.outcome # "none"
      BY <2>1
    <2>3. SlotResult(cRows, mRows, slot) = whole
      BY <2>2 DEF SlotResult, MatchSlot
    <2>4. slot \in SlotsOf(cRows, mRows)
      <3>1. Candidates(cRows[c], mRows) # {}
        BY <1>9, <1>11
      <3> QED BY <1>5, <1>8, <3>1, NoTextAssumption DEF SlotsOf
    <2>5. edge \in DOMAIN EdgeRows(cRows, mRows) <=> x \in whole.mentions
      <3> HIDE DEF whole
      <3>1. edge \in DOMAIN EdgeRows(cRows, mRows) => x \in whole.mentions
        BY <1>4, <2>3, EdgeRowsDomain
      <3>2. x \in whole.mentions => edge \in DOMAIN EdgeRows(cRows, mRows)
        BY <1>4, <2>3, <2>4, EdgeRowsDomain
      <3> QED BY <3>1, <3>2
    <2> HIDE DEF same, whole, edge
    <2> QED BY <1>11, <1>14, <2>1, <2>5
  <1>16. << claim, role, m >> \in DOMAIN participant <=> edge \in DOMAIN EdgeRows(cRows, mRows)
    <2>1. written[run] = 1 /\ EdgesExact(run)
      BY <1>1 DEF ExactUntilRewritten
    <2>2. Key(run, edge) = << claim, role, m >>
      BY <1>1, <1>3 DEF Key
    <2>3. edge \in ClaimIds \X Roles \X MentionIds
      OBVIOUS
    <2> HIDE DEF edge
    <2> QED BY <2>1, <2>2, <2>3 DEF EdgesExact, cRows, mRows
  <1> QED BY <1>13, <1>15, <1>16

-----------------------------------------------------------------------------
(* Reports.                                                                *)

\* Nodes and edges of one run are finitely many.
LEMMA RunFinite ==
    ASSUME NEW run
    PROVE  /\ IsFiniteSet({run} \X ClaimIds) /\ IsFiniteSet({run} \X MentionIds)
           /\ IsFiniteSet(({run} \X ClaimIds) \X Roles \X ({run} \X MentionIds))
  <1>1. IsFiniteSet({run} \X ClaimIds) /\ IsFiniteSet({run} \X MentionIds)
    BY NodesAssumption, FS_Singleton, FS_Product
  <1>2. IsFiniteSet(Roles)
    <2>1. IsFiniteSet({"subject"} \cup {"object"})
      BY FS_Singleton, FS_AddElement
    <2>2. Roles = {"subject"} \cup {"object"}
      BY DEF Roles
    <2> QED BY <2>1, <2>2
  <1> QED BY <1>1, <1>2, TriplesFinite

RunSetsOK ==
    \A run : /\ RunEdges(run) \subseteq ({run} \X ClaimIds) \X Roles \X ({run} \X MentionIds)
             /\ RunClaims(run) \subseteq {run} \X ClaimIds
             /\ RunMentions(run) \subseteq {run} \X MentionIds

\* The edges, claims and mentions of a run are finitely many.
LEMMA RunSets == TypeInv /\ OneRun => RunSetsOK
  <1> SUFFICES ASSUME TypeInv, OneRun, NEW run
               PROVE  /\ RunEdges(run) \subseteq ({run} \X ClaimIds) \X Roles \X ({run} \X MentionIds)
                      /\ RunClaims(run) \subseteq {run} \X ClaimIds
                      /\ RunMentions(run) \subseteq {run} \X MentionIds
    BY DEF RunSetsOK
  <1>0. GraphOK
    BY TypeParts
  <1>1. RunClaims(run) \subseteq {run} \X ClaimIds /\ RunMentions(run) \subseteq {run} \X MentionIds
    BY <1>0 DEF GraphOK, Partial, RunClaims, RunMentions, ClaimNodes, MentionNodes
  <1>2. ASSUME NEW e \in RunEdges(run)
        PROVE  e \in ({run} \X ClaimIds) \X Roles \X ({run} \X MentionIds)
    <2>1. e \in (DOMAIN claims) \X Roles \X (DOMAIN mentions) /\ e[1][1] = run /\ e[3][1] = run
      BY <1>0 DEF GraphOK, Partial, RunEdges, OneRun
    <2>2. e[1] \in RunClaims(run) /\ e[3] \in RunMentions(run)
      BY <2>1 DEF RunClaims, RunMentions
    <2> QED BY <1>1, <2>1, <2>2
  <1> QED BY <1>1, <1>2

\* What a job has written is in the graph.
LEMMA ReportedThere ==
    ASSUME TypeInv, OneRun, NEW j \in Jobs, RowsSaved(RunOf(j), claimRows[j], mentionRows[j])
    PROVE  /\ Reported(j).edges <= Cardinality(RunEdges(RunOf(j)))
           /\ Reported(j).claims <= Cardinality(RunClaims(RunOf(j)))
           /\ Reported(j).mentions <= Cardinality(RunMentions(RunOf(j)))
  <1> DEFINE run == RunOf(j)
             cIds == DOMAIN claimRows[j]
             mIds == DOMAIN mentionRows[j]
             rows == DOMAIN EdgeRows(claimRows[j], mentionRows[j])
  <1>1. RowsOK(claimRows[j], mentionRows[j])
    BY JobTypes
  <1>2. /\ RunEdges(run) \subseteq ({run} \X ClaimIds) \X Roles \X ({run} \X MentionIds)
        /\ RunClaims(run) \subseteq {run} \X ClaimIds
        /\ RunMentions(run) \subseteq {run} \X MentionIds
    BY RunSets DEF RunSetsOK
  <1>3. /\ IsFiniteSet(RunEdges(run)) /\ IsFiniteSet(RunClaims(run))
        /\ IsFiniteSet(RunMentions(run))
    BY <1>2, RunFinite, FS_Subset
  <1>4. Cardinality(cIds) <= Cardinality(RunClaims(run))
    <2> DEFINE f == [i \in cIds |-> << run, i >>]
    <2>1. f \in Injection(cIds, RunClaims(run))
      <3>1. \A i \in cIds : << run, i >> \in RunClaims(run)
        BY DEF RowsSaved, RunClaims
      <3> QED BY <3>1 DEF Injection, IsInjective
    <2> QED BY <1>3, <2>1, FS_Injection
  <1>5. Cardinality(mIds) <= Cardinality(RunMentions(run))
    <2> DEFINE f == [i \in mIds |-> << run, i >>]
    <2>1. f \in Injection(mIds, RunMentions(run))
      <3>1. \A i \in mIds : << run, i >> \in RunMentions(run)
        BY DEF RowsSaved, RunMentions
      <3> QED BY <3>1 DEF Injection, IsInjective
    <2> QED BY <1>3, <2>1, FS_Injection
  <1>6. Cardinality(rows) <= Cardinality(RunEdges(run))
    <2> DEFINE f == [e \in rows |-> Key(run, e)]
    <2>1. \A e \in rows : Key(run, e) \in RunEdges(run)
      BY KeyFacts DEF RowsSaved, RunEdges
    <2>2. ASSUME NEW d \in rows, NEW e \in rows, Key(run, d) = Key(run, e)
          PROVE  d = e
      <3>1. d \in ClaimIds \X Roles \X MentionIds /\ e \in ClaimIds \X Roles \X MentionIds
        BY <1>1, EdgeRowsFacts
      <3> QED BY <2>2, <3>1 DEF Key
    <2>3. f \in Injection(rows, RunEdges(run))
      <3> HIDE DEF rows
      <3> QED BY <2>1, <2>2 DEF Injection, IsInjective
    <2> QED BY <1>3, <2>3, FS_Injection
  <1> HIDE DEF run, cIds, mIds, rows
  <1>7. Reported(j).edges = Cardinality(rows) /\ Reported(j).claims = Cardinality(cIds)
        /\ Reported(j).mentions = Cardinality(mIds)
    BY DEF Reported, EdgeCount, rows, cIds, mIds
  <1> QED BY <1>4, <1>5, <1>6, <1>7 DEF run

\* A larger set still has the number counted.
LEMMA MoreCounted ==
    ASSUME NEW S, NEW T, S \subseteq T, IsFiniteSet(T), NEW n \in Nat, n <= Cardinality(S)
    PROVE  n <= Cardinality(T)
  <1>1. /\ Cardinality(S) <= Cardinality(T) /\ Cardinality(S) \in Nat
        /\ Cardinality(T) \in Nat
    BY SubsetCard
  <1> QED BY <1>1

\* Summaries stay true: each counts rows just written, and the graph grows.
LEMMA SummariesTrueStep ==
    TypeInv /\ OneRun /\ MemoryTrue /\ SummariesTrue /\ [Next]_vars => SummariesTrue'
  <1> SUFFICES ASSUME TypeInv, OneRun, MemoryTrue, SummariesTrue, [Next]_vars, NoReset',
                      NEW k \in DOMAIN summary'
               PROVE  /\ summary'[k].edges <= Cardinality(RunEdges(k[2])')
                      /\ summary'[k].claims <= Cardinality(RunClaims(k[2])')
                      /\ summary'[k].mentions <= Cardinality(RunMentions(k[2])')
    BY DEF SummariesTrue, RunEdges, RunClaims, RunMentions
  <1>1. Grows /\ NoReset
    BY GrowsUnlessReset, TypeParts DEF NoReset
  <1>2. TypeInv' /\ OneRun'
    BY TypeStep, OneRunStep
  <1> DEFINE run == k[2]
  <1>3. /\ RunEdges(run)' \subseteq ({run} \X ClaimIds) \X Roles \X ({run} \X MentionIds)
        /\ RunClaims(run)' \subseteq {run} \X ClaimIds
        /\ RunMentions(run)' \subseteq {run} \X MentionIds
    <2>1. RunSetsOK'
      BY <1>2, RunSets, PTL
    <2> QED BY <2>1 DEF RunSetsOK, RunEdges, RunClaims, RunMentions
  <1>4. /\ IsFiniteSet(RunEdges(run)') /\ IsFiniteSet(RunClaims(run)')
        /\ IsFiniteSet(RunMentions(run)')
    BY <1>3, RunFinite, FS_Subset
  <1>5. /\ RunEdges(run) \subseteq RunEdges(run)' /\ RunClaims(run) \subseteq RunClaims(run)'
        /\ RunMentions(run) \subseteq RunMentions(run)'
    BY <1>1 DEF Grows, RunEdges, RunClaims, RunMentions
  <1>6. ASSUME k \in DOMAIN summary, summary'[k] = summary[k]
        PROVE  /\ summary'[k].edges <= Cardinality(RunEdges(k[2])')
               /\ summary'[k].claims <= Cardinality(RunClaims(k[2])')
               /\ summary'[k].mentions <= Cardinality(RunMentions(k[2])')
    <2>1. summary[k] \in Summary
      BY <1>6, TypeParts DEF FilesOK, Partial
    <2>2. /\ summary[k].edges \in Nat /\ summary[k].claims \in Nat /\ summary[k].mentions \in Nat
      BY <2>1 DEF Summary
    <2>3. /\ summary[k].edges <= Cardinality(RunEdges(run))
          /\ summary[k].claims <= Cardinality(RunClaims(run))
          /\ summary[k].mentions <= Cardinality(RunMentions(run))
      BY <1>1, <1>6 DEF SummariesTrue
    <2> QED BY <1>4, <1>5, <1>6, <2>2, <2>3, MoreCounted
  <1>7. ASSUME NEW j \in Jobs, NEW report, SaveSummary(j, report),
               /\ report.edges <= Cardinality(RunEdges(RunOf(j)))
               /\ report.claims <= Cardinality(RunClaims(RunOf(j)))
               /\ report.mentions <= Cardinality(RunMentions(RunOf(j)))
        PROVE  /\ summary'[k].edges <= Cardinality(RunEdges(k[2])')
               /\ summary'[k].claims <= Cardinality(RunClaims(k[2])')
               /\ summary'[k].mentions <= Cardinality(RunMentions(k[2])')
    <2> DEFINE here == << task[j].stage, RunOf(j) >>
               new == [x \in {here} |-> report]
    <2>1. summary' = Merge(summary, new) /\ UNCHANGED graphVars
      BY <1>7 DEF SaveSummary
    <2>2. DOMAIN new = {here} /\ new[here] = report
      OBVIOUS
    <2> HIDE DEF new
    <2>5. /\ DOMAIN summary' = (DOMAIN summary) \cup {here}
          /\ summary'[here] = report
          /\ \A x \in (DOMAIN summary) \ {here} : summary'[x] = summary[x]
      <3>1. /\ DOMAIN Merge(summary, new) = (DOMAIN summary) \cup (DOMAIN new)
            /\ \A x \in DOMAIN new : Merge(summary, new)[x] = new[x]
            /\ \A x \in (DOMAIN summary) \ (DOMAIN new) : Merge(summary, new)[x] = summary[x]
        BY MergeFacts
      <3> QED BY <2>1, <2>2, <3>1
    <2>3. CASE k = here
      <3>1. summary'[k] = report
        BY <2>3, <2>5
      <3>2. /\ RunEdges(k[2])' = RunEdges(k[2]) /\ RunClaims(k[2])' = RunClaims(k[2])
            /\ RunMentions(k[2])' = RunMentions(k[2])
        BY <2>1 DEF graphVars, RunEdges, RunClaims, RunMentions
      <3>3. k[2] = RunOf(j)
        BY <2>3
      <3> QED BY <1>7, <3>1, <3>2, <3>3
    <2>4. CASE k # here
      <3>1. k \in DOMAIN summary
        BY <2>4, <2>5
      <3>2. summary'[k] = summary[k]
        BY <2>4, <2>5, <3>1
      <3> QED BY <1>6, <3>1, <3>2
    <2> QED BY <2>3, <2>4
  <1>8. ASSUME NEW j \in Jobs, SaveLiveSummary(j)
        PROVE  /\ summary'[k].edges <= Cardinality(RunEdges(k[2])')
               /\ summary'[k].claims <= Cardinality(RunClaims(k[2])')
               /\ summary'[k].mentions <= Cardinality(RunMentions(k[2])')
    <2>1. RowsSaved(RunOf(j), claimRows[j], mentionRows[j]) /\ SaveSummary(j, Reported(j))
      BY <1>1, <1>8 DEF SaveLiveSummary, MemoryTrue
    <2> QED BY <1>7, <2>1, ReportedThere
  <1>9. ASSUME NEW j \in Jobs, SaveDrySummary(j)
        PROVE  /\ summary'[k].edges <= Cardinality(RunEdges(k[2])')
               /\ summary'[k].claims <= Cardinality(RunClaims(k[2])')
               /\ summary'[k].mentions <= Cardinality(RunMentions(k[2])')
    <2> DEFINE report == [status |-> "dry_run", claims |-> 0, mentions |-> 0, edges |-> 0]
    <2>1. SaveSummary(j, report)
      BY <1>9 DEF SaveDrySummary
    <2>2. /\ RunEdges(RunOf(j)) \subseteq ({RunOf(j)} \X ClaimIds) \X Roles \X ({RunOf(j)} \X MentionIds)
          /\ RunClaims(RunOf(j)) \subseteq {RunOf(j)} \X ClaimIds
          /\ RunMentions(RunOf(j)) \subseteq {RunOf(j)} \X MentionIds
      BY RunSets DEF RunSetsOK
    <2>3. /\ Cardinality(RunEdges(RunOf(j))) \in Nat /\ Cardinality(RunClaims(RunOf(j))) \in Nat
          /\ Cardinality(RunMentions(RunOf(j))) \in Nat
      BY <2>2, RunFinite, SubsetCard
    <2>4. /\ report.edges <= Cardinality(RunEdges(RunOf(j)))
          /\ report.claims <= Cardinality(RunClaims(RunOf(j)))
          /\ report.mentions <= Cardinality(RunMentions(RunOf(j)))
      BY <2>3
    <2> HIDE DEF report
    <2> QED BY <1>7, <2>1, <2>4
  <1>10. CASE UNCHANGED summary
    BY <1>6, <1>10
  <1>11. CASE \E j \in Jobs : JobStep(j)
    <2>1. PICK j \in Jobs : JobStep(j)
      BY <1>11
    <2>2. CASE SaveLiveSummary(j)  BY <1>8, <2>2
    <2>3. CASE SaveDrySummary(j)  BY <1>9, <2>3
    <2>4. CASE ~(SaveLiveSummary(j) \/ SaveDrySummary(j))
      BY <1>10, <2>1, <2>4
         DEF JobStep, Start, StartDry, Extract, ExtractRaises, WriteExtraction, ReadClaims,
             ReadMentions, WriteEdges, SaveMetrics, Crash, fileVars
    <2> QED BY <2>2, <2>3, <2>4
  <1>12. CASE (\E r \in Runs : Ingest(r)) \/ Reset
    BY <1>10, <1>12 DEF Ingest, Reset, fileVars
  <1>13. CASE UNCHANGED vars
    BY <1>10, <1>13 DEF vars, fileVars
  <1> QED BY <1>11, <1>12, <1>13 DEF Next

\* Metrics saved add up.
LEMMA MetricsTrueStep == TypeInv /\ MetricsTrue /\ [Next]_vars => MetricsTrue'
  <1> SUFFICES ASSUME TypeInv, MetricsTrue, [Next]_vars, NEW run \in DOMAIN metricsFile'
               PROVE  MetricsAddUp(metricsFile'[run])
    BY DEF MetricsTrue, MetricsAddUp
  <1>1. CASE UNCHANGED metricsFile
    BY <1>1 DEF MetricsTrue
  <1>2. ASSUME NEW j \in Jobs, SaveMetrics(j)
        PROVE  MetricsAddUp(metricsFile'[run])
    <2> DEFINE new == [r \in {RunOf(j)} |-> MatchMetrics(claimRows[j], mentionRows[j])]
    <2>1. metricsFile' = Merge(metricsFile, new)
      BY <1>2 DEF SaveMetrics
    <2>2. /\ DOMAIN new = {RunOf(j)}
          /\ new[RunOf(j)] = MatchMetrics(claimRows[j], mentionRows[j])
      OBVIOUS
    <2>3. MetricsAddUp(MatchMetrics(claimRows[j], mentionRows[j]))
      BY JobTypes, MetricsLemma
    <2> HIDE DEF new
    <2>4. /\ DOMAIN Merge(metricsFile, new) = (DOMAIN metricsFile) \cup (DOMAIN new)
          /\ \A x \in DOMAIN new : Merge(metricsFile, new)[x] = new[x]
          /\ \A x \in (DOMAIN metricsFile) \ (DOMAIN new) :
                Merge(metricsFile, new)[x] = metricsFile[x]
      BY MergeFacts
    <2>5. CASE run = RunOf(j)
      BY <2>1, <2>2, <2>3, <2>4, <2>5
    <2>6. CASE run # RunOf(j)
      BY <2>1, <2>2, <2>4, <2>6 DEF MetricsTrue
    <2> QED BY <2>5, <2>6
  <1>3. CASE \E j \in Jobs : JobStep(j)
    <2>1. PICK j \in Jobs : JobStep(j)
      BY <1>3
    <2>2. CASE SaveMetrics(j)  BY <1>2, <2>2
    <2>3. CASE ~SaveMetrics(j)
      BY <1>1, <2>1, <2>3
         DEF JobStep, Start, StartDry, Extract, ExtractRaises, WriteExtraction, ReadClaims,
             ReadMentions, WriteEdges, SaveLiveSummary, SaveDrySummary, SaveSummary, Crash, fileVars
    <2> QED BY <2>2, <2>3
  <1>4. CASE (\E r \in Runs : Ingest(r)) \/ Reset
    BY <1>1, <1>4 DEF Ingest, Reset, fileVars
  <1>5. CASE UNCHANGED vars
    BY <1>1, <1>5 DEF vars, fileVars
  <1> QED BY <1>3, <1>4, <1>5 DEF Next

-----------------------------------------------------------------------------
(* The theorems.                                                           *)

IInv ==
    /\ TypeInv /\ EdgesBuilt /\ OneRun /\ AfterReset /\ MemoryTrue /\ FirstReading
    /\ Unwritten /\ ExactUntilRewritten /\ EvidenceShared /\ EdgesJustified
    /\ SummariesTrue /\ MetricsTrue

\* The invariant holds initially.
LEMMA InitIInv == Init => IInv
  <1> SUFFICES ASSUME Init PROVE IInv
    OBVIOUS
  <1>1. TypeInv
    BY TypeInit
  <1>2. /\ DOMAIN claims = {} /\ DOMAIN mentions = {} /\ DOMAIN participant = {}
        /\ DOMAIN summary = {} /\ DOMAIN metricsFile = {} /\ NoReset
        /\ \A j \in Jobs : pc[j] = "idle"
    BY NoRowsFacts DEF Init, NoReset
  <1>3. EdgesBuilt /\ MemoryTrue /\ FirstReading
    BY <1>2 DEF EdgesBuilt, MemoryTrue, FirstReading, Built
  <1>4. OneRun /\ AfterReset /\ Unwritten /\ EvidenceShared /\ EdgesJustified
        /\ SummariesTrue /\ MetricsTrue
    BY <1>2 DEF OneRun, AfterReset, Unwritten, EvidenceShared, EdgesJustified,
                SummariesTrue, MetricsTrue
  <1>5. ExactUntilRewritten
    <2> SUFFICES ASSUME NEW run \in Runs PROVE EdgesExact(run)
      BY DEF ExactUntilRewritten
    <2>1. RowsOK(GraphClaims(run), GraphMentions(run))
      BY <1>1, GraphRowsTypes, TypeParts
    <2>2. DOMAIN GraphClaims(run) = {}
      BY <1>2 DEF GraphClaims
    <2>3. DOMAIN EdgeRows(GraphClaims(run), GraphMentions(run)) = {}
      BY <2>1, <2>2, NoClaimsNoEdges
    <2> QED BY <1>2, <2>3 DEF EdgesExact
  <1> QED BY <1>1, <1>3, <1>4, <1>5 DEF IInv

\* Every step keeps the invariant.
LEMMA StepIInv == IInv /\ [Next]_vars => IInv'
  BY TypeStep, EdgesBuiltStep, OneRunStep, AfterResetStep, MemoryTrueStep, FirstReadingStep,
     UnwrittenStep, ExactStep, EvidenceSharedStep, EdgesJustifiedStep, SummariesTrueStep,
     MetricsTrueStep
  DEF IInv

\* The invariant holds in every reachable state.
LEMMA InductiveInvariant == Spec => []IInv
  BY InitIInv, StepIInv, PTL DEF Spec

\* Nodes, edges, jobs and files have their types, and edges lead from and to nodes
\* that exist, also where a reset met a job between its reads and its write.
THEOREM Types == Spec => []TypeOK
  <1>1. IInv => TypeOK
    BY DEF IInv, TypeInv
  <1> QED BY <1>1, InductiveInvariant, PTL

\* A claim and its participants are of one run and share a chunk of it, however
\* extractions and participation jobs overlap, die and are repeated.
THEOREM ParticipantsShareEvidence == Spec => []EvidenceShared
  <1>1. IInv => EvidenceShared
    BY DEF IInv
  <1> QED BY <1>1, InductiveInvariant, PTL

\* The match_method of an edge is true of the texts of its claim and mention
\* unless an extraction rewrote one of them.
THEOREM MethodsJustified == Spec => []EdgesJustified
  <1>1. IInv => EdgesJustified
    BY DEF IInv
  <1> QED BY <1>1, InductiveInvariant, PTL

\* After one extraction of a run a slot leads to the mention of its name exactly
\* if there is one: nothing is guessed among several.
THEOREM OneNamesake == Spec => []NamesakesDecide
  <1>1. IInv => NamesakesDecide
    BY NamesakesLemma DEF IInv
  <1> QED BY <1>1, InductiveInvariant, PTL

\* Participation metrics add up, and a summary of either stage claims no more
\* claims, mentions and edges than the graph has.
THEOREM ReportsHold == Spec => []ReportsTrue
  <1>1. IInv => ReportsTrue
    <2> SUFFICES ASSUME IInv PROVE ReportsTrue
      OBVIOUS
    <2>1. \A run \in DOMAIN metricsFile : MetricsAddUp(metricsFile[run])
      BY DEF IInv, MetricsTrue
    <2>2. NoReset =>
            \A k \in DOMAIN summary :
                /\ summary[k].edges <= Cardinality({ e \in DOMAIN participant : e[1][1] = k[2] })
                /\ summary[k].claims <= Cardinality({ n \in DOMAIN claims : n[1] = k[2] })
                /\ summary[k].mentions <= Cardinality({ n \in DOMAIN mentions : n[1] = k[2] })
      BY DEF IInv, SummariesTrue, RunEdges, RunClaims, RunMentions
    <2> QED BY <2>1, <2>2 DEF ReportsTrue, MetricsAddUp
  <1> QED BY <1>1, InductiveInvariant, PTL

\* Repeating claim-participation after one extraction of its run changes no edge.
THEOREM RebuildIdempotent == Spec => RebuildChangesNothing
  <1>1. IInv /\ [Next]_vars =>
            [\A j \in Jobs :
                /\ pc[j] = "writeEdges" /\ pc'[j] = "saveMetrics"
                /\ j \notin disturbed /\ written[RunOf(j)] <= 1
                => participant' = participant]_vars
    <2> SUFFICES ASSUME IInv, [Next]_vars, NEW j \in Jobs,
                        pc[j] = "writeEdges", pc'[j] = "saveMetrics",
                        j \notin disturbed, written[RunOf(j)] <= 1
                 PROVE  participant' = participant
      OBVIOUS
    <2>0. TypeInv /\ JobsOK
      BY TypeParts DEF IInv
    <2>1. WriteEdges(j)
      <3>1. ~Same(j)
        BY DEF Same
      <3>2. CASE \E i \in Jobs : Quiet(i)
        BY <3>1, <3>2 DEF Quiet, Others
      <3>3. CASE \E i \in Jobs : Loud(i)
        <4>1. PICK i \in Jobs : Loud(i)
          BY <3>3
        <4>2. i = j
          BY <2>0, <3>1, <4>1, LoudSteps DEF Others
        <4> QED BY <2>0, <4>1, <4>2
               DEF Loud, Extract, WriteExtraction, ReadClaims, ReadMentions, SaveMetrics
      <3> QED BY <2>0, <3>1, <3>2, <3>3, StepKinds, AllSame
    <2> QED BY <2>1, RebuildSame DEF IInv
  <1> QED BY <1>1, InductiveInvariant, PTL DEF Spec, RebuildChangesNothing

=============================================================================
