--------------------------- MODULE ClaimMatching ---------------------------
(***************************************************************************)
(* How the subject and object of a claim are matched to entity mentions:   *)
(* build_participation_edges_with_metrics as operators.  Claim and mention *)
(* rows are functions from node keys, so rows are deduplicated as the code *)
(* deduplicates candidates.                                                *)
(***************************************************************************)
EXTENDS Naturals, FiniteSets, Sequences, FiniteSetsExt

CONSTANTS
    Texts,      \* stripped, non-empty slot texts and mention names
    Casefold,   \* str.casefold, as a class of texts
    Normalized, \* normalize_mention_text, as a class of texts
    Parts       \* split_slot_text: the parts of a text, none or at least two

ASSUME TextsAssumption ==
    /\ DOMAIN Casefold = Texts /\ DOMAIN Normalized = Texts
    /\ Parts \in [Texts -> Seq(Texts)]
    /\ \A t \in Texts : Len(Parts[t]) # 1

NoText == "no text"
ASSUME NoTextAssumption == NoText \notin Texts

Roles == {"subject", "object"}
Levels == << "raw_exact", "casefold_exact", "normalized_exact" >>
Methods == {"raw_exact", "casefold_exact", "normalized_exact", "list_split"}

\* What a level compares.
SameText(level, s, t) ==
    CASE level = "raw_exact"        -> s = t
      [] level = "casefold_exact"   -> Casefold[s] = Casefold[t]
      [] level = "normalized_exact" -> Normalized[s] = Normalized[t]

Hits(level, text, names) == { m \in DOMAIN names : SameText(level, text, names[m]) }

\* Fault of the next definition: of several matches one is taken.
MatchedToAny(text, names) ==
    LET found == { k \in 1 .. 3 : Hits(Levels[k], text, names) # {} }
        level == Levels[Min(found)]
    IN  IF found = {} THEN [outcome |-> "none", mentions |-> {}]
        ELSE [outcome |-> level,
              mentions |-> {CHOOSE m \in Hits(level, text, names) : TRUE}]

\* Fault of the next definition: every match is recorded as a raw one.
MatchedAsRaw(text, names) ==
    LET found == { k \in 1 .. 3 : Hits(Levels[k], text, names) # {} }
        hits  == Hits(Levels[Min(found)], text, names)
    IN  CASE found = {} -> [outcome |-> "none", mentions |-> {}]
          [] found # {} /\ Cardinality(hits) = 1 -> [outcome |-> "raw_exact", mentions |-> hits]
          [] OTHER -> [outcome |-> "ambiguous", mentions |-> {}]

\* The first level at which some mention matches decides: one match is taken,
\* several are ambiguous and no weaker level is tried.
MatchText(text, names) ==
    LET found == { k \in 1 .. 3 : Hits(Levels[k], text, names) # {} }
        level == Levels[Min(found)]
        hits  == Hits(level, text, names)
    IN  CASE found = {} -> [outcome |-> "none", mentions |-> {}]
          [] found # {} /\ Cardinality(hits) = 1 -> [outcome |-> level, mentions |-> hits]
          [] OTHER -> [outcome |-> "ambiguous", mentions |-> {}]

\* The parts of a text, by number, that match one mention.
MatchedParts(text, names) ==
    { k \in DOMAIN Parts[text] : MatchText(Parts[text][k], names).mentions # {} }

\* Only a text that matches nothing as a whole is split.
MatchSlot(text, names) ==
    LET whole == MatchText(text, names)
        parts == MatchedParts(text, names)
    IN  IF whole.outcome # "none" THEN whole
        ELSE [outcome  |-> IF parts = {} THEN "unmatched" ELSE "list_split",
              mentions |-> UNION { MatchText(Parts[text][k], names).mentions : k \in parts }]

-----------------------------------------------------------------------------
(* Rows.  A claim row is [slots, chunks], a mention row [name, chunks].    *)

\* Fault of the next definition: every mention of the run is a candidate.
CandidatesInRun(claim, mentionRows) == DOMAIN mentionRows

\* Mentions in a chunk of the claim.
Candidates(claim, mentionRows) ==
    { m \in DOMAIN mentionRows : mentionRows[m].chunks \cap claim.chunks # {} }

NamesFor(claim, mentionRows) ==
    [m \in Candidates(claim, mentionRows) |-> mentionRows[m].name]

\* The slots that are matched, those of claims without candidates left out.
SlotsOf(claimRows, mentionRows) ==
    { s \in (DOMAIN claimRows) \X Roles :
        /\ Candidates(claimRows[s[1]], mentionRows) # {}
        /\ claimRows[s[1]].slots[s[2]] # NoText }

SlotResult(claimRows, mentionRows, s) ==
    MatchSlot(claimRows[s[1]].slots[s[2]], NamesFor(claimRows[s[1]], mentionRows))

\* build_participation_edges: the method of each <<claim, role, mention>>.
EdgeRows(claimRows, mentionRows) ==
    LET slots == SlotsOf(claimRows, mentionRows)
        edges == UNION { { << s[1], s[2], m >> :
                             m \in SlotResult(claimRows, mentionRows, s).mentions } :
                         s \in slots }
    IN  [e \in edges |-> SlotResult(claimRows, mentionRows, << e[1], e[2] >>).outcome]

Metrics ==
    [claims : Nat, slots : Nat, edges : Nat, exact : Nat, unmatched : Nat,
     ambiguous : Nat, full : Nat, partial : Nat, noSuccess : Nat,
     matchedParts : Nat, withEdge : Nat]

\* Fault of the next definition: no dedup of the mentions of one slot.
EdgesCounted(claimRows, mentionRows) ==
    MapThenSumSet(
        LAMBDA s : LET text == claimRows[s[1]].slots[s[2]]
                       names == NamesFor(claimRows[s[1]], mentionRows)
                   IN  IF MatchText(text, names).outcome # "none"
                       THEN Cardinality(MatchText(text, names).mentions)
                       ELSE Cardinality(MatchedParts(text, names)),
        SlotsOf(claimRows, mentionRows))
EdgeCount(claimRows, mentionRows) == Cardinality(DOMAIN EdgeRows(claimRows, mentionRows))

\* ParticipationMatchMetrics; samples are left out.
MatchMetrics(claimRows, mentionRows) ==
    LET slots      == SlotsOf(claimRows, mentionRows)
        result(s)  == SlotResult(claimRows, mentionRows, s)
        text(s)    == claimRows[s[1]].slots[s[2]]
        split      == { s \in slots : result(s).outcome \in {"unmatched", "list_split"} }
        parts(s)   == MatchedParts(text(s), NamesFor(claimRows[s[1]], mentionRows))
        matched(s) == Cardinality(parts(s))
        several    == { s \in split : Len(Parts[text(s)]) >= 2 }
        number(S)  == Cardinality(S)
    IN  [claims    |-> number(DOMAIN claimRows),
         slots     |-> number(slots),
         edges     |-> EdgeCount(claimRows, mentionRows),
         exact     |-> number({ s \in slots : result(s).outcome \in Methods \ {"list_split"} }),
         unmatched |-> number({ s \in split : matched(s) = 0 }),
         ambiguous |-> number({ s \in slots : result(s).outcome = "ambiguous" }),
         full      |-> number({ s \in several : matched(s) = Len(Parts[text(s)]) }),
         partial   |-> number({ s \in several : matched(s) \in 1 .. Len(Parts[text(s)]) - 1 }),
         noSuccess |-> number({ s \in several : matched(s) = 0 }),
         matchedParts |-> number(UNION { {s} \X parts(s) : s \in split }),
         withEdge  |-> number({ e[1] : e \in DOMAIN EdgeRows(claimRows, mentionRows) })]
=============================================================================
