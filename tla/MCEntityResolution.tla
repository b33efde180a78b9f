------------------------- MODULE MCEntityResolution -------------------------
(* A small graph for model checking EntityResolution: a short form and its   *)
(* long form (and a QID, where a run uses it), clustered by ClusterRegistry  *)
(* itself, and canonical entities of two structured ingests.                 *)
EXTENDS GraphReaders, TLC

Long == "federal bureau of investigation"

TwoTexts   == {"fbi", Long}
ThreeTexts == {"fbi", Long, "q42"}
OneType    == {"Organization"}
TwoTypes   == {"ORG", "Organization"}
MCNormalizeType == [t \in RawTypes |-> "Organization"]

\* k1 and k2 are nodes for one entity, of two ingests of a dataset.
MCEntity ==
    [k \in Canonicals |->
        CASE k = "k1" -> [dataset |-> "d1", run |-> "s1", rank |-> 1,
                          label |-> Long, aliases |-> {"fbi"}, names |-> {"q42"} \cap Texts]
          [] k = "k2" -> [dataset |-> "d1", run |-> "s2", rank |-> 1,
                          label |-> Long, aliases |-> {}, names |-> {"q42"} \cap Texts]
          [] OTHER    -> [dataset |-> "d2", run |-> "s2", rank |-> 2,
                          label |-> "fbi", aliases |-> {Long}, names |-> {}]]

\* ... which its name, entity_id and entity_type do not tell apart.
MCShown ==
    [k \in Canonicals |->
        IF k \in {"k1", "k2"} THEN [name |-> "FBI", id |-> "Q8333", type |-> "organization"]
                             ELSE [name |-> "fbi", id |-> "Q1", type |-> "organization"]]

Alpha    == [t \in Texts |-> t]
Initials == [t \in Texts \cap {Long} |-> "fbi"]
Ratio    == [p \in Texts \X Texts |-> IF p[1] = p[2] THEN 100 ELSE 0]

Registry == INSTANCE ClusterRegistry WITH Types <- RawTypes

\* Mentions are clustered in the order of their ids, 1, 2, ...
MCClusterRows(S) ==
    LET ids == Registry!SetToSortSeq(DOMAIN S, <)
        rows == Registry!ClusterMentions(
                    [n \in DOMAIN ids |->
                        [text |-> S[ids[n]].text,
                         type |-> NormalizeType[S[ids[n]].type]]])
    IN  [i \in DOMAIN S |->
            rows[CHOOSE n \in DOMAIN ids : ids[n] = i]]

JobSymmetry == Permutations(Jobs)
=============================================================================
