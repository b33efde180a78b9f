------------------------- MODULE MCStructuredIngest ------------------------
(* A small instance of StructuredIngest for TLC. *)
EXTENDS StructuredIngest

EntRow(i) == [id |-> i, ok |-> TRUE]
Fact(i, s) == [id |-> i, subject |-> s, ok |-> TRUE]
Rel(i, s, o) == [id |-> i, subject |-> s, object |-> o, ok |-> TRUE]
Claim(i, type, s, o, source) ==
    [id |-> i, type |-> type, subject |-> s, object |-> o, source |-> source, ok |-> TRUE]
NoRepeats == [f \in Files |-> 0]

\* Facts about unlisted and empty subjects, an unlisted object, repeated rows.
Good ==
    [unreadable |-> {}, repeats |-> [NoRepeats EXCEPT !["facts"] = 1, !["claims"] = 1],
     entities |-> {EntRow("Q1")},
     facts |-> {Fact("F1", "Q1"), Fact("F2", NoId)},
     relationships |-> {Rel("R1", "Q1", "Q2")},
     claims |-> {Claim("C1", "fact", "Q1", NoId, "F1"),
                 Claim("C2", "relationship", "Q1", "Q2", "R1")}]
MCInputs ==
    { Good,
      [Good EXCEPT !.facts = {Fact("F1", "Q1"), Fact("F1", "Q2")}],
      [Good EXCEPT !.unreadable = {"entities"}],
      [Good EXCEPT !.unreadable = {"facts", "relationships"}],
      [Good EXCEPT !.entities = {}],
      [Good EXCEPT !.entities = {[id |-> "Q1", ok |-> FALSE]}],
      [Good EXCEPT !.claims = {Claim("C1", "fact", "Q1", NoId, "F2"),
                               Claim("C2", "relationship", NoId, "Q2", "R1")}],
      [Good EXCEPT !.relationships = {}] }
=============================================================================
