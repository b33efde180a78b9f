------------------------ MODULE MCMentionClustering ------------------------
(* Texts for model checking MentionClustering: a short form in two spellings *)
(* with the same letters, two long forms with these initials, a word with a  *)
(* near-identical spelling, a long form that has it as its initials, and a   *)
(* chain: a short form, a long form of it, and a text that has the letters   *)
(* of this long form as its initials and as its own letters.                 *)
EXTENDS MentionClustering

MCTypes == {"Organization", "Product"}
OneType == {"Organization"}

BureauTexts  == {"fbi", "f.b.i.", "federal bureau of investigation"}
FooBarTexts  == {"foo bar industries"}
UnicefTexts  == {"unicef", "unicefs"}
FundTexts    == {"united nations international childrens emergency fund"}

ChainTexts   == {"xp", "xry pln", "x r y p l n"}

AllTexts ==
    BureauTexts \cup ChainTexts \cup FooBarTexts \cup UnicefTexts \cup FundTexts

Letters(t) ==
    CASE t \in {"fbi", "f.b.i."} -> "fbi"
      [] t = "xp" -> "xp"
      [] t \in {"xry pln", "x r y p l n"} -> "xrypln"
      [] t = "unicef"  -> "unicef"
      [] t = "unicefs" -> "unicefs"
      [] t = "federal bureau of investigation" -> "federalbureauofinvestigation"
      [] t = "foo bar industries" -> "foobarindustries"
      [] OTHER -> "unitednationsinternationalchildrensemergencyfund"

FirstLetters(t) ==
    CASE t \in {"federal bureau of investigation", "foo bar industries"} -> "fbi"
      [] t = "xry pln" -> "xp"
      [] t = "x r y p l n" -> "xrypln"
      [] OTHER -> "unicef"

MCAlpha    == [t \in Texts |-> Letters(t)]
MCInitials ==
    [t \in Texts \cap (FooBarTexts \cup FundTexts \cup
                       {"federal bureau of investigation",
                        "xry pln", "x r y p l n"}) |->
        FirstLetters(t)]

\* SequenceMatcher: 12 of 13 letters in common; below the threshold otherwise.
MCRatio ==
    [p \in Texts \X Texts |->
        IF p[1] = p[2] THEN 100
        ELSE IF {p[1], p[2]} = UnicefTexts THEN 92 ELSE 0]
=============================================================================
