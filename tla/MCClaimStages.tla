--------------------------- MODULE MCClaimStages ---------------------------
(* A small instance of ClaimStages for TLC. *)
EXTENDS ClaimStages, TLC

CONSTANTS j1, j2

\* "Uber", "uber", "Uber" with a diacritic, "Uber and Lyft", "Lyft".
MCTexts == {"Uber", "uber", "Uuber", "Uber and Lyft", "Uber and Uber", "Lyft"}
MCCasefold == [t \in MCTexts |-> IF t = "Uber" THEN "uber" ELSE t]
MCNormalized == [t \in MCTexts |-> IF t \in {"Uber", "Uuber"} THEN "uber" ELSE t]
MCParts == [t \in MCTexts |-> CASE t = "Uber and Lyft" -> << "Uber", "Lyft" >>
                              [] t = "Uber and Uber" -> << "Uber", "Uber" >>
                              [] OTHER -> << >>]

Claim(subject, object, in) ==
    [slots |-> [role \in Roles |-> IF role = "subject" THEN subject ELSE object],
     chunks |-> in]
Mention(name, in) == [name |-> name, chunks |-> in]

\* A list, its members and a variant; two namesakes; names in both chunks; a
\* second reading of the same chunks with other names and a missing slot.
MCOutputs ==
    { [claims |-> ("c1" :> Claim("Uber and Lyft", "Uuber", {1})),
       mentions |-> ("m1" :> Mention("uber", {1})) @@ ("m2" :> Mention("Lyft", {1}))],
      [claims |-> ("c1" :> Claim("Uber", NoText, {1, 2})),
       mentions |-> ("m1" :> Mention("Uber", {1, 2})) @@ ("m2" :> Mention("Lyft", {2}))],
      [claims |-> ("c1" :> Claim("Lyft", "Uber", {1})),
       mentions |-> ("m1" :> Mention("Uber", {1})) @@ ("m2" :> Mention("Uber", {1}))],
      [claims |-> ("c1" :> Claim("Uber and Lyft", "Uber", {1})),
       mentions |-> ("m1" :> Mention("Uber and Lyft", {1})) @@ ("m2" :> Mention("Uber", {2}))],
      [claims |-> ("c1" :> Claim("Uber and Uber", "Uber", {1})),
       mentions |-> ("m1" :> Mention("Uber", {1}))] }
JobSymmetry == Permutations({j1, j2})
=============================================================================
