------------------------- MODULE MentionClustering -------------------------
(***************************************************************************)
(* Clustering as a process: the loop of _cluster_mentions_unstructured_only *)
(* over every sequence of mentions, one mention a step, so that what the    *)
(* registry must keep true between two mentions can be stated.              *)
(***************************************************************************)
EXTENDS ClusterRegistry

CONSTANT MaxMentions \* bound on the length of the input

VARIABLES
    input, \* the mentions so far: their texts and types
    reg    \* the registry after them

vars == << input, reg >>

Init == input = << >> /\ reg = EmptyRegistry

TakeMention(text, type) ==
    /\ Len(input) < MaxMentions
    /\ input' = Append(input, [text |-> text, type |-> type])
    /\ reg' = ClusterMention(reg, Len(input) + 1, text, type)

Next == \E text \in Texts, type \in Types : TakeMention(text, type)

Spec == Init /\ [][Next]_vars

-----------------------------------------------------------------------------
Own(i)     == input[i].text
Holders(k) == { i \in DOMAIN reg.rows : reg.rows[i].text = k }
Holds(t, k) == \E i \in Holders(k) : reg.rows[i].type = t

\* The membership lists of the registry are the inverse of the assignment it
\* returns, and a key is in use exactly when some mention holds it: renaming
\* neither loses a mention nor leaves an empty key behind.
MembersExact ==
    /\ DOMAIN reg.members = reg.seen
    /\ \A k \in reg.seen : reg.members[k] = Holders(k) /\ Holders(k) # {}
    /\ \A i \in DOMAIN reg.rows : reg.rows[i].text \in reg.seen

\* The three per-type indices offer a mention only keys that a mention of its
\* own type already holds, and each once: no mention is put under a key renamed
\* away, or one that only another type uses.
IndicesBacked ==
    /\ \A t \in Types : \A n \in DOMAIN reg.texts[t] : Holds(t, reg.texts[t][n])
    /\ \A t \in Types : IsInjective(reg.texts[t])
    /\ \A p \in reg.abbrev : Holds(p[1], p[2])
    /\ \A p \in DOMAIN reg.initials :
        Holds(p[1], reg.initials[p]) /\ Initials[reg.initials[p]] = p[2]

\* A mention's arrival re-assigns earlier mentions only to its own text, only
\* within its own type, and only away from a key that abbreviates that text.
RenamesOnlyAbbreviations ==
    [][\A i \in DOMAIN input :
        LET new == input'[Len(input')] IN
        reg'.rows[i] # reg.rows[i] =>
            /\ reg.rows[i].type = new.type
            /\ reg'.rows[i].text = new.text
            /\ new.text \in DOMAIN Initials
            /\ Alpha[reg.rows[i].text] = Initials[new.text]]_vars

-----------------------------------------------------------------------------
(* What the documents promise, and when it is so.                          *)

\* Two mentions of the same text and type end in the same cluster.
SameTextTogether ==
    \A i, j \in DOMAIN input : input[i] = input[j] => reg.rows[i].text = reg.rows[j].text

\* A mention recorded as an abbreviation is an initialism of its cluster's text.
AbbreviationIsInitialism ==
    \A i \in DOMAIN reg.rows :
        reg.rows[i].method = "abbreviation" =>
            /\ reg.rows[i].text \in DOMAIN Initials
            /\ Initials[reg.rows[i].text] = Alpha[Own(i)]

\* A short form is never left as the key of its mentions when a mention of
\* the same type spells out a long form with exactly its initials.
LongFormIsKey ==
    \A i, j \in DOMAIN input :
        /\ input[i].type = input[j].type
        /\ Own(j) \in DOMAIN Initials
        /\ Initials[Own(j)] = Alpha[Own(i)]
        /\ Own(i) # Own(j)
        => reg.rows[i].text # Own(i)

\* What may keep the promises from holding: a text met under several types,
\* long forms that share their initials, texts with similar spellings, and a
\* long form whose letters are the initials of a longer one.
OneTypePerText ==
    \A i, j \in DOMAIN input : Own(i) = Own(j) => input[i].type = input[j].type
DistinctInitials ==
    \A i, j \in DOMAIN input :
        Own(i) \in DOMAIN Initials /\ Own(j) \in DOMAIN Initials
            /\ Initials[Own(i)] = Initials[Own(j)] => Own(i) = Own(j)
Dissimilar ==
    \A i, j \in DOMAIN input :
        Own(i) # Own(j) => Ratio[<< Own(i), Own(j) >>] < FuzzyThreshold
Unchained ==
    \A i, j \in DOMAIN input :
        Own(i) \in DOMAIN Initials /\ Own(j) \in DOMAIN Initials
            /\ Initials[Own(j)] = Alpha[Own(i)] => Own(i) = Own(j)

\* Otherwise they hold, in whatever order the mentions come.  A membership
\* recorded as certain ("accepted" downstream) is under the mention's own text,
\* even after other keys were renamed around it; with no similar spellings and
\* no chain of long forms, a membership under the own text is also certain.
CertainIsOwnText ==
    \A i \in DOMAIN reg.rows :
        LET certain == reg.rows[i].method \in {"label_cluster", "normalized_exact"}
            own     == reg.rows[i].text = Own(i)
        IN  /\ certain => own
            /\ Dissimilar /\ Unchained => (own => certain)

\* With texts of one type, distinct initials, no similar spellings and no
\* chain of long forms, equal mentions meet.
SameTextTogetherIfPlain ==
    OneTypePerText /\ DistinctInitials /\ Dissimilar /\ Unchained => SameTextTogether

\* With no similar spellings and no chain of long forms, an abbreviation is
\* always an initialism of the key it was put or renamed under.
AbbreviationIsInitialismIfPlain ==
    Dissimilar /\ Unchained => AbbreviationIsInitialism

\* With texts of one type, no similar spellings and no chain of long forms, a
\* spelled-out long form leaves no short form a key, wherever in the input it
\* stands.
LongFormIsKeyIfPlain ==
    OneTypePerText /\ Dissimilar /\ Unchained => LongFormIsKey
=============================================================================
