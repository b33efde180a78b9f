-------------------------- MODULE ClusterRegistry --------------------------
(***************************************************************************)
(* The pure algorithm of _cluster_mentions_unstructured_only: mentions are *)
(* taken one at a time in mention_id order, and a registry of cluster keys *)
(* decides whether each joins a cluster (same text, initialism, similar    *)
(* text), renames clusters after a long form, or starts one.               *)
(* A text is its normalized form; its letters, its initials and the        *)
(* similarity ratio are data, given as functions.                          *)
(***************************************************************************)
EXTENDS Naturals, Sequences, SequencesExt, Sublists

CONSTANTS
    Texts,    \* normalized names
    Types,    \* normalized entity types, "none" for the absent one included
    Alpha,    \* the letters of a text: Texts -> STRING
    Initials, \* _compute_initials, on the texts that have at least two words
    Ratio     \* SequenceMatcher ratio of two texts, in percent

FuzzyThreshold == 85

ASSUME TextAssumption ==
    /\ DOMAIN Alpha = Texts
    /\ DOMAIN Initials \subseteq Texts
    /\ Ratio \in [Texts \X Texts -> 0 .. 100]

\* rows      mention_to_cluster, mention_to_method and mention_to_type
\* seen      seen_keys: keys in use, of every type together
\* members   cluster_to_mentions
\* texts     seen_texts_by_type, in the order the fuzzy scan follows
\* abbrev    abbrev_alpha_by_type, as the set of its (type, key) pairs; the
\*           bucket a key is in is given by its letters
\* initials  initials_to_long_by_type, by (type, initials)
EmptyRegistry ==
    [rows |-> << >>, seen |-> {}, members |-> << >>,
     texts |-> [t \in Types |-> << >>], abbrev |-> {}, initials |-> << >>]

Put(f, x, v) == [y \in DOMAIN f \cup {x} |-> IF y = x THEN v ELSE f[y]]
PutIfAbsent(f, x, v) == IF x \in DOMAIN f THEN f ELSE Put(f, x, v)
MembersOf(reg, key) == IF key \in DOMAIN reg.members THEN reg.members[key] ELSE {}

Assign(reg, i, key, type, method, confidence) ==
    [reg EXCEPT
        !.rows = Put(@, i, [text |-> key, type |-> type, method |-> method,
                            confidence |-> confidence]),
        !.members = Put(@, key, MembersOf(reg, key) \cup {i})]

-----------------------------------------------------------------------------
\* Fault of the next definition: a long form is not registered under its initials.
RegisterWithoutInitials(reg, key, type) ==
    [reg EXCEPT
        !.seen = @ \cup {key},
        !.texts[type] = Append(@, key),
        !.abbrev = @ \cup {<< type, key >>}]

\* A new key replaces whatever its initials stood for.
RegisterNewCluster(reg, key, type) ==
    [reg EXCEPT
        !.seen = @ \cup {key},
        !.texts[type] = Append(@, key),
        !.abbrev = @ \cup {<< type, key >>},
        !.initials = IF key \in DOMAIN Initials
                     THEN Put(@, << type, Initials[key] >>, key) ELSE @]

\* A key met under one more type keeps what its initials stand for there.
RegisterClusterForType(reg, key, type) ==
    [reg EXCEPT
        !.texts[type] = IF Contains(@, key) THEN @ ELSE Append(@, key),
        !.abbrev = @ \cup {<< type, key >>},
        !.initials = IF key \in DOMAIN Initials
                     THEN PutIfAbsent(@, << type, Initials[key] >>, key) ELSE @]

\* The first occurrence of every element, in order.
WithoutRepeats(s) == Kept(s, { n \in DOMAIN s : \A m \in DOMAIN s : m < n => s[m] # s[n] })

\* Promotion, in parts that a fault would get wrong.  What moves: the mentions
\* of one type that hold a short key (fault: of every type).
HoldersOfAnyType(reg, shorts, type) == UNION { MembersOf(reg, s) : s \in shorts }
Moved(reg, shorts, type) ==
    { i \in DOMAIN reg.rows :
        reg.rows[i].type = type /\ \E s \in shorts : i \in MembersOf(reg, s) }

\* What goes: the keys no mention holds any more (fault: all of them).
AllShorts(reg, shorts, moved) == shorts
Emptied(reg, shorts, moved) == { s \in shorts : MembersOf(reg, s) \subseteq moved }

\* What a long form may replace later (fault: renamed keys are among it).
AbbrevKept(reg, shorts, long, type) == reg.abbrev \cup {<< type, long >>}
AbbrevAfter(reg, shorts, long, type) ==
    (reg.abbrev \ ({type} \X shorts)) \cup {<< type, long >>}

\* The method of a renamed mention (fault: that of its first assignment).
FirstMethod(reg, i) == reg.rows[i].method
MethodAfter(reg, i) == "abbreviation"

\* Whose initials lead where (fault: not to the long form).
InitialsWithoutShorts(reg, shorts, long, type) ==
    [p \in { p \in DOMAIN reg.initials :
               ~(p[1] = type /\ reg.initials[p] \in shorts) } |-> reg.initials[p]]
InitialsAfter(reg, shorts, long, type) ==
    Put(InitialsWithoutShorts(reg, shorts, long, type), << type, Initials[long] >>, long)

\* Every key of `shorts' is renamed to `long', for the mentions of one type;
\* a key that keeps mentions of other types stays in use for them.
PromoteLongForm(reg, shorts, long, type) ==
    LET moved == Moved(reg, shorts, type)
        empty == Emptied(reg, shorts, moved)
        renamed == [n \in DOMAIN reg.texts[type] |->
                      IF reg.texts[type][n] \in shorts THEN long
                                                       ELSE reg.texts[type][n]]
    IN  [reg EXCEPT
            !.rows = [i \in DOMAIN @ |->
                        IF i \in moved THEN [text |-> long, type |-> type,
                                            method |-> MethodAfter(reg, i),
                                            confidence |-> 75]
                                      ELSE @[i]],
            !.seen = (@ \cup {long}) \ empty,
            !.members = [k \in (DOMAIN @ \cup {long}) \ empty |->
                           IF k = long THEN MembersOf(reg, long) \cup moved
                                       ELSE MembersOf(reg, k) \ moved],
            !.texts[type] = IF renamed = @ THEN @ ELSE WithoutRepeats(renamed),
            !.abbrev = AbbrevAfter(reg, shorts, long, type),
            !.initials = InitialsAfter(reg, shorts, long, type)]

-----------------------------------------------------------------------------
\* One mention of `text' with normalized type `type', by the first rule that
\* applies.
\* Fault of the next definition: any long form of the type is offered, whatever its initials.
AllLongForms(reg, text, type) ==
    { reg.initials[p] : p \in { p \in DOMAIN reg.initials : p[1] = type } }

LongForms(reg, text, type) ==
    { reg.initials[p] : p \in DOMAIN reg.initials \cap {<< type, Alpha[text] >>} }

AbbreviatedKeys(reg, text, type) ==
    { k \in Texts : /\ text \in DOMAIN Initials
                    /\ << type, k >> \in reg.abbrev
                    /\ Alpha[k] = Initials[text] }

FirstSimilar(reg, text, type) ==
    SelectInSeq(reg.texts[type], LAMBDA k : Ratio[<< text, k >>] >= FuzzyThreshold)

ClusterMention(reg, i, text, type) ==
    LET longs  == LongForms(reg, text, type)
        shorts == AbbreviatedKeys(reg, text, type)
        n      == FirstSimilar(reg, text, type)
    IN  CASE text \in reg.seen /\ longs \ {text} = {} ->
               Assign(RegisterClusterForType(reg, text, type),
                      i, text, type, "normalized_exact", 100)
          [] longs # {} /\ ~(text \in reg.seen /\ longs \ {text} = {}) ->
               Assign(reg, i, CHOOSE k \in longs : TRUE, type, "abbreviation", 75)
          [] text \notin reg.seen /\ longs = {} /\ shorts # {} ->
               Assign(PromoteLongForm(reg, shorts, text, type),
                      i, text, type, "label_cluster", 100)
          [] text \notin reg.seen /\ longs = {} /\ shorts = {} /\ n # 0 ->
               LET k == reg.texts[type][n]
               IN  Assign(reg, i, k, type, "fuzzy", Ratio[<< text, k >>])
          [] OTHER ->
               Assign(RegisterNewCluster(reg, text, type),
                      i, text, type, "label_cluster", 100)

\* The rows for a whole sequence of mentions, numbered by position.
ClusterMentions(input) ==
    FoldLeftDomain(LAMBDA reg, i :
                       ClusterMention(reg, i, input[i].text, input[i].type),
                   EmptyRegistry, input).rows
=============================================================================
