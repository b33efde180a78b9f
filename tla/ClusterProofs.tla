---------------------------- MODULE ClusterProofs ---------------------------
(***************************************************************************)
(* The registry of cluster keys stays consistent through every renaming,   *)
(* and the rules the documents promise hold wherever the names do not      *)
(* stand in their way: for any texts, types and sequences of mentions.     *)
(***************************************************************************)
EXTENDS MentionClustering, FiniteSetTheorems, WellFoundedInduction, TLAPS

-----------------------------------------------------------------------------
(* Sequences without repeats, first positions, one more entry.             *)

\* A nonempty set of naturals has a least element.
LEMMA LeastOf ==
    ASSUME NEW S, S \subseteq Nat, S # {}
    PROVE  \E n \in S : \A m \in S : n <= m
  <1>1. PICK n \in S : \A m \in S : ~(<< m, n >> \in OpToRel(<, Nat))
    BY NatLessThanWellFounded, WFMin
  <1>2. \A m, k : m \in Nat /\ k \in Nat /\ m < k => << m, k >> \in OpToRel(<, Nat)
    BY Zenon DEF OpToRel
  <1>3. \A m \in S : ~(m < n)
    BY Zenon, <1>1, <1>2
  <1>4. \A m \in S : n <= m
    <2> SUFFICES ASSUME NEW m \in S PROVE n <= m
      OBVIOUS
    <2>1. m \in Nat /\ n \in Nat
      OBVIOUS
    <2> QED
      BY <1>3, <2>1
  <1> QED
    BY <1>1, <1>4

\* The r-th position of a set of positions, for every r up to their number.
LEMMA PositionOfRank ==
    ASSUME NEW n \in Nat, NEW P \in SUBSET (1 .. n),
           NEW r \in 1 .. Cardinality(P)
    PROVE  \E p \in P : Cardinality({ q \in P : q <= p }) = r
  <1> DEFINE Upto(p) == { q \in P : q <= p }
             rank == [p \in P |-> Cardinality(Upto(p))]
             ranks == { rank[p] : p \in P }
  <1>1. IsFiniteSet(P) /\ Cardinality(P) \in Nat
    <2>1. IsFiniteSet(1 .. n)
      BY FS_Interval
    <2> QED
      BY <2>1, FS_Subset, FS_CardinalityType
  <1>2. \A p \in P : IsFiniteSet(Upto(p)) /\ Upto(p) \subseteq P /\ p \in Upto(p)
    BY <1>1, FS_Subset
  <1>3. \A p \in P : rank[p] \in 1 .. Cardinality(P)
    <2> SUFFICES ASSUME NEW p \in P PROVE rank[p] \in 1 .. Cardinality(P)
      OBVIOUS
    <2>1. Cardinality(Upto(p)) \in Nat /\ Cardinality(Upto(p)) <= Cardinality(P)
      BY <1>1, <1>2, FS_Subset, FS_CardinalityType
    <2>2. Cardinality(Upto(p)) # 0
      BY <1>2, FS_EmptySet
    <2> HIDE DEF Upto
    <2> QED
      BY <1>1, <2>1, <2>2
  <1>4. \A p, q \in P : p < q => rank[p] < rank[q]
    <2> SUFFICES ASSUME NEW p \in P, NEW q \in P, p < q PROVE rank[p] < rank[q]
      OBVIOUS
    <2>1. Upto(p) \subseteq Upto(q) /\ Upto(p) # Upto(q)
      <3>1. q \in Upto(q) /\ q \notin Upto(p)
        OBVIOUS
      <3>2. Upto(p) \subseteq Upto(q)
        <4> SUFFICES ASSUME NEW v \in P, v <= p PROVE v <= q
          OBVIOUS
        <4>1. v \in Nat /\ p \in Nat /\ q \in Nat
          OBVIOUS
        <4> QED
          BY <4>1
      <3> QED
        BY <3>1, <3>2
    <2>2. IsFiniteSet(Upto(q))
      BY <1>2
    <2> HIDE DEF Upto
    <2>3. /\ Cardinality(Upto(p)) <= Cardinality(Upto(q))
          /\ (Cardinality(Upto(p)) = Cardinality(Upto(q)) => Upto(p) = Upto(q))
      BY <2>1, <2>2, FS_Subset
    <2>4. Cardinality(Upto(p)) \in Nat /\ Cardinality(Upto(q)) \in Nat
      BY <1>2, FS_CardinalityType
    <2> QED
      BY <2>1, <2>3, <2>4
  <1>5. \A p, q \in P : rank[p] = rank[q] => p = q
    BY <1>3, <1>4
  <1> HIDE DEF rank, Upto
  <1>6. Cardinality(ranks) = Cardinality(P)
    <2>1. rank \in [P -> ranks]
      BY DEF rank
    <2>2. rank \in Bijection(P, ranks)
      BY <1>5, <2>1 DEF Bijection, Injection, Surjection, IsInjective
    <2> QED
      BY <1>1, <2>2, FS_Bijection DEF ExistsBijection
  <1>7. ranks = 1 .. Cardinality(P)
    <2>1. ranks \subseteq 1 .. Cardinality(P)
      BY <1>3
    <2>2. /\ IsFiniteSet(1 .. Cardinality(P))
          /\ Cardinality(1 .. Cardinality(P)) = Cardinality(P)
      BY <1>1, FS_Interval
    <2> HIDE DEF ranks
    <2> QED
      BY <1>6, <2>1, <2>2, FS_Subset
  <1>8. PICK p \in P : rank[p] = r
    BY <1>7
  <1> QED
    BY <1>8 DEF rank, Upto

\* What remains without repeats occurs in the sequence, each element once.
LEMMA WithoutRepeatsOnce ==
    ASSUME NEW T, NEW s \in Seq(T)
    PROVE  /\ WithoutRepeats(s) \in Seq(T)
           /\ \A k \in DOMAIN WithoutRepeats(s) :
                \E n \in DOMAIN s : WithoutRepeats(s)[k] = s[n]
           /\ IsInjective(WithoutRepeats(s))
  <1> DEFINE firsts == { n \in DOMAIN s : \A m \in DOMAIN s : m < n => s[m] # s[n] }
             Rank(n) == Cardinality({ m \in firsts : m <= n })
             At(k) == CHOOSE n \in firsts : Rank(n) = k
             w == [k \in 1 .. Cardinality(firsts) |-> s[At(k)]]
  <1>1. WithoutRepeats(s) = w
    BY Zenon DEF WithoutRepeats, Kept
  <1>2. Len(s) \in Nat /\ DOMAIN s = 1 .. Len(s)
    OBVIOUS
  <1>3. firsts \in SUBSET (1 .. Len(s))
    BY <1>2
  <1>4. \A a, b \in firsts : s[a] = s[b] => a = b
    BY <1>2
  <1>5. Cardinality(firsts) \in Nat
    <2>1. IsFiniteSet(1 .. Len(s))
      BY <1>2, FS_Interval
    <2> HIDE DEF firsts
    <2> QED
      BY <1>3, <2>1, FS_Subset, FS_CardinalityType
  <1> HIDE DEF firsts
  <1>6. \A k \in 1 .. Cardinality(firsts) : \E n \in firsts : Rank(n) = k
    BY <1>2, <1>3, PositionOfRank
  <1>7. \A k \in 1 .. Cardinality(firsts) : At(k) \in firsts /\ Rank(At(k)) = k
    <2> SUFFICES ASSUME NEW k \in 1 .. Cardinality(firsts)
                 PROVE  At(k) \in firsts /\ Rank(At(k)) = k
      OBVIOUS
    <2>1. \E n \in firsts : Rank(n) = k
      BY <1>6
    <2> HIDE DEF Rank
    <2> QED
      BY Zenon, <2>1
  <1> HIDE DEF At, Rank
  <1>8. w \in Seq(T)
    <2>1. \A k \in 1 .. Cardinality(firsts) : s[At(k)] \in T
      <3> SUFFICES ASSUME NEW k \in 1 .. Cardinality(firsts) PROVE s[At(k)] \in T
        OBVIOUS
      <3>1. At(k) \in 1 .. Len(s)
        BY <1>3, <1>7
      <3> QED
        BY <3>1
    <2> QED
      BY <1>5, <2>1
  <1>9. \A k \in DOMAIN w : At(k) \in DOMAIN s /\ w[k] = s[At(k)]
    BY <1>2, <1>3, <1>7
  <1>10. IsInjective(w)
    <2> SUFFICES ASSUME NEW a \in DOMAIN w, NEW b \in DOMAIN w, w[a] = w[b] PROVE a = b
      BY Zenon DEF IsInjective
    <2>1. At(a) = At(b)
      BY <1>4, <1>7, <1>9
    <2> QED
      BY <1>7, <2>1
  <1> HIDE DEF w
  <1> QED
    BY <1>1, <1>8, <1>9, <1>10

\* The scan for a similar text stops at a similar text.
LEMMA SimilarFound ==
    ASSUME NEW r, NEW x, NEW t, r.texts[t] \in Seq(Texts), FirstSimilar(r, x, t) # 0
    PROVE  /\ FirstSimilar(r, x, t) \in DOMAIN r.texts[t]
           /\ Ratio[<< x, r.texts[t][FirstSimilar(r, x, t)] >>] >= FuzzyThreshold
  <1> DEFINE s == r.texts[t]
             I == { n \in 1 .. Len(s) : Ratio[<< x, s[n] >>] >= FuzzyThreshold }
  <1>1. FirstSimilar(r, x, t) = IF I # {} THEN Min(I) ELSE 0
    BY DEF FirstSimilar, SelectInSeq
  <1>2. I \subseteq Nat /\ I \subseteq DOMAIN s
    <2>1. s \in Seq(Texts)
      OBVIOUS
    <2> HIDE DEF s
    <2>2. Len(s) \in Nat /\ DOMAIN s = 1 .. Len(s)
      BY <2>1
    <2>3. \A n \in 1 .. Len(s) : n \in Nat
      BY <2>2
    <2> QED
      BY <2>2, <2>3
  <1>3. I # {}
    BY <1>1
  <1> HIDE DEF I
  <1>4. \E n \in I : \A m \in I : n <= m
    BY <1>2, <1>3, LeastOf
  <1>5. Min(I) \in I
    BY <1>4 DEF Min
  <1> QED
    BY <1>1, <1>2, <1>3, <1>5 DEF I

\* A sequence with one more element.
LEMMA AppendFields ==
    ASSUME NEW T, NEW s \in Seq(T), NEW v \in T
    PROVE  /\ Append(s, v) \in Seq(T)
           /\ DOMAIN s = 1 .. Len(s)
           /\ Len(s) \in Nat
           /\ DOMAIN Append(s, v) = 1 .. Len(s) + 1
           /\ Append(s, v)[Len(s) + 1] = v
           /\ \A i \in 1 .. Len(s) : Append(s, v)[i] = s[i]
  OBVIOUS

-----------------------------------------------------------------------------
(* The fields of the registry after each of its operations.                *)

Fields  == {"rows", "seen", "members", "texts", "abbrev", "initials"}
Methods == {"label_cluster", "normalized_exact", "abbreviation", "fuzzy"}

Row(text, type, method, confidence) ==
    [text |-> text, type |-> type, method |-> method, confidence |-> confidence]

LEMMA RegisterNewFields ==
    ASSUME NEW r, DOMAIN r = Fields, NEW t \in Types, DOMAIN r.texts = Types,
           NEW k, NEW a, a = RegisterNewCluster(r, k, t)
    PROVE  /\ DOMAIN a = Fields
           /\ a.rows = r.rows
           /\ a.members = r.members
           /\ a.seen = r.seen \cup {k}
           /\ a.texts = [r.texts EXCEPT ![t] = Append(@, k)]
           /\ a.abbrev = r.abbrev \cup {<< t, k >>}
           /\ a.initials = IF k \in DOMAIN Initials
                           THEN Put(r.initials, << t, Initials[k] >>, k) ELSE r.initials
  BY DEF RegisterNewCluster, Fields

LEMMA RegisterForTypeFields ==
    ASSUME NEW r, DOMAIN r = Fields, NEW t \in Types, DOMAIN r.texts = Types,
           NEW k, NEW a, a = RegisterClusterForType(r, k, t)
    PROVE  /\ DOMAIN a = Fields
           /\ a.rows = r.rows
           /\ a.members = r.members
           /\ a.seen = r.seen
           /\ a.texts = [r.texts EXCEPT ![t] = IF Contains(@, k) THEN @ ELSE Append(@, k)]
           /\ a.abbrev = r.abbrev \cup {<< t, k >>}
           /\ a.initials = IF k \in DOMAIN Initials
                           THEN PutIfAbsent(r.initials, << t, Initials[k] >>, k)
                           ELSE r.initials
  BY DEF RegisterClusterForType, Fields

Renamed(s, shorts, long) ==
    [n \in DOMAIN s |-> IF s[n] \in shorts THEN long ELSE s[n]]

-----------------------------------------------------------------------------
(* A mention's arrival, in one of five ways.                               *)

LongKeys == { Initials[k] : k \in DOMAIN Initials }
New == Len(input) + 1

\* The registry has its fields, each of its type; rows are those of the input.
Shape ==
    /\ input \in Seq([text : Texts, type : Types])
    /\ DOMAIN reg = Fields
    /\ DOMAIN reg.rows = 1 .. Len(input)
    /\ \A i \in DOMAIN reg.rows :
        /\ reg.rows[i].text \in Texts
        /\ reg.rows[i].type = input[i].type
        /\ reg.rows[i].method \in Methods
    /\ reg.seen \subseteq Texts
    /\ reg.texts \in [Types -> Seq(Texts)]
    /\ reg.abbrev \subseteq Types \X Texts
    /\ DOMAIN reg.initials \subseteq Types \X LongKeys
    /\ \A p \in DOMAIN reg.initials : reg.initials[p] \in DOMAIN Initials

\* The new mention is put under `k' by method `m', and no other one moves.
Joins(t, k, m) ==
    /\ DOMAIN reg' = Fields
    /\ DOMAIN reg'.rows = 1 .. New
    /\ \A i \in 1 .. Len(input) : reg'.rows[i] = reg.rows[i]
    /\ reg'.rows[New].text = k
    /\ reg'.rows[New].type = t
    /\ reg'.rows[New].method = m
    /\ reg'.seen = reg.seen \cup {k}
    /\ DOMAIN reg'.members = DOMAIN reg.members \cup {k}
    /\ reg'.members[k] = MembersOf(reg, k) \cup {New}
    /\ \A q \in DOMAIN reg.members \ {k} : reg'.members[q] = reg.members[q]

\* The indices of type `t' offer the text `x' too, or stay as they are.
Learns(x, t) ==
    /\ reg'.texts \in [Types -> Seq(Texts)]
    /\ \A u \in Types \ {t} : reg'.texts[u] = reg.texts[u]
    /\ \/ reg'.texts[t] = reg.texts[t]
       \/ /\ reg'.texts[t] = Append(reg.texts[t], x)
          /\ \A n \in DOMAIN reg.texts[t] : reg.texts[t][n] # x
    /\ reg'.abbrev = reg.abbrev \cup {<< t, x >>}
    /\ \A p \in DOMAIN reg'.initials :
        \/ p \in DOMAIN reg.initials /\ reg'.initials[p] = reg.initials[p]
        \/ x \in DOMAIN Initials /\ p = << t, Initials[x] >> /\ reg'.initials[p] = x
    /\ DOMAIN reg.initials \subseteq DOMAIN reg'.initials
    /\ x \in DOMAIN Initials => << t, Initials[x] >> \in DOMAIN reg'.initials

Keeps ==
    /\ reg'.texts = reg.texts
    /\ reg'.abbrev = reg.abbrev
    /\ reg'.initials = reg.initials

\* The keys of `S' are renamed to `x' for the mentions of type `t'.
Promotes(x, t, S) ==
    /\ DOMAIN reg' = Fields
    /\ DOMAIN reg'.rows = 1 .. New
    /\ \A i \in 1 .. Len(input) :
        reg'.rows[i] = IF i \in Moved(reg, S, t) THEN Row(x, t, "abbreviation", 75)
                                                 ELSE reg.rows[i]
    /\ reg'.rows[New].text = x
    /\ reg'.rows[New].type = t
    /\ reg'.rows[New].method = "label_cluster"
    /\ reg'.seen = (reg.seen \cup {x}) \ Emptied(reg, S, Moved(reg, S, t))
    /\ DOMAIN reg'.members =
        (DOMAIN reg.members \cup {x}) \ Emptied(reg, S, Moved(reg, S, t))
    /\ reg'.members[x] = Moved(reg, S, t) \cup {New}
    /\ \A q \in DOMAIN reg'.members \ {x} :
        reg'.members[q] = reg.members[q] \ Moved(reg, S, t)
    /\ reg'.texts \in [Types -> Seq(Texts)]
    /\ \A u \in Types \ {t} : reg'.texts[u] = reg.texts[u]
    /\ IsInjective(reg'.texts[t])
    /\ \A n \in DOMAIN reg'.texts[t] :
        \/ reg'.texts[t][n] = x
        \/ /\ reg'.texts[t][n] \notin S
           /\ \E m \in DOMAIN reg.texts[t] : reg'.texts[t][n] = reg.texts[t][m]
    /\ reg'.abbrev = (reg.abbrev \ ({t} \X S)) \cup {<< t, x >>}
    /\ \A p \in DOMAIN reg'.initials :
        \/ p = << t, Initials[x] >> /\ reg'.initials[p] = x
        \/ /\ p \in DOMAIN reg.initials
           /\ reg'.initials[p] = reg.initials[p]
           /\ ~(p[1] = t /\ reg.initials[p] \in S)
    /\ << t, Initials[x] >> \in DOMAIN reg'.initials
    /\ \A p \in DOMAIN reg.initials :
        ~(p[1] = t /\ reg.initials[p] \in S) => p \in DOMAIN reg'.initials

\* The rules of the algorithm, each with what it does.
ByText(x, t) ==
    /\ x \in reg.seen
    /\ LongForms(reg, x, t) \subseteq {x}
    /\ Joins(t, x, "normalized_exact")
    /\ Learns(x, t)

ByInitials(x, t, k) ==
    /\ k \in LongForms(reg, x, t)
    /\ k # x
    /\ Joins(t, k, "abbreviation")
    /\ Keeps

ByPromotion(x, t) ==
    /\ x \notin reg.seen
    /\ LongForms(reg, x, t) = {}
    /\ AbbreviatedKeys(reg, x, t) # {}
    /\ Promotes(x, t, AbbreviatedKeys(reg, x, t))

BySimilarity(x, t, k) ==
    /\ x \notin reg.seen
    /\ LongForms(reg, x, t) = {}
    /\ AbbreviatedKeys(reg, x, t) = {}
    /\ \E n \in DOMAIN reg.texts[t] : k = reg.texts[t][n]
    /\ Ratio[<< x, k >>] >= FuzzyThreshold
    /\ Joins(t, k, "fuzzy")
    /\ Keeps

ByItself(x, t) ==
    /\ x \notin reg.seen
    /\ LongForms(reg, x, t) = {}
    /\ AbbreviatedKeys(reg, x, t) = {}
    /\ Joins(t, x, "label_cluster")
    /\ Learns(x, t)

\* The input grows by the mention; what is known of the others is unchanged.
LEMMA InputGrows ==
    ASSUME Shape, NEW x \in Texts, NEW t \in Types, TakeMention(x, t)
    PROVE  /\ Len(input) \in Nat
           /\ New \in Nat /\ New \notin 1 .. Len(input)
           /\ 1 .. New = (1 .. Len(input)) \cup {New}
           /\ DOMAIN input = 1 .. Len(input)
           /\ Len(input') = New
           /\ DOMAIN input' = 1 .. New
           /\ input'[New] = [text |-> x, type |-> t]
           /\ input'[New].text = x /\ input'[New].type = t
           /\ \A i \in 1 .. Len(input) : input'[i] = input[i]
           /\ input' \in Seq([text : Texts, type : Types])
  <1> DEFINE m == [text |-> x, type |-> t]
  <1>1. m \in [text : Texts, type : Types] /\ input \in Seq([text : Texts, type : Types])
    BY DEF Shape
  <1>2. input' = Append(input, m)
    BY DEF TakeMention
  <1> HIDE DEF m
  <1>3. Len(input) \in Nat /\ DOMAIN input = 1 .. Len(input)
    BY <1>1
  <1>4. /\ Len(input') = New
        /\ input'[New] = m
        /\ DOMAIN input' = 1 .. New
        /\ \A i \in 1 .. Len(input) : input'[i] = input[i]
        /\ input' \in Seq([text : Texts, type : Types])
    BY <1>1, <1>2, <1>3, AppendFields DEF New
  <1> QED
    BY <1>3, <1>4 DEF New, m

\* A long form offered for `x' is that of its letters.
LEMMA LongFormOf ==
    ASSUME NEW x, NEW t
    PROVE  \A k \in LongForms(reg, x, t) :
             /\ << t, Alpha[x] >> \in DOMAIN reg.initials
             /\ k = reg.initials[<< t, Alpha[x] >>]
             /\ LongForms(reg, x, t) = {k}
  BY DEF LongForms

LEMMA NoLongForm ==
    ASSUME NEW x, NEW t, LongForms(reg, x, t) = {}
    PROVE  << t, Alpha[x] >> \notin DOMAIN reg.initials
  BY DEF LongForms

\* A key that a type holds is in use.
LEMMA HeldSeen ==
    ASSUME Shape, MembersExact, NEW t, NEW k, Holds(t, k)
    PROVE  k \in reg.seen
  BY DEF Holds, Holders, MembersExact

-----------------------------------------------------------------------------
(* One of the five rules applies.                                          *)

LEMMA JoinFacts ==
    ASSUME Shape, NEW x \in Texts, NEW t \in Types, TakeMention(x, t),
           NEW r, DOMAIN r = Fields, r.rows = reg.rows, r.members = reg.members,
           NEW k, r.seen = reg.seen \cup {k},
           NEW m, NEW c, reg' = Assign(r, New, k, t, m, c)
    PROVE  /\ Joins(t, k, m)
           /\ reg'.texts = r.texts
           /\ reg'.abbrev = r.abbrev
           /\ reg'.initials = r.initials
  <1>1. /\ DOMAIN reg' = Fields
        /\ reg'.rows = Put(reg.rows, New, Row(k, t, m, c))
        /\ reg'.members = Put(reg.members, k, MembersOf(reg, k) \cup {New})
        /\ reg'.seen = reg.seen \cup {k}
        /\ reg'.texts = r.texts
        /\ reg'.abbrev = r.abbrev
        /\ reg'.initials = r.initials
    <2>1. MembersOf(r, k) = MembersOf(reg, k)
      BY DEF MembersOf
    <2> QED
      BY <2>1 DEF Assign, Fields, Row
  <1>2. /\ DOMAIN reg.rows = 1 .. Len(input)
        /\ New \notin 1 .. Len(input)
        /\ 1 .. New = (1 .. Len(input)) \cup {New}
    BY InputGrows DEF Shape
  <1>3. /\ DOMAIN reg'.rows = 1 .. New
        /\ reg'.rows[New] = Row(k, t, m, c)
        /\ \A i \in 1 .. Len(input) : reg'.rows[i] = reg.rows[i]
    <2> DEFINE v == Row(k, t, m, c)
    <2> HIDE DEF v
    <2>1. reg'.rows = Put(reg.rows, New, v)
      BY <1>1 DEF v
    <2>2. /\ DOMAIN reg'.rows = DOMAIN reg.rows \cup {New}
          /\ reg'.rows[New] = v
          /\ \A i \in DOMAIN reg.rows \ {New} : reg'.rows[i] = reg.rows[i]
      BY <2>1 DEF Put
    <2> QED
      BY <1>2, <2>2 DEF v
  <1>4. /\ DOMAIN reg'.members = DOMAIN reg.members \cup {k}
        /\ reg'.members[k] = MembersOf(reg, k) \cup {New}
        /\ \A q \in DOMAIN reg.members \ {k} : reg'.members[q] = reg.members[q]
    BY <1>1 DEF Put
  <1>5. Row(k, t, m, c).text = k /\ Row(k, t, m, c).type = t /\ Row(k, t, m, c).method = m
    BY DEF Row
  <1> QED
    BY <1>1, <1>3, <1>4, <1>5 DEF Joins

\* Registering a key makes the indices offer it.
LEMMA LearnFacts ==
    ASSUME Shape, NEW x \in Texts, NEW t \in Types,
           reg'.texts = reg.texts \/
             ( /\ reg'.texts = [reg.texts EXCEPT ![t] = Append(@, x)]
               /\ \A n \in DOMAIN reg.texts[t] : reg.texts[t][n] # x ),
           reg'.abbrev = reg.abbrev \cup {<< t, x >>},
           \/ x \notin DOMAIN Initials /\ reg'.initials = reg.initials
           \/ /\ x \in DOMAIN Initials
              /\ \/ reg'.initials = Put(reg.initials, << t, Initials[x] >>, x)
                 \/ /\ reg'.initials = reg.initials
                    /\ << t, Initials[x] >> \in DOMAIN reg.initials
    PROVE  Learns(x, t)
  <1>1. reg.texts \in [Types -> Seq(Texts)]
    BY DEF Shape
  <1>2. reg.texts[t] \in Seq(Texts) /\ Append(reg.texts[t], x) \in Seq(Texts)
    <2>1. reg.texts[t] \in Seq(Texts)
      BY <1>1
    <2> QED
      BY <2>1, AppendFields
  <1>3. /\ reg'.texts \in [Types -> Seq(Texts)]
        /\ \A u \in Types \ {t} : reg'.texts[u] = reg.texts[u]
        /\ \/ reg'.texts[t] = reg.texts[t]
           \/ /\ reg'.texts[t] = Append(reg.texts[t], x)
              /\ \A n \in DOMAIN reg.texts[t] : reg.texts[t][n] # x
    <2> DEFINE s == Append(reg.texts[t], x)
    <2> HIDE DEF s
    <2>1. CASE reg'.texts = reg.texts
      BY <1>1, <2>1
    <2>2. CASE reg'.texts # reg.texts
      <3>1. reg'.texts = [reg.texts EXCEPT ![t] = s] /\ s \in Seq(Texts)
        BY <1>2, <2>2 DEF s
      <3>2. /\ reg'.texts \in [Types -> Seq(Texts)]
            /\ \A u \in Types \ {t} : reg'.texts[u] = reg.texts[u]
            /\ reg'.texts[t] = s
        BY <1>1, <3>1
      <3> QED
        BY <2>2, <3>2 DEF s
    <2> QED
      BY <2>1, <2>2
  <1>4. /\ \A p \in DOMAIN reg'.initials :
            \/ p \in DOMAIN reg.initials /\ reg'.initials[p] = reg.initials[p]
            \/ x \in DOMAIN Initials /\ p = << t, Initials[x] >> /\ reg'.initials[p] = x
        /\ DOMAIN reg.initials \subseteq DOMAIN reg'.initials
        /\ x \in DOMAIN Initials => << t, Initials[x] >> \in DOMAIN reg'.initials
    <2> DEFINE e == << t, Initials[x] >>
    <2> HIDE DEF e
    <2>1. CASE reg'.initials = reg.initials
      BY <2>1 DEF Put, e
    <2>2. CASE reg'.initials # reg.initials
      <3>1. reg'.initials = Put(reg.initials, e, x) /\ x \in DOMAIN Initials
        BY <2>2 DEF e
      <3>2. /\ DOMAIN reg'.initials = DOMAIN reg.initials \cup {e}
            /\ reg'.initials[e] = x
            /\ \A p \in DOMAIN reg.initials \ {e} : reg'.initials[p] = reg.initials[p]
        BY <3>1 DEF Put
      <3> QED
        BY <3>1, <3>2 DEF e
    <2> QED
      BY <2>1, <2>2
  <1> QED
    BY <1>3, <1>4 DEF Learns

\* A text no mention holds is offered to none.
LEMMA UnseenNotOffered ==
    ASSUME Shape, MembersExact, IndicesBacked, NEW x, x \notin reg.seen, NEW t \in Types
    PROVE  /\ \A n \in DOMAIN reg.texts[t] : reg.texts[t][n] # x
           /\ x \notin LongForms(reg, x, t)
           /\ << t, x >> \notin reg.abbrev
  <1>1. \A n \in DOMAIN reg.texts[t] : reg.texts[t][n] \in reg.seen
    BY HeldSeen DEF IndicesBacked
  <1>2. \A k \in LongForms(reg, x, t) : k \in reg.seen
    <2> SUFFICES ASSUME NEW k \in LongForms(reg, x, t) PROVE k \in reg.seen
      OBVIOUS
    <2> DEFINE p == << t, Alpha[x] >>
    <2>1. p \in DOMAIN reg.initials /\ k = reg.initials[p]
      BY LongFormOf
    <2>2. p[1] = t
      OBVIOUS
    <2> HIDE DEF p
    <2>3. Holds(t, k)
      BY <2>1, <2>2 DEF IndicesBacked
    <2> QED
      BY <2>3, HeldSeen
  <1>3. << t, x >> \notin reg.abbrev
    <2> SUFFICES ASSUME << t, x >> \in reg.abbrev PROVE FALSE
      OBVIOUS
    <2> DEFINE p == << t, x >>
    <2>1. p[1] = t /\ p[2] = x /\ p \in reg.abbrev
      OBVIOUS
    <2> HIDE DEF p
    <2>2. Holds(t, x)
      BY <2>1 DEF IndicesBacked
    <2> QED
      BY <2>2, HeldSeen
  <1> QED
    BY <1>1, <1>2, <1>3

LEMMA ByTextApplies ==
    ASSUME Shape, MembersExact, IndicesBacked,
           NEW x \in Texts, NEW t \in Types, TakeMention(x, t),
           x \in reg.seen, LongForms(reg, x, t) \ {x} = {}
    PROVE  ByText(x, t)
  <1> DEFINE r == RegisterClusterForType(reg, x, t)
             m == "normalized_exact"
  <1>1. reg' = Assign(r, New, x, t, m, 100)
    BY DEF TakeMention, ClusterMention, New
  <1>2. DOMAIN reg = Fields /\ DOMAIN reg.texts = Types
    BY DEF Shape
  <1> HIDE DEF r, m
  <1>3. /\ DOMAIN r = Fields
        /\ r.rows = reg.rows
        /\ r.members = reg.members
        /\ r.seen = reg.seen
        /\ r.texts = [reg.texts EXCEPT ![t] = IF Contains(@, x) THEN @ ELSE Append(@, x)]
        /\ r.abbrev = reg.abbrev \cup {<< t, x >>}
        /\ r.initials = IF x \in DOMAIN Initials
                        THEN PutIfAbsent(reg.initials, << t, Initials[x] >>, x)
                        ELSE reg.initials
    BY <1>2, RegisterForTypeFields DEF r
  <1>4. r.seen = reg.seen \cup {x}
    BY <1>3
  <1>5. /\ Joins(t, x, m)
        /\ reg'.texts = r.texts
        /\ reg'.abbrev = r.abbrev
        /\ reg'.initials = r.initials
    BY <1>1, <1>3, <1>4, JoinFacts
  <1>6. \/ reg'.texts = reg.texts
        \/ /\ reg'.texts = [reg.texts EXCEPT ![t] = Append(@, x)]
           /\ \A n \in DOMAIN reg.texts[t] : reg.texts[t][n] # x
    <2>1. CASE Contains(reg.texts[t], x)
      <3>1. r.texts = [reg.texts EXCEPT ![t] = @]
        BY <1>3, <2>1
      <3>2. [reg.texts EXCEPT ![t] = @] = reg.texts
        BY DEF Shape
      <3> QED
        BY <1>5, <3>1, <3>2
    <2>2. CASE ~Contains(reg.texts[t], x)
      <3>1. r.texts = [reg.texts EXCEPT ![t] = Append(@, x)]
        BY <1>3, <2>2
      <3>2. reg.texts[t] \in Seq(Texts)
        BY DEF Shape
      <3> DEFINE s == reg.texts[t]
      <3> HIDE DEF s
      <3>3. DOMAIN s = 1 .. Len(s)
        BY <3>2 DEF s
      <3>4. \A n \in DOMAIN s : s[n] # x
        BY <2>2, <3>3 DEF Contains, s
      <3> QED
        BY <1>5, <3>1, <3>4 DEF s
    <2> QED
      BY <2>1, <2>2
  <1>7. \/ x \notin DOMAIN Initials /\ reg'.initials = reg.initials
        \/ /\ x \in DOMAIN Initials
           /\ \/ reg'.initials = Put(reg.initials, << t, Initials[x] >>, x)
              \/ /\ reg'.initials = reg.initials
                 /\ << t, Initials[x] >> \in DOMAIN reg.initials
    BY <1>3, <1>5 DEF PutIfAbsent
  <1>8. Learns(x, t)
    BY <1>3, <1>5, <1>6, <1>7, LearnFacts
  <1> QED
    BY <1>5, <1>8 DEF ByText, m

LEMMA ByInitialsApplies ==
    ASSUME Shape, MembersExact, IndicesBacked,
           NEW x \in Texts, NEW t \in Types, TakeMention(x, t),
           LongForms(reg, x, t) # {},
           ~(x \in reg.seen /\ LongForms(reg, x, t) \ {x} = {})
    PROVE  \E k : ByInitials(x, t, k)
  <1> DEFINE k == CHOOSE k \in LongForms(reg, x, t) : TRUE
             m == "abbreviation"
  <1>1. reg' = Assign(reg, New, k, t, m, 75)
    BY DEF TakeMention, ClusterMention, New
  <1>2. k \in LongForms(reg, x, t)
    OBVIOUS
  <1> HIDE DEF k, m
  <1>3. LongForms(reg, x, t) = {k}
    BY <1>2, LongFormOf
  <1>4. k \in reg.seen
    <2> DEFINE p == << t, Alpha[x] >>
    <2>1. p \in DOMAIN reg.initials /\ k = reg.initials[p] /\ p[1] = t
      BY <1>2, LongFormOf
    <2> HIDE DEF p
    <2>2. Holds(t, k)
      BY <2>1 DEF IndicesBacked
    <2> QED
      BY <2>2, HeldSeen
  <1>5. k # x
    BY <1>3, <1>4
  <1>6. DOMAIN reg = Fields /\ reg.seen = reg.seen \cup {k}
    BY <1>4 DEF Shape
  <1>7. /\ Joins(t, k, m)
        /\ reg'.texts = reg.texts
        /\ reg'.abbrev = reg.abbrev
        /\ reg'.initials = reg.initials
    BY <1>1, <1>6, JoinFacts
  <1> QED
    BY <1>2, <1>5, <1>7 DEF ByInitials, Keeps, m

LEMMA BySimilarityApplies ==
    ASSUME Shape, MembersExact, IndicesBacked,
           NEW x \in Texts, NEW t \in Types, TakeMention(x, t),
           x \notin reg.seen, LongForms(reg, x, t) = {},
           AbbreviatedKeys(reg, x, t) = {}, FirstSimilar(reg, x, t) # 0
    PROVE  \E k : BySimilarity(x, t, k)
  <1> DEFINE k == reg.texts[t][FirstSimilar(reg, x, t)]
             m == "fuzzy"
  <1>1. reg' = Assign(reg, New, k, t, m, Ratio[<< x, k >>])
    BY DEF TakeMention, ClusterMention, New
  <1>2. /\ FirstSimilar(reg, x, t) \in DOMAIN reg.texts[t]
        /\ Ratio[<< x, k >>] >= FuzzyThreshold
    <2>1. reg.texts[t] \in Seq(Texts)
      BY DEF Shape
    <2> QED
      BY <2>1, SimilarFound
  <1>3. \E n \in DOMAIN reg.texts[t] : k = reg.texts[t][n]
    BY <1>2
  <1>4. k \in reg.seen
    BY <1>2, HeldSeen DEF IndicesBacked
  <1> HIDE DEF k, m
  <1>5. DOMAIN reg = Fields /\ reg.seen = reg.seen \cup {k}
    BY <1>4 DEF Shape
  <1>6. /\ Joins(t, k, m)
        /\ reg'.texts = reg.texts
        /\ reg'.abbrev = reg.abbrev
        /\ reg'.initials = reg.initials
    BY <1>1, <1>5, JoinFacts
  <1> QED
    BY <1>2, <1>3, <1>6 DEF BySimilarity, Keeps, m

LEMMA ByItselfApplies ==
    ASSUME Shape, MembersExact, IndicesBacked,
           NEW x \in Texts, NEW t \in Types, TakeMention(x, t),
           x \notin reg.seen, LongForms(reg, x, t) = {},
           AbbreviatedKeys(reg, x, t) = {}, FirstSimilar(reg, x, t) = 0
    PROVE  ByItself(x, t)
  <1> DEFINE r == RegisterNewCluster(reg, x, t)
             m == "label_cluster"
  <1>1. reg' = Assign(r, New, x, t, m, 100)
    BY DEF TakeMention, ClusterMention, New
  <1>2. DOMAIN reg = Fields /\ DOMAIN reg.texts = Types
    BY DEF Shape
  <1> HIDE DEF r, m
  <1>3. /\ DOMAIN r = Fields
        /\ r.rows = reg.rows
        /\ r.members = reg.members
        /\ r.seen = reg.seen \cup {x}
        /\ r.texts = [reg.texts EXCEPT ![t] = Append(@, x)]
        /\ r.abbrev = reg.abbrev \cup {<< t, x >>}
        /\ r.initials = IF x \in DOMAIN Initials
                        THEN Put(reg.initials, << t, Initials[x] >>, x) ELSE reg.initials
    BY <1>2, RegisterNewFields DEF r
  <1>4. /\ Joins(t, x, m)
        /\ reg'.texts = r.texts
        /\ reg'.abbrev = r.abbrev
        /\ reg'.initials = r.initials
    BY <1>1, <1>3, JoinFacts
  <1>5. \A n \in DOMAIN reg.texts[t] : reg.texts[t][n] # x
    BY UnseenNotOffered
  <1>6. reg'.texts = [reg.texts EXCEPT ![t] = Append(@, x)]
    BY <1>3, <1>4
  <1>7. \/ x \notin DOMAIN Initials /\ reg'.initials = reg.initials
        \/ /\ x \in DOMAIN Initials
           /\ reg'.initials = Put(reg.initials, << t, Initials[x] >>, x)
    BY <1>3, <1>4
  <1>8. Learns(x, t)
    BY <1>3, <1>4, <1>5, <1>6, <1>7, LearnFacts
  <1> QED
    BY <1>4, <1>8 DEF ByItself, m

\* The keys that a long form abbreviates are keys of its type.
LEMMA ShortKeys ==
    ASSUME Shape, MembersExact, IndicesBacked, NEW x \in Texts, NEW t \in Types
    PROVE  \A s \in AbbreviatedKeys(reg, x, t) :
             /\ x \in DOMAIN Initials
             /\ Alpha[s] = Initials[x]
             /\ << t, s >> \in reg.abbrev
             /\ Holds(t, s)
             /\ s \in reg.seen
  <1> SUFFICES ASSUME NEW s \in AbbreviatedKeys(reg, x, t)
               PROVE  /\ x \in DOMAIN Initials
                      /\ Alpha[s] = Initials[x]
                      /\ << t, s >> \in reg.abbrev
                      /\ Holds(t, s)
                      /\ s \in reg.seen
    OBVIOUS
  <1>1. x \in DOMAIN Initials /\ Alpha[s] = Initials[x] /\ << t, s >> \in reg.abbrev
    BY DEF AbbreviatedKeys
  <1> DEFINE p == << t, s >>
  <1>2. p[1] = t /\ p[2] = s /\ p \in reg.abbrev
    BY <1>1
  <1> HIDE DEF p
  <1>3. Holds(t, s)
    BY <1>2 DEF IndicesBacked
  <1> QED
    BY <1>1, <1>3, HeldSeen

LEMMA ByPromotionApplies ==
    ASSUME Shape, MembersExact, IndicesBacked,
           NEW x \in Texts, NEW t \in Types, TakeMention(x, t),
           x \notin reg.seen, LongForms(reg, x, t) = {}, AbbreviatedKeys(reg, x, t) # {}
    PROVE  ByPromotion(x, t)
  <1> DEFINE S == AbbreviatedKeys(reg, x, t)
             r == PromoteLongForm(reg, S, x, t)
             m == "label_cluster"
             moved == Moved(reg, S, t)
             empty == Emptied(reg, S, moved)
  <1>1. reg' = Assign(r, New, x, t, m, 100)
    BY DEF TakeMention, ClusterMention, New
  <1>2. DOMAIN reg = Fields /\ DOMAIN reg.texts = Types
    BY DEF Shape
  <1>3. \A s \in S : s \in reg.seen
    BY ShortKeys
  <1>4. x \in DOMAIN Initials
    BY ShortKeys
  <1> HIDE DEF S
  <1>5. empty \subseteq S /\ x \notin empty
    BY <1>3 DEF Emptied
  <1> HIDE DEF r, m, moved, empty
  <1>6. /\ DOMAIN r = Fields
        /\ r.rows = [i \in DOMAIN reg.rows |->
                       IF i \in moved THEN Row(x, t, "abbreviation", 75) ELSE reg.rows[i]]
        /\ r.seen = (reg.seen \cup {x}) \ empty
        /\ r.members = [q \in (DOMAIN reg.members \cup {x}) \ empty |->
                          IF q = x THEN MembersOf(reg, x) \cup moved
                                   ELSE MembersOf(reg, q) \ moved]
        /\ r.texts = [reg.texts EXCEPT ![t] =
                        IF Renamed(@, S, x) = @ THEN @
                                                ELSE WithoutRepeats(Renamed(@, S, x))]
        /\ r.abbrev = (reg.abbrev \ ({t} \X S)) \cup {<< t, x >>}
        /\ r.initials = InitialsAfter(reg, S, x, t)
    BY <1>2 DEF PromoteLongForm, Fields, Row, Renamed, MethodAfter, AbbrevAfter,
                r, moved, empty
  <1>7. /\ DOMAIN reg' = Fields
        /\ reg'.rows = Put(r.rows, New, Row(x, t, m, 100))
        /\ reg'.members = Put(r.members, x, MembersOf(r, x) \cup {New})
        /\ reg'.seen = r.seen
        /\ reg'.texts = r.texts
        /\ reg'.abbrev = r.abbrev
        /\ reg'.initials = r.initials
    BY <1>1, <1>6 DEF Assign, Fields, Row
  <1>8. /\ DOMAIN reg.rows = 1 .. Len(input)
        /\ New \notin 1 .. Len(input)
        /\ 1 .. New = (1 .. Len(input)) \cup {New}
    BY InputGrows DEF Shape
  <1>9. /\ DOMAIN reg'.rows = 1 .. New
        /\ \A i \in 1 .. Len(input) :
            reg'.rows[i] = IF i \in moved THEN Row(x, t, "abbreviation", 75)
                                          ELSE reg.rows[i]
        /\ reg'.rows[New].text = x
        /\ reg'.rows[New].type = t
        /\ reg'.rows[New].method = m
    <2> DEFINE v == Row(x, t, m, 100)
               w == Row(x, t, "abbreviation", 75)
    <2>1. v.text = x /\ v.type = t /\ v.method = m
      BY DEF Row
    <2> HIDE DEF v, w
    <2>2. /\ DOMAIN r.rows = 1 .. Len(input)
          /\ \A i \in 1 .. Len(input) : r.rows[i] = IF i \in moved THEN w ELSE reg.rows[i]
      BY <1>6, <1>8 DEF w
    <2>3. reg'.rows = Put(r.rows, New, v)
      BY <1>7 DEF v
    <2>4. /\ DOMAIN reg'.rows = DOMAIN r.rows \cup {New}
          /\ reg'.rows[New] = v
          /\ \A i \in DOMAIN r.rows \ {New} : reg'.rows[i] = r.rows[i]
      BY <2>3 DEF Put
    <2> QED
      BY <1>8, <2>1, <2>2, <2>4 DEF w
  <1>10. /\ DOMAIN reg'.members = (DOMAIN reg.members \cup {x}) \ empty
         /\ reg'.members[x] = moved \cup {New}
         /\ \A q \in DOMAIN reg'.members \ {x} : reg'.members[q] = reg.members[q] \ moved
    <2>1. DOMAIN reg.members = reg.seen
      BY DEF MembersExact
    <2>2. MembersOf(reg, x) = {}
      BY <2>1 DEF MembersOf
    <2>3. DOMAIN r.members = (DOMAIN reg.members \cup {x}) \ empty
      BY <1>6
    <2>4. x \in DOMAIN r.members /\ r.members[x] = moved
      BY <1>5, <1>6, <2>2
    <2>5. MembersOf(r, x) = moved
      BY <2>4 DEF MembersOf
    <2>6. \A q \in DOMAIN r.members \ {x} : r.members[q] = reg.members[q] \ moved
      BY <1>6 DEF MembersOf
    <2>7. /\ DOMAIN reg'.members = DOMAIN r.members \cup {x}
          /\ reg'.members[x] = moved \cup {New}
          /\ \A q \in DOMAIN r.members \ {x} : reg'.members[q] = r.members[q]
      BY <1>7, <2>5 DEF Put
    <2> QED
      BY <2>3, <2>4, <2>6, <2>7
  <1>11. /\ reg'.texts \in [Types -> Seq(Texts)]
         /\ \A u \in Types \ {t} : reg'.texts[u] = reg.texts[u]
         /\ IsInjective(reg'.texts[t])
         /\ \A n \in DOMAIN reg'.texts[t] :
             \/ reg'.texts[t][n] = x
             \/ /\ reg'.texts[t][n] \notin S
                /\ \E k \in DOMAIN reg.texts[t] : reg'.texts[t][n] = reg.texts[t][k]
    <2> DEFINE s == reg.texts[t]
               rn == Renamed(s, S, x)
               w == IF rn = s THEN s ELSE WithoutRepeats(rn)
    <2>1. s \in Seq(Texts) /\ IsInjective(s)
      BY DEF Shape, IndicesBacked
    <2>2. \A n \in DOMAIN s : s[n] # x
      BY UnseenNotOffered
    <2> HIDE DEF s
    <2>3. /\ rn \in Seq(Texts)
          /\ DOMAIN rn = DOMAIN s
          /\ \A n \in DOMAIN s : rn[n] = IF s[n] \in S THEN x ELSE s[n]
      <3>1. Len(s) \in Nat /\ DOMAIN s = 1 .. Len(s) /\ \A n \in 1 .. Len(s) : s[n] \in Texts
        BY <2>1
      <3> QED
        BY <3>1 DEF Renamed
    <2> HIDE DEF rn
    <2>4. /\ w \in Seq(Texts)
          /\ IsInjective(w)
          /\ \A n \in DOMAIN w : \/ w[n] = x
                                 \/ w[n] \notin S /\ \E k \in DOMAIN s : w[n] = s[k]
      <3>1. CASE rn = s
        <4>1. \A n \in DOMAIN s : s[n] \notin S
          BY <2>2, <2>3, <3>1
        <4> QED
          BY <2>1, <3>1, <4>1
      <3>2. CASE rn # s
        <4> DEFINE z == WithoutRepeats(rn)
        <4>1. /\ z \in Seq(Texts)
              /\ \A k \in DOMAIN z : \E n \in DOMAIN rn : z[k] = rn[n]
              /\ IsInjective(z)
          BY <2>3, WithoutRepeatsOnce
        <4>2. w = z
          BY <3>2
        <4> HIDE DEF z, w
        <4>3. \A n \in DOMAIN z : \/ z[n] = x
                                  \/ z[n] \notin S /\ \E k \in DOMAIN s : z[n] = s[k]
          <5> SUFFICES ASSUME NEW n \in DOMAIN z, z[n] # x
                       PROVE  z[n] \notin S /\ \E k \in DOMAIN s : z[n] = s[k]
            OBVIOUS
          <5>1. PICK k \in DOMAIN rn : z[n] = rn[k]
            BY <4>1
          <5> QED
            BY <2>3, <5>1
        <4> QED
          BY <4>1, <4>2, <4>3
      <3> QED
        BY <3>1, <3>2
    <2>5. reg.texts \in [Types -> Seq(Texts)]
      BY DEF Shape
    <2>6. reg'.texts = [reg.texts EXCEPT ![t] = w]
      BY <1>6, <1>7 DEF s, rn
    <2> HIDE DEF w
    <2>7. /\ reg'.texts \in [Types -> Seq(Texts)]
          /\ \A u \in Types \ {t} : reg'.texts[u] = reg.texts[u]
          /\ reg'.texts[t] = w
      BY <2>4, <2>5, <2>6
    <2> QED
      BY <2>4, <2>7 DEF s
  <1>12. /\ \A p \in DOMAIN reg'.initials :
             \/ p = << t, Initials[x] >> /\ reg'.initials[p] = x
             \/ /\ p \in DOMAIN reg.initials
                /\ reg'.initials[p] = reg.initials[p]
                /\ ~(p[1] = t /\ reg.initials[p] \in S)
         /\ << t, Initials[x] >> \in DOMAIN reg'.initials
         /\ \A p \in DOMAIN reg.initials :
             ~(p[1] = t /\ reg.initials[p] \in S) => p \in DOMAIN reg'.initials
    <2> DEFINE e == << t, Initials[x] >>
               f == InitialsWithoutShorts(reg, S, x, t)
    <2>1. reg'.initials = Put(f, e, x)
      BY <1>6, <1>7 DEF InitialsAfter
    <2>2. /\ \A p \in DOMAIN f : /\ p \in DOMAIN reg.initials
                                 /\ f[p] = reg.initials[p]
                                 /\ ~(p[1] = t /\ reg.initials[p] \in S)
          /\ \A p \in DOMAIN reg.initials :
                ~(p[1] = t /\ reg.initials[p] \in S) => p \in DOMAIN f
      BY DEF InitialsWithoutShorts
    <2> HIDE DEF e, f
    <2>3. /\ DOMAIN reg'.initials = DOMAIN f \cup {e}
          /\ reg'.initials[e] = x
          /\ \A p \in DOMAIN f \ {e} : reg'.initials[p] = f[p]
      BY <2>1 DEF Put
    <2> QED
      BY <2>2, <2>3 DEF e
  <1>13. reg'.seen = (reg.seen \cup {x}) \ empty
    BY <1>6, <1>7
  <1>14. reg'.abbrev = (reg.abbrev \ ({t} \X S)) \cup {<< t, x >>}
    BY <1>6, <1>7
  <1>15. Promotes(x, t, S)
    BY <1>7, <1>9, <1>10, <1>11, <1>12, <1>13, <1>14 DEF Promotes, m, moved, empty
  <1> QED
    BY <1>15 DEF ByPromotion, S

\* Every mention is taken by one of the five rules.
LEMMA SomeRule ==
    ASSUME Shape, MembersExact, IndicesBacked,
           NEW x \in Texts, NEW t \in Types, TakeMention(x, t)
    PROVE  \/ ByText(x, t)
           \/ \E k : ByInitials(x, t, k)
           \/ ByPromotion(x, t)
           \/ \E k : BySimilarity(x, t, k)
           \/ ByItself(x, t)
  <1>1. CASE x \in reg.seen /\ LongForms(reg, x, t) \ {x} = {}
    BY <1>1, ByTextApplies
  <1>2. CASE LongForms(reg, x, t) # {} /\ ~(x \in reg.seen /\ LongForms(reg, x, t) \ {x} = {})
    BY <1>2, ByInitialsApplies
  <1>3. CASE LongForms(reg, x, t) = {} /\ x \notin reg.seen
    <2>1. CASE AbbreviatedKeys(reg, x, t) # {}
      BY <1>3, <2>1, ByPromotionApplies
    <2>2. CASE AbbreviatedKeys(reg, x, t) = {} /\ FirstSimilar(reg, x, t) # 0
      BY <1>3, <2>2, BySimilarityApplies
    <2>3. CASE AbbreviatedKeys(reg, x, t) = {} /\ FirstSimilar(reg, x, t) = 0
      BY <1>3, <2>3, ByItselfApplies
    <2> QED
      BY <2>1, <2>2, <2>3
  <1> QED
    BY <1>1, <1>2, <1>3

-----------------------------------------------------------------------------
(* The registry stays consistent.                                          *)

Consistent == Shape /\ MembersExact /\ IndicesBacked

\* The key a mention joins was its own text, or is one its type holds.
LEMMA JoinedKey ==
    ASSUME Consistent, NEW x \in Texts, NEW t \in Types, TakeMention(x, t)
    PROVE  /\ \A k : ByInitials(x, t, k) => Holds(t, k) /\ k \in Texts
           /\ \A k : BySimilarity(x, t, k) => Holds(t, k) /\ k \in Texts
  <1>1. \A k : Holds(t, k) => k \in Texts
    <2> SUFFICES ASSUME NEW k, Holds(t, k) PROVE k \in Texts
      OBVIOUS
    <2>1. k \in reg.seen
      BY HeldSeen DEF Consistent
    <2> QED
      BY <2>1 DEF Consistent, Shape
  <1>2. \A k : ByInitials(x, t, k) => Holds(t, k)
    <2> SUFFICES ASSUME NEW k, ByInitials(x, t, k) PROVE Holds(t, k)
      OBVIOUS
    <2> DEFINE p == << t, Alpha[x] >>
    <2>1. p \in DOMAIN reg.initials /\ k = reg.initials[p] /\ p[1] = t
      BY LongFormOf DEF ByInitials
    <2> HIDE DEF p
    <2> QED
      BY <2>1 DEF Consistent, IndicesBacked
  <1>3. \A k : BySimilarity(x, t, k) => Holds(t, k)
    BY DEF BySimilarity, Consistent, IndicesBacked
  <1> QED
    BY <1>1, <1>2, <1>3

LEMMA JoinHolders ==
    ASSUME Consistent, NEW x \in Texts, NEW t \in Types, TakeMention(x, t),
           NEW k, NEW m, Joins(t, k, m)
    PROVE  /\ Holders(k)' = Holders(k) \cup {New}
           /\ \A q : q # k => Holders(q)' = Holders(q)
           /\ MembersOf(reg, k) = Holders(k)
  <1>1. /\ DOMAIN reg.rows = 1 .. Len(input)
        /\ New \notin 1 .. Len(input)
        /\ 1 .. New = (1 .. Len(input)) \cup {New}
    BY InputGrows DEF Consistent, Shape
  <1>2. MembersOf(reg, k) = Holders(k)
    <2>1. CASE k \in DOMAIN reg.members
      BY <2>1 DEF Consistent, MembersExact, MembersOf
    <2>2. CASE k \notin DOMAIN reg.members
      <3>1. Holders(k) = {}
        BY <2>2 DEF Consistent, MembersExact, Holders
      <3> QED
        BY <2>2, <3>1 DEF MembersOf
    <2> QED
      BY <2>1, <2>2
  <1>3. /\ DOMAIN reg'.rows = (1 .. Len(input)) \cup {New}
        /\ \A i \in 1 .. Len(input) : reg'.rows[i] = reg.rows[i]
        /\ reg'.rows[New].text = k
    BY <1>1 DEF Joins
  <1>4. \A q : Holders(q)' = { i \in DOMAIN reg'.rows : reg'.rows[i].text = q }
    BY DEF Holders
  <1>5. \A q : Holders(q) = { i \in DOMAIN reg.rows : reg.rows[i].text = q }
    BY DEF Holders
  <1> QED
    BY <1>1, <1>2, <1>3, <1>4, <1>5

LEMMA JoinKeepsMembers ==
    ASSUME Consistent, NEW x \in Texts, NEW t \in Types, TakeMention(x, t),
           NEW k, NEW m, Joins(t, k, m)
    PROVE  MembersExact'
  <1>1. /\ Holders(k)' = Holders(k) \cup {New}
        /\ \A q : q # k => Holders(q)' = Holders(q)
        /\ MembersOf(reg, k) = Holders(k)
    BY JoinHolders
  <1>2. DOMAIN reg'.members = reg'.seen
    BY DEF Joins, Consistent, MembersExact
  <1>3. ASSUME NEW q \in reg'.seen
        PROVE  reg'.members[q] = Holders(q)' /\ Holders(q)' # {}
    <2>1. CASE q = k
      BY <1>1, <2>1 DEF Joins
    <2>2. CASE q # k
      BY <1>1, <1>3, <2>2 DEF Joins, Consistent, MembersExact
    <2> QED
      BY <2>1, <2>2
  <1>4. \A i \in DOMAIN reg'.rows : reg'.rows[i].text \in reg'.seen
    <2>1. /\ DOMAIN reg.rows = 1 .. Len(input)
          /\ 1 .. New = (1 .. Len(input)) \cup {New}
      BY InputGrows DEF Consistent, Shape
    <2> QED
      BY <2>1 DEF Joins, Consistent, MembersExact
  <1> QED
    BY <1>2, <1>3, <1>4 DEF MembersExact

\* Who holds what, as a function of the rows.
HeldIn(rows, t, k) == \E i \in DOMAIN rows : rows[i].type = t /\ rows[i].text = k

LEMMA HoldsIs ==
    \A t, k : (Holds(t, k) <=> HeldIn(reg.rows, t, k))
  BY DEF Holds, Holders, HeldIn

\* The indices are backed, said of the next registry.
LEMMA BackedNext ==
    ASSUME \A u \in Types : \A n \in DOMAIN reg'.texts[u] :
               HeldIn(reg'.rows, u, reg'.texts[u][n]),
           \A u \in Types : IsInjective(reg'.texts[u]),
           \A p \in reg'.abbrev : HeldIn(reg'.rows, p[1], p[2]),
           \A p \in DOMAIN reg'.initials :
               /\ HeldIn(reg'.rows, p[1], reg'.initials[p])
               /\ Initials[reg'.initials[p]] = p[2]
    PROVE  IndicesBacked'
  BY DEF IndicesBacked, Holds, Holders, HeldIn

\* Nobody loses a key by the arrival of a mention that joins.
LEMMA JoinHolds ==
    ASSUME Consistent, NEW x \in Texts, NEW t \in Types, TakeMention(x, t),
           NEW k, NEW m, Joins(t, k, m)
    PROVE  /\ HeldIn(reg'.rows, t, k)
           /\ \A u, q : HeldIn(reg.rows, u, q) => HeldIn(reg'.rows, u, q)
  <1>1. /\ DOMAIN reg.rows = 1 .. Len(input)
        /\ New \in 1 .. New
        /\ 1 .. New = (1 .. Len(input)) \cup {New}
    BY InputGrows DEF Consistent, Shape
  <1> QED
    BY <1>1 DEF Joins, HeldIn

LEMMA LearnKeepsIndices ==
    ASSUME Consistent, NEW x \in Texts, NEW t \in Types, TakeMention(x, t),
           NEW m, Joins(t, x, m), Learns(x, t)
    PROVE  IndicesBacked'
  <1>1. /\ HeldIn(reg'.rows, t, x)
        /\ \A u, q : Holds(u, q) => HeldIn(reg'.rows, u, q)
    BY JoinHolds, HoldsIs
  <1>2. /\ \A u \in Types : \A n \in DOMAIN reg.texts[u] : Holds(u, reg.texts[u][n])
        /\ \A u \in Types : IsInjective(reg.texts[u])
        /\ \A p \in reg.abbrev : Holds(p[1], p[2])
        /\ \A p \in DOMAIN reg.initials :
            Holds(p[1], reg.initials[p]) /\ Initials[reg.initials[p]] = p[2]
    BY DEF Consistent, IndicesBacked
  <1>3. ASSUME NEW u \in Types
        PROVE  /\ \A n \in DOMAIN reg'.texts[u] : HeldIn(reg'.rows, u, reg'.texts[u][n])
               /\ IsInjective(reg'.texts[u])
    <2>1. CASE reg'.texts[u] = reg.texts[u]
      BY <1>1, <1>2, <2>1
    <2>2. CASE reg'.texts[u] # reg.texts[u]
      <3> DEFINE s == reg.texts[t]
                 z == Append(s, x)
      <3>1. /\ u = t
            /\ reg'.texts[t] = z
            /\ \A n \in DOMAIN s : s[n] # x
        BY <1>3, <2>2 DEF Learns
      <3>2. s \in Seq(Texts)
        BY DEF Consistent, Shape
      <3>3. IsInjective(s) /\ \A n \in DOMAIN s : HeldIn(reg'.rows, t, s[n])
        BY <1>1, <1>2
      <3> HIDE DEF s
      <3>4. /\ DOMAIN s = 1 .. Len(s)
            /\ Len(s) \in Nat
            /\ DOMAIN z = 1 .. Len(s) + 1
            /\ z[Len(s) + 1] = x
            /\ \A i \in 1 .. Len(s) : z[i] = s[i]
        BY <3>2, AppendFields
      <3> HIDE DEF z
      <3>5. \A i \in DOMAIN z : i \in 1 .. Len(s) \/ i = Len(s) + 1
        BY <3>4
      <3>6. \A n \in DOMAIN z : HeldIn(reg'.rows, t, z[n])
        BY <1>1, <3>3, <3>4, <3>5
      <3>7. \A a, b \in DOMAIN z : z[a] = z[b] => a = b
        BY <3>1, <3>3, <3>4, <3>5 DEF IsInjective
      <3> QED
        BY <3>1, <3>6, <3>7 DEF IsInjective
    <2> QED
      BY <2>1, <2>2
  <1>4. ASSUME NEW p \in reg'.abbrev
        PROVE  HeldIn(reg'.rows, p[1], p[2])
    <2>1. CASE p \in reg.abbrev
      BY <1>1, <1>2, <2>1
    <2>2. CASE p = << t, x >>
      <3>1. p[1] = t /\ p[2] = x
        BY <2>2
      <3> QED
        BY <1>1, <3>1
    <2> QED
      BY <1>4, <2>1, <2>2 DEF Learns
  <1>5. ASSUME NEW p \in DOMAIN reg'.initials
        PROVE  /\ HeldIn(reg'.rows, p[1], reg'.initials[p])
               /\ Initials[reg'.initials[p]] = p[2]
    <2>1. CASE p \in DOMAIN reg.initials /\ reg'.initials[p] = reg.initials[p]
      BY <1>1, <1>2, <2>1
    <2>2. CASE p = << t, Initials[x] >> /\ reg'.initials[p] = x
      <3>1. p[1] = t /\ p[2] = Initials[x]
        BY <2>2
      <3> QED
        BY <1>1, <2>2, <3>1
    <2> QED
      BY <1>5, <2>1, <2>2 DEF Learns
  <1> QED
    BY <1>3, <1>4, <1>5, BackedNext

LEMMA KeepsIndices ==
    ASSUME Consistent, NEW x \in Texts, NEW t \in Types, TakeMention(x, t),
           NEW k, NEW m, Joins(t, k, m), Keeps
    PROVE  IndicesBacked'
  <1>1. \A u, q : Holds(u, q) => HeldIn(reg'.rows, u, q)
    BY JoinHolds, HoldsIs
  <1> QED
    BY <1>1, BackedNext DEF Keeps, Consistent, IndicesBacked

\* Who a promotion moves, and which keys it leaves empty.
LEMMA MovedIs ==
    ASSUME Consistent, NEW S, S \subseteq reg.seen, NEW t
    PROVE  /\ Moved(reg, S, t) =
                { i \in 1 .. Len(input) : reg.rows[i].type = t /\ reg.rows[i].text \in S }
           /\ Emptied(reg, S, Moved(reg, S, t)) =
                { s \in S : Holders(s) \subseteq Moved(reg, S, t) }
  <1>1. \A s \in S : MembersOf(reg, s) = Holders(s)
    BY DEF Consistent, MembersExact, MembersOf
  <1>2. DOMAIN reg.rows = 1 .. Len(input)
    BY DEF Consistent, Shape
  <1>3. Moved(reg, S, t) =
            { i \in 1 .. Len(input) : reg.rows[i].type = t /\ reg.rows[i].text \in S }
    BY <1>1, <1>2 DEF Moved, Holders
  <1>4. Emptied(reg, S, Moved(reg, S, t)) =
            { s \in S : Holders(s) \subseteq Moved(reg, S, t) }
    BY <1>1 DEF Emptied
  <1> QED
    BY <1>3, <1>4

LEMMA PromoteHolders ==
    ASSUME Consistent, NEW x \in Texts, NEW t \in Types, TakeMention(x, t),
           x \notin reg.seen, NEW S, S \subseteq reg.seen, Promotes(x, t, S)
    PROVE  /\ Holders(x)' = Moved(reg, S, t) \cup {New}
           /\ \A q : q # x => Holders(q)' = Holders(q) \ Moved(reg, S, t)
  <1> DEFINE moved == Moved(reg, S, t)
             w == Row(x, t, "abbreviation", 75)
  <1>1. /\ DOMAIN reg.rows = 1 .. Len(input)
        /\ New \notin 1 .. Len(input)
        /\ 1 .. New = (1 .. Len(input)) \cup {New}
    BY InputGrows DEF Consistent, Shape
  <1>2. w.text = x
    BY DEF Row
  <1>3. moved \subseteq 1 .. Len(input)
    <2>1. moved = { i \in 1 .. Len(input) :
                      reg.rows[i].type = t /\ reg.rows[i].text \in S }
      BY MovedIs
    <2> HIDE DEF moved
    <2> QED
      BY <2>1
  <1>4. \A i \in 1 .. Len(input) : reg.rows[i].text # x
    BY <1>1 DEF Consistent, MembersExact
  <1> HIDE DEF moved, w
  <1>5. /\ DOMAIN reg'.rows = (1 .. Len(input)) \cup {New}
        /\ \A i \in 1 .. Len(input) : reg'.rows[i] = IF i \in moved THEN w ELSE reg.rows[i]
        /\ reg'.rows[New].text = x
    BY <1>1 DEF Promotes, moved, w
  <1>6. \A q : Holders(q)' = { i \in DOMAIN reg'.rows : reg'.rows[i].text = q }
    BY DEF Holders
  <1>7. \A q : Holders(q) = { i \in DOMAIN reg.rows : reg.rows[i].text = q }
    BY DEF Holders
  <1>8. Holders(x)' = moved \cup {New}
    <2>1. \A i \in 1 .. Len(input) : reg'.rows[i].text = x <=> i \in moved
      BY <1>2, <1>4, <1>5
    <2> QED
      BY <1>3, <1>5, <1>6, <2>1
  <1>9. ASSUME NEW q, q # x PROVE Holders(q)' = Holders(q) \ moved
    <2>1. \A i \in 1 .. Len(input) :
            (reg'.rows[i].text = q <=> reg.rows[i].text = q /\ i \notin moved)
      BY <1>2, <1>5, <1>9
    <2> QED
      BY <1>1, <1>5, <1>6, <1>7, <1>9, <2>1
  <1> QED
    BY <1>8, <1>9 DEF moved

LEMMA PromoteKeepsMembers ==
    ASSUME Consistent, NEW x \in Texts, NEW t \in Types, TakeMention(x, t),
           x \notin reg.seen, NEW S, S \subseteq reg.seen, Promotes(x, t, S)
    PROVE  MembersExact'
  <1> DEFINE moved == Moved(reg, S, t)
             empty == Emptied(reg, S, moved)
  <1>1. /\ Holders(x)' = moved \cup {New}
        /\ \A q : q # x => Holders(q)' = Holders(q) \ moved
    BY PromoteHolders
  <1>2. /\ DOMAIN reg.rows = 1 .. Len(input)
        /\ 1 .. New = (1 .. Len(input)) \cup {New}
    BY InputGrows DEF Consistent, Shape
  <1>3. /\ moved = { i \in 1 .. Len(input) :
                       reg.rows[i].type = t /\ reg.rows[i].text \in S }
        /\ empty = { s \in S : Holders(s) \subseteq moved }
    BY MovedIs
  <1> HIDE DEF moved, empty
  <1>4. x \notin empty
    BY <1>3
  <1>5. /\ reg'.seen = (reg.seen \cup {x}) \ empty
        /\ DOMAIN reg'.members = (DOMAIN reg.members \cup {x}) \ empty
        /\ reg'.members[x] = moved \cup {New}
        /\ \A q \in DOMAIN reg'.members \ {x} : reg'.members[q] = reg.members[q] \ moved
    BY DEF Promotes, moved, empty
  <1>6. DOMAIN reg.members = reg.seen /\ \A q \in reg.seen : reg.members[q] = Holders(q)
    BY DEF Consistent, MembersExact
  <1>7. DOMAIN reg'.members = reg'.seen
    BY <1>5, <1>6
  <1>8. ASSUME NEW q \in reg'.seen
        PROVE  reg'.members[q] = Holders(q)' /\ Holders(q)' # {}
    <2>1. CASE q = x
      BY <1>1, <1>5, <2>1
    <2>2. CASE q # x
      <3>1. q \in reg.seen /\ q \notin empty
        BY <1>5, <1>8, <2>2
      <3>2. reg'.members[q] = Holders(q)'
        BY <1>1, <1>5, <1>6, <1>7, <1>8, <2>2, <3>1
      <3>3. Holders(q) # {}
        BY <3>1 DEF Consistent, MembersExact
      <3>4. Holders(q) \ moved # {}
        <4>1. CASE q \in S
          BY <1>3, <3>1, <4>1
        <4>2. CASE q \notin S
          BY <1>3, <3>3, <4>2 DEF Holders
        <4> QED
          BY <4>1, <4>2
      <3> QED
        BY <1>1, <2>2, <3>2, <3>4
    <2> QED
      BY <2>1, <2>2
  <1>9. ASSUME NEW i \in DOMAIN reg'.rows PROVE reg'.rows[i].text \in reg'.seen
    <2>1. DOMAIN reg'.rows = 1 .. New
      BY DEF Promotes
    <2>2. CASE i = New \/ i \in moved
      <3>1. reg'.rows[i].text = x
        <4>1. Row(x, t, "abbreviation", 75).text = x
          BY DEF Row
        <4>2. i \in moved => i \in 1 .. Len(input)
          BY <1>3
        <4> QED
          BY <2>2, <4>1, <4>2 DEF Promotes, moved
      <3> QED
        BY <1>4, <1>5, <3>1
    <2>3. CASE i # New /\ i \notin moved
      <3>1. i \in 1 .. Len(input)
        BY <1>2, <1>9, <2>1, <2>3
      <3>2. reg'.rows[i] = reg.rows[i]
        BY <2>3, <3>1 DEF Promotes, moved
      <3>3. reg.rows[i].text \in reg.seen
        BY <1>2, <3>1 DEF Consistent, MembersExact
      <3>4. i \in Holders(reg.rows[i].text)
        BY <1>2, <3>1 DEF Holders
      <3>5. reg.rows[i].text \notin empty
        BY <1>3, <2>3, <3>4
      <3> QED
        BY <1>5, <3>2, <3>3, <3>5
    <2> QED
      BY <2>2, <2>3
  <1> QED
    BY <1>7, <1>8, <1>9 DEF MembersExact

\* Only the type that spells out the long form loses its short keys.
LEMMA PromoteHolds ==
    ASSUME Consistent, NEW x \in Texts, NEW t \in Types, TakeMention(x, t),
           NEW S, S \subseteq reg.seen, Promotes(x, t, S)
    PROVE  /\ HeldIn(reg'.rows, t, x)
           /\ \A u, q : /\ HeldIn(reg.rows, u, q)
                        /\ ~(u = t /\ q \in S)
                        => HeldIn(reg'.rows, u, q)
           /\ \A s \in S : s # x => ~HeldIn(reg'.rows, t, s)
  <1> DEFINE moved == Moved(reg, S, t)
             w == Row(x, t, "abbreviation", 75)
  <1>1. /\ DOMAIN reg.rows = 1 .. Len(input)
        /\ New \in 1 .. New
        /\ 1 .. New = (1 .. Len(input)) \cup {New}
    BY InputGrows DEF Consistent, Shape
  <1>2. w.text = x /\ w.type = t
    BY DEF Row
  <1>3. moved = { i \in 1 .. Len(input) : reg.rows[i].type = t /\ reg.rows[i].text \in S }
    BY MovedIs
  <1> HIDE DEF moved, w
  <1>4. /\ DOMAIN reg'.rows = (1 .. Len(input)) \cup {New}
        /\ \A i \in 1 .. Len(input) : reg'.rows[i] = IF i \in moved THEN w ELSE reg.rows[i]
        /\ reg'.rows[New].text = x
        /\ reg'.rows[New].type = t
    BY <1>1 DEF Promotes, moved, w
  <1>5. HeldIn(reg'.rows, t, x)
    BY <1>4 DEF HeldIn
  <1>6. ASSUME NEW u, NEW q, HeldIn(reg.rows, u, q), ~(u = t /\ q \in S)
        PROVE  HeldIn(reg'.rows, u, q)
    <2>1. PICK i \in 1 .. Len(input) : reg.rows[i].type = u /\ reg.rows[i].text = q
      BY <1>1, <1>6 DEF HeldIn
    <2>2. i \notin moved
      BY <1>3, <1>6, <2>1
    <2>3. i \in DOMAIN reg'.rows /\ reg'.rows[i] = reg.rows[i]
      BY <1>4, <2>2
    <2> QED
      BY <2>1, <2>3 DEF HeldIn
  <1>7. ASSUME NEW s \in S, s # x PROVE ~HeldIn(reg'.rows, t, s)
    <2> SUFFICES ASSUME NEW i \in DOMAIN reg'.rows,
                        reg'.rows[i].type = t, reg'.rows[i].text = s
                 PROVE  FALSE
      BY DEF HeldIn
    <2>1. i \in 1 .. Len(input) /\ i \notin moved
      BY <1>2, <1>4, <1>7
    <2>2. reg.rows[i].type = t /\ reg.rows[i].text = s
      BY <1>4, <2>1
    <2> QED
      BY <1>3, <1>7, <2>1, <2>2
  <1> QED
    BY <1>5, <1>6, <1>7

LEMMA PromoteKeepsIndices ==
    ASSUME Consistent, NEW x \in Texts, NEW t \in Types, TakeMention(x, t),
           x \in DOMAIN Initials, NEW S, S \subseteq reg.seen, Promotes(x, t, S)
    PROVE  IndicesBacked'
  <1>1. /\ HeldIn(reg'.rows, t, x)
        /\ \A u, q : Holds(u, q) /\ ~(u = t /\ q \in S) => HeldIn(reg'.rows, u, q)
    BY PromoteHolds, HoldsIs
  <1>2. /\ \A u \in Types : \A n \in DOMAIN reg.texts[u] : Holds(u, reg.texts[u][n])
        /\ \A u \in Types : IsInjective(reg.texts[u])
        /\ \A p \in reg.abbrev : Holds(p[1], p[2])
        /\ \A p \in DOMAIN reg.initials :
            Holds(p[1], reg.initials[p]) /\ Initials[reg.initials[p]] = p[2]
    BY DEF Consistent, IndicesBacked
  <1>3. ASSUME NEW u \in Types
        PROVE  /\ \A n \in DOMAIN reg'.texts[u] : HeldIn(reg'.rows, u, reg'.texts[u][n])
               /\ IsInjective(reg'.texts[u])
    <2>1. CASE u # t
      <3>1. reg'.texts[u] = reg.texts[u]
        BY <2>1 DEF Promotes
      <3> QED
        BY <1>1, <1>2, <2>1, <3>1
    <2>2. CASE u = t
      <3>1. IsInjective(reg'.texts[t])
        BY DEF Promotes
      <3>2. \A n \in DOMAIN reg'.texts[t] : HeldIn(reg'.rows, t, reg'.texts[t][n])
        <4> SUFFICES ASSUME NEW n \in DOMAIN reg'.texts[t], reg'.texts[t][n] # x
                     PROVE  HeldIn(reg'.rows, t, reg'.texts[t][n])
          BY <1>1
        <4>1. reg'.texts[t][n] \notin S
          BY DEF Promotes
        <4>2. \E m \in DOMAIN reg.texts[t] : reg'.texts[t][n] = reg.texts[t][m]
          BY DEF Promotes
        <4>3. Holds(t, reg'.texts[t][n])
          BY <1>2, <4>2
        <4> QED
          BY <1>1, <4>1, <4>3
      <3> QED
        BY <2>2, <3>1, <3>2
    <2> QED
      BY <2>1, <2>2
  <1>4. ASSUME NEW p \in reg'.abbrev PROVE HeldIn(reg'.rows, p[1], p[2])
    <2>1. CASE p = << t, x >>
      <3>1. p[1] = t /\ p[2] = x
        BY <2>1
      <3> QED
        BY <1>1, <3>1
    <2>2. CASE p # << t, x >>
      <3>1. p \in reg.abbrev /\ p \notin {t} \X S
        BY <1>4, <2>2 DEF Promotes
      <3>2. p \in Types \X Texts
        BY <3>1 DEF Consistent, Shape
      <3>3. ~(p[1] = t /\ p[2] \in S)
        BY <3>1, <3>2
      <3> QED
        BY <1>1, <1>2, <3>1, <3>3
    <2> QED
      BY <2>1, <2>2
  <1>5. ASSUME NEW p \in DOMAIN reg'.initials
        PROVE  /\ HeldIn(reg'.rows, p[1], reg'.initials[p])
               /\ Initials[reg'.initials[p]] = p[2]
    <2>1. CASE p = << t, Initials[x] >> /\ reg'.initials[p] = x
      <3>1. p[1] = t /\ p[2] = Initials[x]
        BY <2>1
      <3> QED
        BY <1>1, <2>1, <3>1
    <2>2. CASE /\ p \in DOMAIN reg.initials
               /\ reg'.initials[p] = reg.initials[p]
               /\ ~(p[1] = t /\ reg.initials[p] \in S)
      BY <1>1, <1>2, <2>2
    <2> QED
      BY <1>5, <2>1, <2>2 DEF Promotes
  <1> QED
    BY <1>3, <1>4, <1>5, BackedNext

LEMMA JoinKeepsShape ==
    ASSUME Consistent, NEW x \in Texts, NEW t \in Types, TakeMention(x, t),
           NEW k \in Texts, NEW m \in Methods, Joins(t, k, m),
           Keeps \/ Learns(x, t)
    PROVE  Shape'
  <1>1. /\ DOMAIN reg.rows = 1 .. Len(input)
        /\ 1 .. New = (1 .. Len(input)) \cup {New}
        /\ Len(input') = New
        /\ input'[New] = [text |-> x, type |-> t]
        /\ \A i \in 1 .. Len(input) : input'[i] = input[i]
        /\ input' \in Seq([text : Texts, type : Types])
    BY InputGrows DEF Consistent, Shape
  <1>2. DOMAIN reg'.rows = 1 .. Len(input')
    BY <1>1 DEF Joins
  <1>3. ASSUME NEW i \in DOMAIN reg'.rows
        PROVE  /\ reg'.rows[i].text \in Texts
               /\ reg'.rows[i].type = input'[i].type
               /\ reg'.rows[i].method \in Methods
    <2>1. CASE i = New
      BY <1>1, <2>1 DEF Joins
    <2>2. CASE i \in 1 .. Len(input)
      BY <1>1, <2>2 DEF Joins, Consistent, Shape
    <2> QED
      BY <1>1, <1>2, <2>1, <2>2
  <1>4. reg'.seen \subseteq Texts
    BY DEF Joins, Consistent, Shape
  <1>5. /\ reg'.texts \in [Types -> Seq(Texts)]
        /\ reg'.abbrev \subseteq Types \X Texts
    BY DEF Keeps, Learns, Consistent, Shape
  <1>6. /\ DOMAIN reg'.initials \subseteq Types \X LongKeys
        /\ \A p \in DOMAIN reg'.initials : reg'.initials[p] \in DOMAIN Initials
    <2>1. CASE Keeps
      BY <2>1 DEF Keeps, Consistent, Shape
    <2>2. CASE Learns(x, t)
      <3>1. ASSUME NEW p \in DOMAIN reg'.initials
            PROVE  p \in Types \X LongKeys /\ reg'.initials[p] \in DOMAIN Initials
        <4>1. CASE p \in DOMAIN reg.initials /\ reg'.initials[p] = reg.initials[p]
          BY <4>1 DEF Consistent, Shape
        <4>2. CASE x \in DOMAIN Initials /\ p = << t, Initials[x] >> /\ reg'.initials[p] = x
          BY <4>2 DEF LongKeys
        <4> QED
          BY <2>2, <3>1, <4>1, <4>2 DEF Learns
      <3> QED
        BY <3>1
    <2> QED
      BY <2>1, <2>2
  <1> QED
    BY <1>1, <1>2, <1>3, <1>4, <1>5, <1>6 DEF Shape, Joins

LEMMA PromoteKeepsShape ==
    ASSUME Consistent, NEW x \in Texts, NEW t \in Types, TakeMention(x, t),
           x \in DOMAIN Initials, NEW S, S \subseteq reg.seen, Promotes(x, t, S)
    PROVE  Shape'
  <1> DEFINE moved == Moved(reg, S, t)
             w == Row(x, t, "abbreviation", 75)
  <1>1. /\ DOMAIN reg.rows = 1 .. Len(input)
        /\ 1 .. New = (1 .. Len(input)) \cup {New}
        /\ Len(input') = New
        /\ input'[New] = [text |-> x, type |-> t]
        /\ \A i \in 1 .. Len(input) : input'[i] = input[i]
        /\ input' \in Seq([text : Texts, type : Types])
    BY InputGrows DEF Consistent, Shape
  <1>2. DOMAIN reg'.rows = 1 .. Len(input')
    BY <1>1 DEF Promotes
  <1>3. w.text = x /\ w.type = t /\ w.method \in Methods
    BY DEF Row, Methods
  <1>4. moved = { i \in 1 .. Len(input) : reg.rows[i].type = t /\ reg.rows[i].text \in S }
    BY MovedIs
  <1>5. "label_cluster" \in Methods
    BY DEF Methods
  <1> HIDE DEF moved, w
  <1>6. ASSUME NEW i \in DOMAIN reg'.rows
        PROVE  /\ reg'.rows[i].text \in Texts
               /\ reg'.rows[i].type = input'[i].type
               /\ reg'.rows[i].method \in Methods
    <2>1. CASE i = New
      BY <1>1, <1>5, <2>1 DEF Promotes
    <2>2. CASE i \in 1 .. Len(input) /\ i \in moved
      <3>1. reg'.rows[i] = w
        BY <2>2 DEF Promotes, moved, w
      <3>2. input'[i].type = t
        BY <1>1, <1>4, <2>2 DEF Consistent, Shape
      <3> QED
        BY <1>3, <3>1, <3>2
    <2>3. CASE i \in 1 .. Len(input) /\ i \notin moved
      <3>1. reg'.rows[i] = reg.rows[i]
        BY <2>3 DEF Promotes, moved
      <3> QED
        BY <1>1, <2>3, <3>1 DEF Consistent, Shape
    <2> QED
      BY <1>1, <1>2, <2>1, <2>2, <2>3
  <1>7. reg'.seen \subseteq Texts
    BY DEF Promotes, Consistent, Shape
  <1>8. reg'.texts \in [Types -> Seq(Texts)]
    BY DEF Promotes
  <1>9. reg'.abbrev \subseteq Types \X Texts
    BY DEF Promotes, Consistent, Shape
  <1>10. /\ DOMAIN reg'.initials \subseteq Types \X LongKeys
         /\ \A p \in DOMAIN reg'.initials : reg'.initials[p] \in DOMAIN Initials
    <2>1. ASSUME NEW p \in DOMAIN reg'.initials
          PROVE  p \in Types \X LongKeys /\ reg'.initials[p] \in DOMAIN Initials
      <3>1. CASE p \in DOMAIN reg.initials /\ reg'.initials[p] = reg.initials[p]
        BY <3>1 DEF Consistent, Shape
      <3>2. CASE p = << t, Initials[x] >> /\ reg'.initials[p] = x
        BY <3>2 DEF LongKeys
      <3> QED
        BY <2>1, <3>1, <3>2 DEF Promotes
    <2> QED
      BY <2>1
  <1> QED
    BY <1>1, <1>2, <1>6, <1>7, <1>8, <1>9, <1>10 DEF Shape, Promotes

\* Whatever rule takes the mention, the registry stays consistent.
LEMMA ConsistentStep ==
    ASSUME Consistent, NEW x \in Texts, NEW t \in Types, TakeMention(x, t)
    PROVE  Consistent'
  <1>2. /\ "normalized_exact" \in Methods
        /\ "label_cluster" \in Methods
        /\ "abbreviation" \in Methods
        /\ "fuzzy" \in Methods
    BY DEF Methods
  <1>3. CASE ByText(x, t)
    <2>1. Joins(t, x, "normalized_exact") /\ Learns(x, t)
      BY <1>3 DEF ByText
    <2> QED
      BY <1>2, <2>1, JoinKeepsShape, JoinKeepsMembers, LearnKeepsIndices
         DEF Consistent
  <1>4. CASE \E k : ByInitials(x, t, k)
    <2>1. PICK k : ByInitials(x, t, k)
      BY <1>4
    <2>2. Joins(t, k, "abbreviation") /\ Keeps
      BY <2>1 DEF ByInitials
    <2>3. k \in Texts
      BY <2>1, JoinedKey
    <2> QED
      BY <1>2, <2>2, <2>3, JoinKeepsShape, JoinKeepsMembers, KeepsIndices
         DEF Consistent
  <1>5. CASE ByPromotion(x, t)
    <2>1. \A s \in AbbreviatedKeys(reg, x, t) : x \in DOMAIN Initials /\ s \in reg.seen
      BY ShortKeys DEF Consistent
    <2>2. PICK S : S = AbbreviatedKeys(reg, x, t)
      OBVIOUS
    <2>3. /\ x \in DOMAIN Initials
          /\ S \subseteq reg.seen
          /\ x \notin reg.seen
          /\ Promotes(x, t, S)
      BY <1>5, <2>1, <2>2 DEF ByPromotion
    <2> QED
      BY <2>3, PromoteKeepsShape, PromoteKeepsMembers, PromoteKeepsIndices
         DEF Consistent
  <1>6. CASE \E k : BySimilarity(x, t, k)
    <2>1. PICK k : BySimilarity(x, t, k)
      BY <1>6
    <2>2. Joins(t, k, "fuzzy") /\ Keeps
      BY <2>1 DEF BySimilarity
    <2>3. k \in Texts
      BY <2>1, JoinedKey
    <2> QED
      BY <1>2, <2>2, <2>3, JoinKeepsShape, JoinKeepsMembers, KeepsIndices
         DEF Consistent
  <1>7. CASE ByItself(x, t)
    <2>1. Joins(t, x, "label_cluster") /\ Learns(x, t)
      BY <1>7 DEF ByItself
    <2> QED
      BY <1>2, <2>1, JoinKeepsShape, JoinKeepsMembers, LearnKeepsIndices
         DEF Consistent
  <1> QED
    BY <1>3, <1>4, <1>5, <1>6, <1>7, SomeRule DEF Consistent

LEMMA ConsistentInit == Init => Consistent
  <1> SUFFICES ASSUME Init PROVE Consistent
    OBVIOUS
  <1>1. /\ input = << >>
        /\ reg = [rows |-> << >>, seen |-> {}, members |-> << >>,
                  texts |-> [t \in Types |-> << >>], abbrev |-> {}, initials |-> << >>]
    BY DEF Init, EmptyRegistry
  <1>2. /\ input = << >>
        /\ DOMAIN reg = Fields
        /\ reg.rows = << >>
        /\ reg.seen = {}
        /\ reg.members = << >>
        /\ reg.texts = [t \in Types |-> << >>]
        /\ reg.abbrev = {}
        /\ reg.initials = << >>
    BY <1>1 DEF Fields
  <1>3. DOMAIN << >> = {} /\ Len(<< >>) = 0 /\ 1 .. 0 = {}
    OBVIOUS
  <1>4. Shape
    BY <1>2, <1>3 DEF Shape
  <1>5. MembersExact
    BY <1>2, <1>3 DEF MembersExact
  <1>6. IndicesBacked
    BY <1>2, <1>3 DEF IndicesBacked, IsInjective
  <1> QED
    BY <1>4, <1>5, <1>6 DEF Consistent

-----------------------------------------------------------------------------
(* What the rows say of the mentions.                                      *)

\* Every key is the text of a mention of the type that holds it.
OwnTexts ==
    \A i \in DOMAIN reg.rows :
        \E j \in DOMAIN input : /\ input[j].text = reg.rows[i].text
                                /\ input[j].type = reg.rows[i].type

\* What is recorded as certain is under its own text.
CertainOwn ==
    \A i \in DOMAIN reg.rows :
        reg.rows[i].method \in {"label_cluster", "normalized_exact"} =>
            reg.rows[i].text = input[i].text

\* Every key that a type holds may be replaced by a long form of that type.
HeldOffered ==
    \A i \in DOMAIN reg.rows : << reg.rows[i].type, reg.rows[i].text >> \in reg.abbrev

\* With no similar spellings nothing is put under a key by similarity.
NoSimilar ==
    Dissimilar => \A i \in DOMAIN reg.rows : reg.rows[i].method # "fuzzy"

\* With no chain of long forms either, an abbreviation is under an initialism
\* of its own text and not under that text itself, ...
Abbreviates ==
    Dissimilar /\ Unchained =>
        \A i \in DOMAIN reg.rows :
            reg.rows[i].method = "abbreviation" =>
                /\ reg.rows[i].text \in DOMAIN Initials
                /\ Initials[reg.rows[i].text] = Alpha[input[i].text]
                /\ reg.rows[i].text # input[i].text

\* ... and the initials of every long form met lead to a long form.
LongsKnown ==
    Dissimilar /\ Unchained =>
        \A j \in DOMAIN input :
            input[j].text \in DOMAIN Initials =>
                << input[j].type, Initials[input[j].text] >> \in DOMAIN reg.initials

LEMMA OwnJoin ==
    ASSUME Consistent, OwnTexts, CertainOwn, HeldOffered,
           NEW x \in Texts, NEW t \in Types, TakeMention(x, t),
           NEW k, NEW m, Joins(t, k, m),
           \/ k = x /\ << t, x >> \in reg'.abbrev
           \/ Holds(t, k) /\ m \notin {"label_cluster", "normalized_exact"},
           reg.abbrev \subseteq reg'.abbrev
    PROVE  OwnTexts' /\ CertainOwn' /\ HeldOffered'
  <1>1. /\ DOMAIN reg.rows = 1 .. Len(input)
        /\ DOMAIN input = 1 .. Len(input)
        /\ DOMAIN input' = 1 .. New
        /\ 1 .. New = (1 .. Len(input)) \cup {New}
        /\ input'[New] = [text |-> x, type |-> t]
        /\ \A i \in 1 .. Len(input) : input'[i] = input[i]
    BY InputGrows DEF Consistent, Shape
  <1>2. /\ DOMAIN reg'.rows = 1 .. New
        /\ \A i \in 1 .. Len(input) : reg'.rows[i] = reg.rows[i]
        /\ reg'.rows[New].text = k
        /\ reg'.rows[New].type = t
        /\ reg'.rows[New].method = m
    BY DEF Joins
  <1>3. Holds(t, k) => \E i \in 1 .. Len(input) : reg.rows[i].type = t /\ reg.rows[i].text = k
    BY <1>1 DEF Holds, Holders
  <1>4. ASSUME NEW i \in 1 .. New
        PROVE  \E j \in 1 .. New : /\ input'[j].text = reg'.rows[i].text
                                   /\ input'[j].type = reg'.rows[i].type
    <2>1. \A h \in 1 .. Len(input) :
            \E j \in 1 .. Len(input) : /\ input'[j].text = reg.rows[h].text
                                       /\ input'[j].type = reg.rows[h].type
      BY <1>1 DEF OwnTexts
    <2>2. CASE i \in 1 .. Len(input)
      <3>1. PICK j \in 1 .. Len(input) : /\ input'[j].text = reg.rows[i].text
                                         /\ input'[j].type = reg.rows[i].type
        BY <2>1, <2>2
      <3>2. j \in 1 .. New /\ reg'.rows[i] = reg.rows[i]
        BY <1>1, <1>2, <2>2
      <3> QED
        BY <3>1, <3>2
    <2>3. CASE i = New /\ k = x
      BY <1>1, <1>2, <2>3
    <2>4. CASE i = New /\ Holds(t, k)
      <3>1. PICK h \in 1 .. Len(input) : reg.rows[h].type = t /\ reg.rows[h].text = k
        BY <1>3, <2>4
      <3>2. PICK j \in 1 .. Len(input) : /\ input'[j].text = reg.rows[h].text
                                         /\ input'[j].type = reg.rows[h].type
        BY <2>1
      <3>3. j \in 1 .. New
        BY <1>1
      <3> QED
        BY <1>2, <2>4, <3>1, <3>2, <3>3
    <2> QED
      BY <1>1, <2>2, <2>3, <2>4
  <1>5. ASSUME NEW i \in 1 .. New,
               reg'.rows[i].method \in {"label_cluster", "normalized_exact"}
        PROVE  reg'.rows[i].text = input'[i].text
    <2>1. CASE i \in 1 .. Len(input)
      BY <1>1, <1>2, <1>5, <2>1 DEF CertainOwn
    <2>2. CASE i = New
      BY <1>1, <1>2, <1>5, <2>2
    <2> QED
      BY <1>1, <2>1, <2>2
  <1>6. ASSUME NEW i \in 1 .. New
        PROVE  << reg'.rows[i].type, reg'.rows[i].text >> \in reg'.abbrev
    <2>1. CASE i \in 1 .. Len(input)
      BY <1>1, <1>2, <2>1 DEF HeldOffered
    <2>2. CASE i = New /\ k = x /\ << t, x >> \in reg'.abbrev
      BY <1>2, <2>2
    <2>3. CASE i = New /\ Holds(t, k)
      <3>1. PICK h \in 1 .. Len(input) : reg.rows[h].type = t /\ reg.rows[h].text = k
        BY <1>3, <2>3
      <3>2. << reg.rows[h].type, reg.rows[h].text >> \in reg.abbrev
        BY <1>1 DEF HeldOffered
      <3> QED
        BY <1>2, <2>3, <3>1, <3>2
    <2> QED
      BY <1>1, <2>1, <2>2, <2>3
  <1> QED
    BY <1>1, <1>2, <1>4, <1>5, <1>6 DEF OwnTexts, CertainOwn, HeldOffered

LEMMA OwnPromote ==
    ASSUME Consistent, OwnTexts, CertainOwn, HeldOffered,
           NEW x \in Texts, NEW t \in Types, TakeMention(x, t),
           NEW S, S \subseteq reg.seen, Promotes(x, t, S)
    PROVE  OwnTexts' /\ CertainOwn' /\ HeldOffered'
  <1> DEFINE moved == Moved(reg, S, t)
             w == Row(x, t, "abbreviation", 75)
  <1>1. /\ DOMAIN reg.rows = 1 .. Len(input)
        /\ DOMAIN input = 1 .. Len(input)
        /\ DOMAIN input' = 1 .. New
        /\ 1 .. New = (1 .. Len(input)) \cup {New}
        /\ input'[New] = [text |-> x, type |-> t]
        /\ \A i \in 1 .. Len(input) : input'[i] = input[i]
    BY InputGrows DEF Consistent, Shape
  <1>2. w.text = x /\ w.type = t /\ w.method = "abbreviation"
    BY DEF Row
  <1>3. moved = { i \in 1 .. Len(input) : reg.rows[i].type = t /\ reg.rows[i].text \in S }
    BY MovedIs
  <1> HIDE DEF moved, w
  <1>4. /\ DOMAIN reg'.rows = 1 .. New
        /\ \A i \in 1 .. Len(input) : reg'.rows[i] = IF i \in moved THEN w ELSE reg.rows[i]
        /\ reg'.rows[New].text = x
        /\ reg'.rows[New].type = t
        /\ reg'.abbrev = (reg.abbrev \ ({t} \X S)) \cup {<< t, x >>}
    BY DEF Promotes, moved, w
  <1>5. ASSUME NEW i \in 1 .. New
        PROVE  \/ reg'.rows[i].text = x /\ reg'.rows[i].type = t
               \/ i \in 1 .. Len(input) /\ i \notin moved /\ reg'.rows[i] = reg.rows[i]
    BY <1>1, <1>2, <1>4
  <1>6. ASSUME NEW i \in 1 .. New
        PROVE  \E j \in 1 .. New : /\ input'[j].text = reg'.rows[i].text
                                   /\ input'[j].type = reg'.rows[i].type
    <2>1. CASE reg'.rows[i].text = x /\ reg'.rows[i].type = t
      BY <1>1, <2>1
    <2>2. CASE i \in 1 .. Len(input) /\ reg'.rows[i] = reg.rows[i]
      BY <1>1, <2>2 DEF OwnTexts
    <2> QED
      BY <1>5, <2>1, <2>2
  <1>7. ASSUME NEW i \in 1 .. New,
               reg'.rows[i].method \in {"label_cluster", "normalized_exact"}
        PROVE  reg'.rows[i].text = input'[i].text
    <2>1. CASE i = New
      BY <1>1, <1>4, <2>1
    <2>2. CASE i \in 1 .. Len(input)
      <3>1. i \notin moved
        BY <1>2, <1>4, <1>7, <2>2
      <3> QED
        BY <1>1, <1>4, <1>7, <2>2, <3>1 DEF CertainOwn
    <2> QED
      BY <1>1, <2>1, <2>2
  <1>8. ASSUME NEW i \in 1 .. New
        PROVE  << reg'.rows[i].type, reg'.rows[i].text >> \in reg'.abbrev
    <2>1. CASE reg'.rows[i].text = x /\ reg'.rows[i].type = t
      BY <1>4, <2>1
    <2>2. CASE i \in 1 .. Len(input) /\ i \notin moved /\ reg'.rows[i] = reg.rows[i]
      <3>1. << reg.rows[i].type, reg.rows[i].text >> \in reg.abbrev
        BY <1>1, <2>2 DEF HeldOffered
      <3>2. ~(reg.rows[i].type = t /\ reg.rows[i].text \in S)
        BY <1>3, <2>2
      <3> QED
        BY <1>4, <2>2, <3>1, <3>2
    <2> QED
      BY <1>5, <2>1, <2>2
  <1> QED
    BY <1>1, <1>4, <1>6, <1>7, <1>8 DEF OwnTexts, CertainOwn, HeldOffered

LEMMA OwnStep ==
    ASSUME Consistent, OwnTexts, CertainOwn, HeldOffered,
           NEW x \in Texts, NEW t \in Types, TakeMention(x, t)
    PROVE  OwnTexts' /\ CertainOwn' /\ HeldOffered'
  <1>1. CASE ByText(x, t)
    <2>1. Joins(t, x, "normalized_exact") /\ Learns(x, t)
      BY <1>1 DEF ByText
    <2>2. << t, x >> \in reg'.abbrev /\ reg.abbrev \subseteq reg'.abbrev
      BY <2>1 DEF Learns
    <2> QED
      BY <2>1, <2>2, OwnJoin
  <1>2. CASE \E k : ByInitials(x, t, k)
    <2>1. PICK k : ByInitials(x, t, k)
      BY <1>2
    <2>2. Joins(t, k, "abbreviation") /\ reg.abbrev \subseteq reg'.abbrev
      BY <2>1 DEF ByInitials, Keeps
    <2>3. Holds(t, k)
      BY <2>1, JoinedKey
    <2> QED
      BY <2>2, <2>3, OwnJoin
  <1>3. CASE ByPromotion(x, t)
    <2>1. PICK S : S = AbbreviatedKeys(reg, x, t)
      OBVIOUS
    <2>2. S \subseteq reg.seen
      BY <2>1, ShortKeys DEF Consistent
    <2>3. Promotes(x, t, S)
      BY <1>3, <2>1 DEF ByPromotion
    <2> QED
      BY <2>2, <2>3, OwnPromote
  <1>4. CASE \E k : BySimilarity(x, t, k)
    <2>1. PICK k : BySimilarity(x, t, k)
      BY <1>4
    <2>2. Joins(t, k, "fuzzy") /\ reg.abbrev \subseteq reg'.abbrev
      BY <2>1 DEF BySimilarity, Keeps
    <2>3. Holds(t, k)
      BY <2>1, JoinedKey
    <2> QED
      BY <2>2, <2>3, OwnJoin
  <1>5. CASE ByItself(x, t)
    <2>1. Joins(t, x, "label_cluster") /\ Learns(x, t)
      BY <1>5 DEF ByItself
    <2>2. << t, x >> \in reg'.abbrev /\ reg.abbrev \subseteq reg'.abbrev
      BY <2>1 DEF Learns
    <2> QED
      BY <2>1, <2>2, OwnJoin
  <1> QED
    BY <1>1, <1>2, <1>3, <1>4, <1>5, SomeRule DEF Consistent

-----------------------------------------------------------------------------
(* Where the names do not stand in the way.                                *)

\* What is true of more mentions was true of fewer.
LEMMA ConditionsBefore ==
    ASSUME Consistent, NEW x \in Texts, NEW t \in Types, TakeMention(x, t)
    PROVE  /\ Dissimilar' => Dissimilar
           /\ Unchained' => Unchained
           /\ OneTypePerText' => OneTypePerText
           /\ DistinctInitials' => DistinctInitials
  <1>1. /\ DOMAIN input = 1 .. Len(input)
        /\ DOMAIN input' = 1 .. New
        /\ 1 .. New = (1 .. Len(input)) \cup {New}
        /\ \A i \in 1 .. Len(input) : input'[i] = input[i]
    BY InputGrows DEF Consistent, Shape
  <1>2. \A i \in DOMAIN input : i \in DOMAIN input' /\ input'[i] = input[i]
    BY <1>1
  <1>3. Dissimilar' => Dissimilar
    BY <1>2 DEF Dissimilar, Own
  <1>4. Unchained' => Unchained
    BY <1>2 DEF Unchained, Own
  <1>5. OneTypePerText' => OneTypePerText
    BY <1>2 DEF OneTypePerText, Own
  <1>6. DistinctInitials' => DistinctInitials
    BY <1>2 DEF DistinctInitials, Own
  <1> QED
    BY <1>3, <1>4, <1>5, <1>6

\* A key in use is the text of a mention; one of a type, of a mention of it.
LEMMA TextOfKey ==
    ASSUME Consistent, OwnTexts
    PROVE  /\ \A k \in reg.seen : \E j \in 1 .. Len(input) : input[j].text = k
           /\ \A t, k : Holds(t, k) =>
                \E j \in 1 .. Len(input) : input[j].text = k /\ input[j].type = t
  <1>1. DOMAIN reg.rows = 1 .. Len(input) /\ DOMAIN input = 1 .. Len(input)
    BY DEF Consistent, Shape
  <1>2. ASSUME NEW k \in reg.seen
        PROVE  \E j \in 1 .. Len(input) : input[j].text = k
    <2>1. PICK i \in DOMAIN reg.rows : reg.rows[i].text = k
      BY <1>2 DEF Consistent, MembersExact, Holders
    <2> QED
      BY <1>1, <2>1 DEF OwnTexts
  <1>3. ASSUME NEW t, NEW k, Holds(t, k)
        PROVE  \E j \in 1 .. Len(input) : input[j].text = k /\ input[j].type = t
    <2>1. PICK i \in DOMAIN reg.rows : reg.rows[i].text = k /\ reg.rows[i].type = t
      BY <1>3 DEF Holds, Holders
    <2> QED
      BY <1>1, <2>1 DEF OwnTexts
  <1> QED
    BY <1>2, <1>3

LEMMA SimilarityExcluded ==
    ASSUME Consistent, OwnTexts, NEW x \in Texts, NEW t \in Types, TakeMention(x, t),
           Dissimilar'
    PROVE  \A k : ~BySimilarity(x, t, k)
  <1> SUFFICES ASSUME NEW k, BySimilarity(x, t, k) PROVE FALSE
    OBVIOUS
  <1>1. /\ DOMAIN input' = 1 .. New
        /\ 1 .. New = (1 .. Len(input)) \cup {New}
        /\ input'[New] = [text |-> x, type |-> t]
        /\ \A i \in 1 .. Len(input) : input'[i] = input[i]
    BY InputGrows DEF Consistent, Shape
  <1>2. Holds(t, k) /\ k \in Texts
    BY JoinedKey
  <1>3. k \in reg.seen
    BY <1>2, HeldSeen DEF Consistent
  <1>4. k # x /\ Ratio[<< x, k >>] >= FuzzyThreshold
    BY <1>3 DEF BySimilarity
  <1>5. PICK j \in 1 .. Len(input) : input[j].text = k
    BY <1>3, TextOfKey
  <1>6. input'[New].text = x /\ input'[j].text = k /\ New \in DOMAIN input' /\ j \in DOMAIN input'
    BY <1>1, <1>5
  <1>7. Ratio[<< x, k >>] < FuzzyThreshold
    BY Zenon, <1>4, <1>6 DEF Dissimilar, Own
  <1>8. Ratio[<< x, k >>] \in Nat
    <2>1. << x, k >> \in Texts \X Texts
      BY <1>2
    <2>2. Ratio[<< x, k >>] \in 0 .. 100
      BY <2>1, TextAssumption
    <2>3. \A r : r \in 0 .. 100 => r \in Nat
      OBVIOUS
    <2> QED
      BY Zenon, <2>2, <2>3
  <1> QED
    BY <1>4, <1>7, <1>8, SMT DEF FuzzyThreshold

\* What a key offered to `x' by its initials is.
LEMMA OfferedLong ==
    ASSUME Consistent, NEW x \in Texts, NEW t \in Types, NEW k \in LongForms(reg, x, t)
    PROVE  /\ k \in DOMAIN Initials
           /\ Initials[k] = Alpha[x]
           /\ Holds(t, k)
           /\ k \in reg.seen
  <1> DEFINE p == << t, Alpha[x] >>
  <1>1. p \in DOMAIN reg.initials /\ k = reg.initials[p] /\ p[1] = t /\ p[2] = Alpha[x]
    BY LongFormOf
  <1> HIDE DEF p
  <1>2. k \in DOMAIN Initials
    BY <1>1 DEF Consistent, Shape
  <1>3. Initials[k] = Alpha[x] /\ Holds(t, k)
    BY <1>1 DEF Consistent, IndicesBacked
  <1> QED
    BY <1>2, <1>3, HeldSeen DEF Consistent

\* Without chains, a long form neither abbreviates nor replaces a long form.
LEMMA ChainExcluded ==
    ASSUME Consistent, OwnTexts, NEW x \in Texts, NEW t \in Types, TakeMention(x, t),
           x \in DOMAIN Initials, Unchained'
    PROVE  /\ \A k \in LongForms(reg, x, t) : k = x
           /\ x \notin reg.seen =>
                \A s \in AbbreviatedKeys(reg, x, t) : s \notin DOMAIN Initials
  <1>1. /\ DOMAIN input' = 1 .. New
        /\ 1 .. New = (1 .. Len(input)) \cup {New}
        /\ input'[New] = [text |-> x, type |-> t]
        /\ \A i \in 1 .. Len(input) : input'[i] = input[i]
    BY InputGrows DEF Consistent, Shape
  <1>2. \A i, j \in DOMAIN input' :
            /\ input'[i].text \in DOMAIN Initials
            /\ input'[j].text \in DOMAIN Initials
            /\ Initials[input'[j].text] = Alpha[input'[i].text]
            => input'[i].text = input'[j].text
    BY DEF Unchained, Own
  <1>3. input'[New].text = x /\ New \in DOMAIN input'
    BY <1>1
  <1>4. ASSUME NEW k \in LongForms(reg, x, t) PROVE k = x
    <2>1. k \in DOMAIN Initials /\ Initials[k] = Alpha[x] /\ k \in reg.seen
      BY OfferedLong
    <2>2. PICK j \in 1 .. Len(input) : input[j].text = k
      BY <2>1, TextOfKey
    <2>3. j \in DOMAIN input' /\ input'[j].text = k
      BY <1>1, <2>2
    <2> QED
      BY <1>2, <1>3, <2>1, <2>3
  <1>5. ASSUME x \notin reg.seen, NEW s \in AbbreviatedKeys(reg, x, t)
        PROVE  s \notin DOMAIN Initials
    <2>1. s \in reg.seen /\ Alpha[s] = Initials[x]
      BY <1>5, ShortKeys DEF Consistent
    <2>2. PICK j \in 1 .. Len(input) : input[j].text = s
      BY <2>1, TextOfKey
    <2>3. j \in DOMAIN input' /\ input'[j].text = s
      BY <1>1, <2>2
    <2> QED
      BY <1>2, <1>3, <1>5, <2>1, <2>3
  <1> QED
    BY <1>4, <1>5

LEMMA NoSimilarStep ==
    ASSUME Consistent, OwnTexts, NoSimilar,
           NEW x \in Texts, NEW t \in Types, TakeMention(x, t)
    PROVE  NoSimilar'
  <1> SUFFICES ASSUME Dissimilar', NEW i \in DOMAIN reg'.rows
               PROVE  reg'.rows[i].method # "fuzzy"
    BY DEF NoSimilar
  <1>1. /\ DOMAIN reg.rows = 1 .. Len(input)
        /\ 1 .. New = (1 .. Len(input)) \cup {New}
    BY InputGrows DEF Consistent, Shape
  <1>2. \A h \in 1 .. Len(input) : reg.rows[h].method # "fuzzy"
    BY <1>1, ConditionsBefore DEF NoSimilar
  <1>3. CASE \E k, m : Joins(t, k, m) /\ m # "fuzzy"
    <2>1. PICK k, m : Joins(t, k, m) /\ m # "fuzzy"
      BY <1>3
    <2> QED
      BY <1>1, <1>2, <2>1 DEF Joins
  <1>4. CASE \E S : Promotes(x, t, S)
    <2>1. PICK S : Promotes(x, t, S)
      BY <1>4
    <2>2. Row(x, t, "abbreviation", 75).method # "fuzzy"
      BY DEF Row
    <2>3. CASE i = New
      BY <2>1, <2>3 DEF Promotes
    <2>4. CASE i \in 1 .. Len(input) /\ i \in Moved(reg, S, t)
      BY <2>1, <2>2, <2>4 DEF Promotes
    <2>5. CASE i \in 1 .. Len(input) /\ i \notin Moved(reg, S, t)
      BY <1>2, <2>1, <2>5 DEF Promotes
    <2>6. i \in 1 .. New
      BY <2>1 DEF Promotes
    <2> QED
      BY <1>1, <2>3, <2>4, <2>5, <2>6
  <1>5. \/ \E k, m : Joins(t, k, m) /\ m # "fuzzy"
        \/ \E S : Promotes(x, t, S)
    <2>1. \A k : ~BySimilarity(x, t, k)
      BY SimilarityExcluded
    <2>2. CASE ByText(x, t)
      BY <2>2 DEF ByText
    <2>3. CASE \E k : ByInitials(x, t, k)
      BY <2>3 DEF ByInitials
    <2>4. CASE ByPromotion(x, t)
      BY <2>4 DEF ByPromotion
    <2>5. CASE ByItself(x, t)
      BY <2>5 DEF ByItself
    <2> QED
      BY <2>1, <2>2, <2>3, <2>4, <2>5, SomeRule DEF Consistent
  <1> QED
    BY <1>3, <1>4, <1>5

\* The new mention, if it abbreviates, abbreviates another text.
LEMMA NewAbbreviates ==
    ASSUME Consistent, NEW x \in Texts, NEW t \in Types, TakeMention(x, t),
           NEW k, ByInitials(x, t, k)
    PROVE  k \in DOMAIN Initials /\ Initials[k] = Alpha[x] /\ k # x
  BY OfferedLong DEF ByInitials

LEMMA AbbreviatesStep ==
    ASSUME Consistent, OwnTexts, CertainOwn, NoSimilar, Abbreviates,
           NEW x \in Texts, NEW t \in Types, TakeMention(x, t)
    PROVE  Abbreviates'
  <1> SUFFICES ASSUME Dissimilar', Unchained', NEW i \in DOMAIN reg'.rows,
                      reg'.rows[i].method = "abbreviation"
               PROVE  /\ reg'.rows[i].text \in DOMAIN Initials
                      /\ Initials[reg'.rows[i].text] = Alpha[input'[i].text]
                      /\ reg'.rows[i].text # input'[i].text
    BY DEF Abbreviates
  <1> DEFINE Good(k, own) == k \in DOMAIN Initials /\ Initials[k] = Alpha[own] /\ k # own
  <1>1. /\ DOMAIN reg.rows = 1 .. Len(input)
        /\ 1 .. New = (1 .. Len(input)) \cup {New}
        /\ input'[New].text = x
        /\ \A h \in 1 .. Len(input) : input'[h] = input[h]
    BY InputGrows DEF Consistent, Shape
  <1>2. \A h \in 1 .. Len(input) :
            reg.rows[h].method = "abbreviation" => Good(reg.rows[h].text, input[h].text)
    BY <1>1, ConditionsBefore DEF Abbreviates
  <1>3. \A h \in 1 .. Len(input) : reg.rows[h].method # "fuzzy"
    BY <1>1, ConditionsBefore DEF NoSimilar
  <1> HIDE DEF Good
  <1>4. CASE \E k, m : Joins(t, k, m) /\ m # "abbreviation"
    <2>1. PICK k, m : Joins(t, k, m) /\ m # "abbreviation"
      BY <1>4
    <2>2. i \in 1 .. Len(input) /\ reg'.rows[i] = reg.rows[i]
      BY <1>1, <2>1 DEF Joins
    <2>3. Good(reg'.rows[i].text, input'[i].text)
      BY <1>1, <1>2, <2>2
    <2> QED
      BY <2>3 DEF Good
  <1>5. CASE \E k : ByInitials(x, t, k)
    <2>1. PICK k : ByInitials(x, t, k)
      BY <1>5
    <2>2. Joins(t, k, "abbreviation")
      BY <2>1 DEF ByInitials
    <2>3. CASE i \in 1 .. Len(input)
      <3>1. reg'.rows[i] = reg.rows[i]
        BY <2>2, <2>3 DEF Joins
      <3>2. Good(reg'.rows[i].text, input'[i].text)
        BY <1>1, <1>2, <2>3, <3>1
      <3> QED
        BY <3>2 DEF Good
    <2>4. CASE i = New
      BY <1>1, <2>1, <2>2, <2>4, NewAbbreviates DEF Joins
    <2> QED
      BY <1>1, <2>2, <2>3, <2>4 DEF Joins
  <1>6. CASE ByPromotion(x, t)
    <2>1. PICK S : S = AbbreviatedKeys(reg, x, t)
      OBVIOUS
    <2>2. Promotes(x, t, S) /\ x \notin reg.seen /\ S # {}
      BY <1>6, <2>1 DEF ByPromotion
    <2>3. /\ S \subseteq reg.seen
          /\ x \in DOMAIN Initials
          /\ \A s \in S : Alpha[s] = Initials[x]
      BY <2>1, <2>2, ShortKeys DEF Consistent
    <2>4. \A s \in S : s \notin DOMAIN Initials
      BY <2>1, <2>2, <2>3, ChainExcluded
    <2>5. Moved(reg, S, t) =
            { h \in 1 .. Len(input) : reg.rows[h].type = t /\ reg.rows[h].text \in S }
      BY <2>3, MovedIs
    <2>6. CASE i = New
      <3>1. reg'.rows[i].method = "label_cluster"
        BY <2>2, <2>6 DEF Promotes
      <3> QED
        BY <3>1
    <2>7. CASE i \in 1 .. Len(input) /\ i \notin Moved(reg, S, t)
      <3>1. reg'.rows[i] = reg.rows[i]
        BY <2>2, <2>7 DEF Promotes
      <3>2. Good(reg'.rows[i].text, input'[i].text)
        BY <1>1, <1>2, <2>7, <3>1
      <3> QED
        BY <3>2 DEF Good
    <2>8. CASE i \in 1 .. Len(input) /\ i \in Moved(reg, S, t)
      <3>1. reg'.rows[i].text = x
        <4>1. reg'.rows[i] = Row(x, t, "abbreviation", 75)
          BY <2>2, <2>8 DEF Promotes
        <4> QED
          BY <4>1 DEF Row
      <3>2. reg.rows[i].text \in S
        BY <2>5, <2>8
      <3>3. reg.rows[i].text = input[i].text
        <4>1. reg.rows[i].method \in Methods
          BY <1>1, <2>8 DEF Consistent, Shape
        <4>2. reg.rows[i].method # "abbreviation"
          BY <1>2, <2>4, <2>8, <3>2 DEF Good
        <4>3. reg.rows[i].method # "fuzzy"
          BY <1>3, <2>8
        <4> QED
          BY <1>1, <2>8, <4>1, <4>2, <4>3 DEF Methods, CertainOwn
      <3> QED
        BY <1>1, <2>2, <2>3, <2>8, <3>1, <3>2, <3>3
    <2>9. i \in 1 .. New
      BY <2>2 DEF Promotes
    <2> QED
      BY <1>1, <2>6, <2>7, <2>8, <2>9
  <1>7. \A k : ~BySimilarity(x, t, k)
    BY SimilarityExcluded
  <1>8. ByText(x, t) \/ ByItself(x, t) => \E k, m : Joins(t, k, m) /\ m # "abbreviation"
    <2>1. CASE ByText(x, t)
      BY <2>1 DEF ByText
    <2>2. CASE ByItself(x, t)
      BY <2>2 DEF ByItself
    <2> QED
      BY <2>1, <2>2
  <1> QED
    BY <1>4, <1>5, <1>6, <1>7, <1>8, SomeRule DEF Consistent

LEMMA LongsKnownStep ==
    ASSUME Consistent, OwnTexts, LongsKnown,
           NEW x \in Texts, NEW t \in Types, TakeMention(x, t)
    PROVE  LongsKnown'
  <1> SUFFICES ASSUME Dissimilar', Unchained', NEW j \in DOMAIN input',
                      input'[j].text \in DOMAIN Initials
               PROVE  << input'[j].type, Initials[input'[j].text] >> \in DOMAIN reg'.initials
    BY DEF LongsKnown
  <1>1. /\ DOMAIN input = 1 .. Len(input)
        /\ DOMAIN input' = 1 .. New
        /\ 1 .. New = (1 .. Len(input)) \cup {New}
        /\ input'[New].text = x /\ input'[New].type = t
        /\ \A h \in 1 .. Len(input) : input'[h] = input[h]
    BY InputGrows DEF Consistent, Shape
  <1>2. \A h \in 1 .. Len(input) : input[h].text \in DOMAIN Initials =>
            << input[h].type, Initials[input[h].text] >> \in DOMAIN reg.initials
    BY <1>1, ConditionsBefore DEF LongsKnown
  <1>3. CASE ByText(x, t) \/ ByItself(x, t)
    <2>1. Learns(x, t)
      BY <1>3 DEF ByText, ByItself
    <2> QED
      BY <1>1, <1>2, <2>1 DEF Learns
  <1>4. CASE \E k : ByInitials(x, t, k)
    <2>1. PICK k : ByInitials(x, t, k)
      BY <1>4
    <2>2. x \notin DOMAIN Initials
      BY <2>1, ChainExcluded DEF ByInitials
    <2>3. reg'.initials = reg.initials
      BY <2>1 DEF ByInitials, Keeps
    <2> QED
      BY <1>1, <1>2, <2>2, <2>3
  <1>5. CASE ByPromotion(x, t)
    <2>1. PICK S : S = AbbreviatedKeys(reg, x, t)
      OBVIOUS
    <2>2. Promotes(x, t, S) /\ x \notin reg.seen /\ S # {}
      BY <1>5, <2>1 DEF ByPromotion
    <2>3. x \in DOMAIN Initials
      BY <2>1, <2>2, ShortKeys DEF Consistent
    <2>4. \A s \in S : s \notin DOMAIN Initials
      BY <2>1, <2>2, <2>3, ChainExcluded
    <2>5. CASE j = New
      BY <1>1, <2>2, <2>5 DEF Promotes
    <2>6. CASE j \in 1 .. Len(input)
      <3> DEFINE p == << input[j].type, Initials[input[j].text] >>
      <3>1. p \in DOMAIN reg.initials
        BY <1>1, <1>2, <2>6
      <3> HIDE DEF p
      <3>2. reg.initials[p] \notin S
        BY <2>4, <3>1 DEF Consistent, Shape
      <3>3. p \in DOMAIN reg'.initials
        BY <2>2, <3>1, <3>2 DEF Promotes
      <3> QED
        BY <1>1, <2>6, <3>3 DEF p
    <2> QED
      BY <1>1, <2>5, <2>6
  <1>6. \A k : ~BySimilarity(x, t, k)
    BY SimilarityExcluded
  <1> QED
    BY <1>3, <1>4, <1>5, <1>6, SomeRule DEF Consistent

\* A spelled-out long form leaves no short form a key: by which of the two
\* mentions is the new one.
LEMMA LongFormStep ==
    ASSUME Consistent, OwnTexts, CertainOwn, HeldOffered, NoSimilar, Abbreviates,
           LongsKnown, LongFormIsKeyIfPlain, Abbreviates', LongsKnown',
           NEW x \in Texts, NEW t \in Types, TakeMention(x, t)
    PROVE  LongFormIsKeyIfPlain'
  <1> SUFFICES ASSUME OneTypePerText', Dissimilar', Unchained',
                      NEW i \in DOMAIN input', NEW j \in DOMAIN input',
                      input'[i].type = input'[j].type,
                      input'[j].text \in DOMAIN Initials,
                      Initials[input'[j].text] = Alpha[input'[i].text],
                      input'[i].text # input'[j].text,
                      reg'.rows[i].text = input'[i].text
               PROVE  FALSE
    BY DEF LongFormIsKeyIfPlain, LongFormIsKey, Own
  <1>1. /\ DOMAIN reg.rows = 1 .. Len(input)
        /\ DOMAIN input = 1 .. Len(input)
        /\ DOMAIN input' = 1 .. New
        /\ 1 .. New = (1 .. Len(input)) \cup {New}
        /\ input'[New].text = x /\ input'[New].type = t
        /\ \A h \in 1 .. Len(input) : input'[h] = input[h]
    BY InputGrows DEF Consistent, Shape
  <1>2. OneTypePerText /\ Dissimilar /\ Unchained
    BY ConditionsBefore
  <1>3. ASSUME NEW h \in 1 .. Len(input), NEW l \in 1 .. Len(input),
               input[h].type = input[l].type,
               input[l].text \in DOMAIN Initials,
               Initials[input[l].text] = Alpha[input[h].text],
               input[h].text # input[l].text
        PROVE  reg.rows[h].text # input[h].text
    BY <1>1, <1>2, <1>3 DEF LongFormIsKeyIfPlain, LongFormIsKey, Own
  <1>4. \A h \in 1 .. New : reg'.rows[h].method = "abbreviation" =>
                                reg'.rows[h].text # input'[h].text
    <2>1. DOMAIN reg'.rows = 1 .. New
      BY SomeRule DEF Consistent, ByText, ByInitials, ByPromotion, BySimilarity, ByItself,
                      Joins, Promotes
    <2> QED
      BY <2>1 DEF Abbreviates
  <1>5. \A h \in 1 .. Len(input) :
            reg'.rows[h] = reg.rows[h] \/ reg'.rows[h].method = "abbreviation"
    <2>1. Row(x, t, "abbreviation", 75).method = "abbreviation"
      BY DEF Row
    <2> QED
      BY <2>1, SomeRule DEF Consistent, ByText, ByInitials, ByPromotion, BySimilarity,
                            ByItself, Joins, Promotes
  <1>6. ~BySimilarity(x, t, reg'.rows[New].text) /\ \A k : ~BySimilarity(x, t, k)
    BY SimilarityExcluded
  <1>7. CASE i \in 1 .. Len(input) /\ j \in 1 .. Len(input)
    <2>1. reg'.rows[i] = reg.rows[i]
      BY <1>1, <1>4, <1>5, <1>7
    <2> QED
      BY <1>1, <1>3, <1>7, <2>1
  \* The short form is new, and the initials of the long one are known.
  <1>8. CASE i = New /\ j \in 1 .. Len(input)
    <2>1. << t, Alpha[x] >> \in DOMAIN reg.initials
      BY <1>1, <1>2, <1>8 DEF LongsKnown
    <2>2. LongForms(reg, x, t) # {}
      BY <2>1, NoLongForm
    <2>3. ~\E k : ByInitials(x, t, k)
      <3>1. ASSUME NEW k, ByInitials(x, t, k) PROVE FALSE
        <4>1. k # x /\ reg'.rows[New].text = k
          BY <3>1 DEF ByInitials, Joins
        <4> QED
          BY <1>1, <1>8, <4>1
      <3> QED
        BY <3>1
    <2>4. ByText(x, t)
      BY <1>6, <2>2, <2>3, SomeRule DEF Consistent, ByPromotion, ByItself
    <2>5. x \in LongForms(reg, x, t)
      BY <2>2, <2>4 DEF ByText
    <2>6. x \in DOMAIN Initials /\ Initials[x] = Alpha[x]
      BY <2>5, OfferedLong
    <2>7. input'[j].text = x
      BY <1>1, <1>8, <2>6 DEF Unchained, Own
    <2> QED
      BY <1>1, <1>8, <2>7
  \* The long form is new, and the short one a key it replaces.
  <1>9. CASE i \in 1 .. Len(input) /\ j = New
    <2>1. reg'.rows[i] = reg.rows[i]
      BY <1>1, <1>4, <1>5, <1>9
    <2>2. reg.rows[i].text = input[i].text /\ reg.rows[i].type = t
      BY <1>1, <1>9, <2>1 DEF Consistent, Shape
    <2>3. x \in DOMAIN Initials /\ Initials[x] = Alpha[input[i].text] /\ input[i].text # x
      BY <1>1, <1>9
    <2>4. << t, input[i].text >> \in reg.abbrev
      <3>1. << reg.rows[i].type, reg.rows[i].text >> \in reg.abbrev
        BY <1>1, <1>9 DEF HeldOffered
      <3> QED
        BY <2>2, <3>1
    <2>5. input[i].text \in AbbreviatedKeys(reg, x, t)
      <3>1. input[i].text \in Texts
        BY <1>1, <1>9, <2>2 DEF Consistent, Shape
      <3> QED
        BY <2>3, <2>4, <3>1 DEF AbbreviatedKeys
    <2>6. CASE ByText(x, t)
      <3>1. x \in reg.seen
        BY <2>6 DEF ByText
      <3>2. PICK l \in 1 .. Len(input) : input[l].text = x
        BY <3>1, TextOfKey
      <3>3. input[l].type = t
        <4>1. input'[l].text = input'[New].text /\ l \in DOMAIN input' /\ New \in DOMAIN input'
          BY <1>1, <3>2
        <4> QED
          BY <1>1, <3>2, <4>1 DEF OneTypePerText, Own
      <3>4. input[i].type = t
        BY <1>1, <1>9
      <3> QED
        BY <1>3, <1>9, <2>2, <2>3, <3>2, <3>3, <3>4
    <2>7. CASE \E k : ByInitials(x, t, k)
      BY <2>3, <2>7, ChainExcluded DEF ByInitials
    <2>8. CASE ByPromotion(x, t)
      <3>1. PICK S : S = AbbreviatedKeys(reg, x, t)
        OBVIOUS
      <3>2. Promotes(x, t, S) /\ S \subseteq reg.seen
        BY <2>8, <3>1, ShortKeys DEF Consistent, ByPromotion
      <3>3. i \in Moved(reg, S, t)
        BY <1>9, <2>2, <2>5, <3>1, <3>2, MovedIs
      <3>4. reg'.rows[i].text = x
        BY <1>9, <3>2, <3>3 DEF Promotes, Row
      <3> QED
        BY <1>1, <1>9, <2>3, <3>4
    <2>9. CASE ByItself(x, t)
      BY <2>5, <2>9 DEF ByItself
    <2> QED
      BY <1>6, <2>6, <2>7, <2>8, <2>9, SomeRule DEF Consistent
  <1>10. CASE i = New /\ j = New
    BY <1>10
  <1> QED
    BY <1>1, <1>7, <1>8, <1>9, <1>10

\* Two keys of a text's letters, both long forms met, are one.
LEMMA SameTextStep ==
    ASSUME Consistent, OwnTexts, CertainOwn, NoSimilar, Abbreviates, LongsKnown,
           LongFormIsKeyIfPlain, SameTextTogetherIfPlain,
           NEW x \in Texts, NEW t \in Types, TakeMention(x, t)
    PROVE  SameTextTogetherIfPlain'
  <1> SUFFICES ASSUME OneTypePerText', DistinctInitials', Dissimilar', Unchained',
                      NEW i \in DOMAIN input', NEW j \in DOMAIN input',
                      input'[i] = input'[j]
               PROVE  reg'.rows[i].text = reg'.rows[j].text
    BY DEF SameTextTogetherIfPlain, SameTextTogether
  <1>1. /\ DOMAIN reg.rows = 1 .. Len(input)
        /\ DOMAIN input = 1 .. Len(input)
        /\ DOMAIN input' = 1 .. New
        /\ 1 .. New = (1 .. Len(input)) \cup {New}
        /\ input'[New].text = x /\ input'[New].type = t
        /\ \A h \in 1 .. Len(input) : input'[h] = input[h]
    BY InputGrows DEF Consistent, Shape
  <1>2. OneTypePerText /\ DistinctInitials /\ Dissimilar /\ Unchained
    BY ConditionsBefore
  <1>3. \A h, l \in 1 .. Len(input) : input[h] = input[l] => reg.rows[h].text = reg.rows[l].text
    BY <1>1, <1>2 DEF SameTextTogetherIfPlain, SameTextTogether
  \* An earlier mention of the text under another key is under a long form of it.
  <1>4. ASSUME NEW h \in 1 .. Len(input), input[h].text = x, input[h].type = t,
               reg.rows[h].text # x
        PROVE  /\ reg.rows[h].text \in DOMAIN Initials
               /\ Initials[reg.rows[h].text] = Alpha[x]
               /\ Holds(t, reg.rows[h].text)
               /\ LongForms(reg, x, t) # {}
    <2>1. reg.rows[h].method = "abbreviation"
      <3>1. reg.rows[h].method \in Methods
        BY <1>1 DEF Consistent, Shape
      <3>2. reg.rows[h].method # "fuzzy"
        BY <1>1, <1>2 DEF NoSimilar
      <3> QED
        BY <1>1, <1>4, <3>1, <3>2 DEF CertainOwn, Methods
    <2>2. reg.rows[h].text \in DOMAIN Initials /\ Initials[reg.rows[h].text] = Alpha[x]
      BY <1>1, <1>2, <1>4, <2>1 DEF Abbreviates
    <2>3. Holds(t, reg.rows[h].text)
      <3>1. reg.rows[h].type = t
        BY <1>1, <1>4 DEF Consistent, Shape
      <3> QED
        BY <1>1, <3>1 DEF Holds, Holders
    <2>4. PICK l \in 1 .. Len(input) : input[l].text = reg.rows[h].text /\ input[l].type = t
      BY <2>3, TextOfKey
    <2>5. << t, Alpha[x] >> \in DOMAIN reg.initials
      BY <1>1, <1>2, <2>2, <2>4 DEF LongsKnown
    <2> QED
      BY <2>2, <2>3, <2>5, NoLongForm
  <1>5. ASSUME NEW a, NEW b, a \in DOMAIN Initials, b \in DOMAIN Initials,
               Initials[a] = Initials[b], Holds(t, a), Holds(t, b)
        PROVE  a = b
    <2>1. PICK h \in 1 .. Len(input) : input[h].text = a
      BY <1>5, TextOfKey
    <2>2. PICK l \in 1 .. Len(input) : input[l].text = b
      BY <1>5, TextOfKey
    <2> QED
      BY <1>1, <1>2, <1>5, <2>1, <2>2 DEF DistinctInitials, Own
  \* The earlier and the new mention of a text.
  <1>6. ASSUME NEW h \in 1 .. Len(input), input[h].text = x, input[h].type = t
        PROVE  reg'.rows[h].text = reg'.rows[New].text
    <2>1. CASE ByText(x, t)
      <3>1. reg'.rows[h] = reg.rows[h] /\ reg'.rows[New].text = x
        BY <2>1 DEF ByText, Joins
      <3>2. reg.rows[h].text = x
        <4> SUFFICES ASSUME reg.rows[h].text # x PROVE FALSE
          OBVIOUS
        <4>1. x \in LongForms(reg, x, t)
          BY <1>4, <1>6, <2>1 DEF ByText
        <4>2. x \in DOMAIN Initials /\ Initials[x] = Alpha[x] /\ Holds(t, x)
          BY <4>1, OfferedLong
        <4> QED
          BY <1>4, <1>5, <1>6, <4>2
      <3> QED
        BY <3>1, <3>2
    <2>2. CASE \E k : ByInitials(x, t, k)
      <3>1. PICK k : ByInitials(x, t, k)
        BY <2>2
      <3>2. reg'.rows[h] = reg.rows[h] /\ reg'.rows[New].text = k
        BY <3>1 DEF ByInitials, Joins
      <3>3. k \in DOMAIN Initials /\ Initials[k] = Alpha[x] /\ Holds(t, k) /\ k # x
        BY <3>1, OfferedLong DEF ByInitials
      <3>4. PICK l \in 1 .. Len(input) : input[l].text = k /\ input[l].type = t
        BY <3>3, TextOfKey
      <3>5. reg.rows[h].text # x
        BY <1>1, <1>2, <1>6, <3>3, <3>4 DEF LongFormIsKeyIfPlain, LongFormIsKey, Own
      <3> QED
        BY <1>4, <1>5, <1>6, <3>2, <3>3, <3>5
    <2>3. ASSUME x \notin reg.seen, LongForms(reg, x, t) = {} PROVE FALSE
      <3>1. reg.rows[h].text \in reg.seen
        BY <1>1 DEF Consistent, MembersExact
      <3> QED
        BY <1>4, <1>6, <2>3, <3>1
    <2> QED
      BY <2>1, <2>2, <2>3, SomeRule DEF Consistent, ByPromotion, BySimilarity, ByItself
  \* Two earlier mentions of a text move together or not at all.
  <1>7. CASE i \in 1 .. Len(input) /\ j \in 1 .. Len(input)
    <2>1. /\ reg.rows[i].text = reg.rows[j].text
          /\ reg.rows[i].type = reg.rows[j].type
      BY <1>1, <1>3, <1>7 DEF Consistent, Shape
    <2>2. CASE \E k, m : Joins(t, k, m)
      BY <1>7, <2>1, <2>2 DEF Joins
    <2>3. CASE ByPromotion(x, t)
      <3>1. PICK S : S = AbbreviatedKeys(reg, x, t)
        OBVIOUS
      <3>2. Promotes(x, t, S) /\ S \subseteq reg.seen
        BY <2>3, <3>1, ShortKeys DEF Consistent, ByPromotion
      <3>3. i \in Moved(reg, S, t) <=> j \in Moved(reg, S, t)
        BY <1>7, <2>1, <3>2, MovedIs
      <3> QED
        BY <1>7, <2>1, <3>2, <3>3 DEF Promotes
    <2>4. ByPromotion(x, t) \/ \E k, m : Joins(t, k, m)
      BY SomeRule DEF Consistent, ByText, ByInitials, BySimilarity, ByItself
    <2> QED
      BY <2>2, <2>3, <2>4
  <1>8. CASE i \in 1 .. Len(input) /\ j = New
    BY <1>1, <1>6, <1>8
  <1>9. CASE i = New /\ j \in 1 .. Len(input)
    <2>1. input[j].text = x /\ input[j].type = t
      BY <1>1, <1>9
    <2> QED
      BY <1>6, <1>9, <2>1
  <1>10. CASE i = New /\ j = New
    BY <1>10
  <1> QED
    BY <1>1, <1>7, <1>8, <1>9, <1>10

-----------------------------------------------------------------------------
(* The invariant, and what follows from it.                                *)

ClusterInv ==
    /\ Consistent
    /\ OwnTexts /\ CertainOwn /\ HeldOffered
    /\ NoSimilar /\ Abbreviates /\ LongsKnown
    /\ LongFormIsKeyIfPlain
    /\ SameTextTogetherIfPlain

LEMMA ClusterInvInit == Init => ClusterInv
  <1> SUFFICES ASSUME Init PROVE ClusterInv
    OBVIOUS
  <1>1. Consistent
    BY ConsistentInit
  <1>2. DOMAIN input = {} /\ DOMAIN reg.rows = {}
    BY DEF Init, EmptyRegistry
  <1>3. OwnTexts /\ CertainOwn /\ HeldOffered /\ NoSimilar /\ Abbreviates /\ LongsKnown
    BY <1>2 DEF OwnTexts, CertainOwn, HeldOffered, NoSimilar, Abbreviates, LongsKnown
  <1>4. LongFormIsKeyIfPlain /\ SameTextTogetherIfPlain
    BY <1>2 DEF LongFormIsKeyIfPlain, LongFormIsKey, SameTextTogetherIfPlain,
                SameTextTogether
  <1> QED
    BY <1>1, <1>3, <1>4 DEF ClusterInv

LEMMA ClusterInvStep == ClusterInv /\ [Next]_vars => ClusterInv'
  <1> SUFFICES ASSUME ClusterInv, [Next]_vars PROVE ClusterInv'
    OBVIOUS
  <1>1. CASE Next
    <2>1. PICK x \in Texts, t \in Types : TakeMention(x, t)
      BY <1>1 DEF Next
    <2>2. /\ Consistent /\ OwnTexts /\ CertainOwn /\ HeldOffered /\ NoSimilar
          /\ Abbreviates /\ LongsKnown /\ LongFormIsKeyIfPlain /\ SameTextTogetherIfPlain
      BY DEF ClusterInv
    <2>3. Consistent'
      BY <2>1, <2>2, ConsistentStep
    <2>4. OwnTexts' /\ CertainOwn' /\ HeldOffered'
      BY <2>1, <2>2, OwnStep
    <2>5. NoSimilar'
      BY <2>1, <2>2, NoSimilarStep
    <2>6. Abbreviates'
      BY <2>1, <2>2, AbbreviatesStep
    <2>7. LongsKnown'
      BY <2>1, <2>2, LongsKnownStep
    <2>8. LongFormIsKeyIfPlain'
      BY <2>1, <2>2, <2>6, <2>7, LongFormStep
    <2>9. SameTextTogetherIfPlain'
      BY <2>1, <2>2, SameTextStep
    <2> QED
      BY <2>3, <2>4, <2>5, <2>6, <2>7, <2>8, <2>9 DEF ClusterInv
  <1>2. CASE UNCHANGED vars
    <2>1. input' = input /\ reg' = reg
      BY <1>2 DEF vars
    <2>2. Consistent'
      <3>1. Consistent => Shape'
        BY <2>1 DEF Consistent, Shape
      <3>2. \A q : Holders(q)' = Holders(q)
        BY <2>1 DEF Holders
      <3>3. Consistent => MembersExact'
        BY <2>1, <3>2 DEF Consistent, MembersExact
      <3>4. \A u, q : Holds(u, q) => HeldIn(reg'.rows, u, q)
        BY <2>1, HoldsIs
      <3>5. Consistent => IndicesBacked'
        BY <2>1, <3>4, BackedNext DEF Consistent, IndicesBacked
      <3> QED
        BY <3>1, <3>3, <3>5 DEF ClusterInv, Consistent
    <2>3. OwnTexts' /\ CertainOwn' /\ HeldOffered'
      BY <2>1 DEF ClusterInv, OwnTexts, CertainOwn, HeldOffered
    <2>4. Dissimilar' => Dissimilar
      BY <2>1 DEF Dissimilar, Own
    <2>5. Unchained' => Unchained
      BY <2>1 DEF Unchained, Own
    <2>6. OneTypePerText' => OneTypePerText
      BY <2>1 DEF OneTypePerText, Own
    <2>7. DistinctInitials' => DistinctInitials
      BY <2>1 DEF DistinctInitials, Own
    <2>8. NoSimilar' /\ Abbreviates' /\ LongsKnown'
      BY <2>1, <2>4, <2>5 DEF ClusterInv, NoSimilar, Abbreviates, LongsKnown
    <2>9. LongFormIsKey => LongFormIsKey'
      BY <2>1 DEF LongFormIsKey, Own
    <2>10. SameTextTogether => SameTextTogether'
      BY <2>1 DEF SameTextTogether
    <2>11. LongFormIsKeyIfPlain' /\ SameTextTogetherIfPlain'
      BY <2>4, <2>5, <2>6, <2>7, <2>9, <2>10
         DEF ClusterInv, LongFormIsKeyIfPlain, SameTextTogetherIfPlain
    <2> QED
      BY <2>2, <2>3, <2>8, <2>11 DEF ClusterInv
  <1> QED
    BY <1>1, <1>2

\* The inductive invariant holds between any two mentions of any input: what the
\* registry keeps consistent, and what its rules reach where names are plain.
THEOREM RegistryInvariant == Spec => []ClusterInv
  BY ClusterInvInit, ClusterInvStep, PTL DEF Spec

\* Renaming keys neither loses a mention nor leaves a key without one: the lists
\* of members always invert the assignment.
THEOREM MembersInvertRows == Spec => []MembersExact
  <1>1. ClusterInv => MembersExact
    BY DEF ClusterInv, Consistent
  <1> QED
    BY <1>1, RegistryInvariant, PTL

\* The indices of a type offer its next mention only keys held in that type.
THEOREM IndicesFollowRows == Spec => []IndicesBacked
  <1>1. ClusterInv => IndicesBacked
    BY DEF ClusterInv, Consistent
  <1> QED
    BY <1>1, RegistryInvariant, PTL

\* A membership recorded as certain is under the mention's own text; the
\* converse holds where names are neither similar nor chained.
THEOREM CertainUnderOwnText == Spec => []CertainIsOwnText
  <1>1. ClusterInv => CertainIsOwnText
    <2> SUFFICES ASSUME ClusterInv, NEW i \in DOMAIN reg.rows
                 PROVE  /\ reg.rows[i].method \in {"label_cluster", "normalized_exact"} =>
                            reg.rows[i].text = input[i].text
                        /\ Dissimilar /\ Unchained =>
                            (reg.rows[i].text = input[i].text =>
                                reg.rows[i].method \in {"label_cluster", "normalized_exact"})
      BY DEF CertainIsOwnText, Own
    <2>1. reg.rows[i].method \in Methods
      BY DEF ClusterInv, Consistent, Shape
    <2>2. /\ Dissimilar => reg.rows[i].method # "fuzzy"
          /\ Dissimilar /\ Unchained =>
                (reg.rows[i].method = "abbreviation" => reg.rows[i].text # input[i].text)
      BY DEF ClusterInv, NoSimilar, Abbreviates
    <2> QED
      BY <2>1, <2>2 DEF ClusterInv, CertainOwn, Methods
  <1> QED
    BY <1>1, RegistryInvariant, PTL

\* Equal mentions end in one cluster, in whatever order all mentions come, where
\* no name has two types, long forms have their own initials, and names are
\* neither similar nor chained.
THEOREM EqualMentionsMeet == Spec => []SameTextTogetherIfPlain
  <1>1. ClusterInv => SameTextTogetherIfPlain
    BY DEF ClusterInv
  <1> QED
    BY <1>1, RegistryInvariant, PTL

\* What is recorded as an abbreviation is an initialism of its key, where names
\* are neither similar nor chained.
THEOREM AbbreviationsAreInitialisms == Spec => []AbbreviationIsInitialismIfPlain
  <1>1. ClusterInv => AbbreviationIsInitialismIfPlain
    <2>1. ASSUME ClusterInv PROVE DOMAIN reg.rows = 1 .. Len(input)
      BY <2>1 DEF ClusterInv, Consistent, Shape
    <2> QED
      BY <2>1 DEF ClusterInv, Abbreviates, AbbreviationIsInitialismIfPlain,
                  AbbreviationIsInitialism, Own
  <1> QED
    BY <1>1, RegistryInvariant, PTL

\* A short form is no key once its long form is met, before it or after it,
\* where no name has two types and names are neither similar nor chained.
THEOREM LongFormsAreKeys == Spec => []LongFormIsKeyIfPlain
  <1>1. ClusterInv => LongFormIsKeyIfPlain
    BY DEF ClusterInv
  <1> QED
    BY <1>1, RegistryInvariant, PTL

\* A mention moves other ones only to its own text, within its type, and only
\* those under a key with the letters of its initials.
THEOREM RenamesJustified == Spec => RenamesOnlyAbbreviations
  <1> DEFINE Justified(i) ==
               LET new == input'[Len(input')] IN
               reg'.rows[i] # reg.rows[i] =>
                   /\ reg.rows[i].type = new.type
                   /\ reg'.rows[i].text = new.text
                   /\ new.text \in DOMAIN Initials
                   /\ Alpha[reg.rows[i].text] = Initials[new.text]
  <1>1. ClusterInv /\ [Next]_vars => [\A i \in DOMAIN input : Justified(i)]_vars
    <2> SUFFICES ASSUME ClusterInv, NEW x \in Texts, NEW t \in Types, TakeMention(x, t),
                        NEW i \in DOMAIN input, reg'.rows[i] # reg.rows[i]
                 PROVE  /\ reg.rows[i].type = input'[Len(input')].type
                        /\ reg'.rows[i].text = input'[Len(input')].text
                        /\ input'[Len(input')].text \in DOMAIN Initials
                        /\ Alpha[reg.rows[i].text] = Initials[input'[Len(input')].text]
      BY DEF Next
    <2>1. Consistent
      BY DEF ClusterInv
    <2>2. /\ i \in 1 .. Len(input)
          /\ Len(input') = New
          /\ input'[New].text = x /\ input'[New].type = t
      BY <2>1, InputGrows DEF Consistent
    <2>3. ByPromotion(x, t)
      BY <2>1, <2>2, SomeRule
         DEF Consistent, ByText, ByInitials, BySimilarity, ByItself, Joins
    <2>4. PICK S : S = AbbreviatedKeys(reg, x, t)
      OBVIOUS
    <2>5. /\ Promotes(x, t, S)
          /\ x \in DOMAIN Initials
          /\ S \subseteq reg.seen
          /\ \A s \in S : Alpha[s] = Initials[x]
      BY <2>1, <2>3, <2>4, ShortKeys DEF Consistent, ByPromotion
    <2>6. i \in Moved(reg, S, t) /\ reg'.rows[i] = Row(x, t, "abbreviation", 75)
      BY <2>2, <2>5 DEF Promotes
    <2>7. reg.rows[i].type = t /\ reg.rows[i].text \in S
      BY <2>1, <2>5, <2>6, MovedIs
    <2>8. reg'.rows[i].text = x
      BY <2>6 DEF Row
    <2> QED
      BY <2>2, <2>5, <2>7, <2>8
  <1> QED
    BY <1>1, RegistryInvariant, PTL DEF Spec, RenamesOnlyAbbreviations
=============================================================================
