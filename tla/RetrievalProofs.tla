--------------------------- MODULE RetrievalProofs ---------------------------
(***************************************************************************)
(* What a session remembers and what a result claims, whatever the model   *)
(* answers: a repaired answer is cited, and repair only adds citations.    *)
(***************************************************************************)
EXTENDS RetrievalSession, FiniteSetTheorems, WellFoundedInduction, TLAPS

-----------------------------------------------------------------------------
(* Placing tokens.                                                         *)

\* Where a piece goes depends on the pieces before it.
LEMMA PlacedStep ==
    ASSUME NEW n \in Nat, NEW after, IsFiniteSet(after),
           \A e \in after : e \in Nat /\ 1 <= e /\ e <= n
    PROVE  /\ Cardinality(after) \in Nat
           /\ \A k \in 1..(n + 1) : Placed(after, k) \in Nat
           /\ Placed(after, 1) = 1
           /\ Placed(after, n + 1) = n + 1 + Cardinality(after)
           /\ \A k \in 1..n :
                Placed(after, k + 1) = Placed(after, k) + (IF k \in after THEN 2 ELSE 1)
  <1> DEFINE Below(k) == { e \in after : e < k }
  <1>1. \A k : IsFiniteSet(Below(k)) /\ Cardinality(Below(k)) \in Nat
    <2> TAKE k
    <2>1. Below(k) \subseteq after
      OBVIOUS
    <2> HIDE DEF Below
    <2> QED
      BY <2>1, FS_Subset, FS_CardinalityType
  <1>2. Below(1) = {}
    OBVIOUS
  <1>3. Below(n + 1) = after
    OBVIOUS
  <1>4. ASSUME NEW k \in Nat
        PROVE  Cardinality(Below(k + 1)) = Cardinality(Below(k)) + (IF k \in after THEN 1 ELSE 0)
    <2>1. CASE k \in after
      <3>1. \A e \in after : e < k + 1 <=> e < k \/ e = k
        OBVIOUS
      <3>2. Below(k + 1) = Below(k) \cup {k} /\ k \notin Below(k)
        <4>1. ~(k < k)
          OBVIOUS
        <4> QED
          BY <2>1, <3>1, <4>1, Zenon
      <3> HIDE DEF Below
      <3> QED
        BY <1>1, <2>1, <3>2, FS_AddElement
    <2>2. CASE k \notin after
      <3>1. Below(k + 1) = Below(k)
        BY <2>2
      <3> HIDE DEF Below
      <3> QED
        BY <1>1, <2>2, <3>1
    <2> QED
      BY <2>1, <2>2
  <1>5. \A k : Placed(after, k) = k + Cardinality(Below(k))
    BY DEF Placed
  <1>6. Cardinality(after) \in Nat /\ Cardinality({}) = 0
    BY FS_CardinalityType, FS_EmptySet
  <1> HIDE DEF Below
  <1>7. \A k \in 1..(n + 1) : Placed(after, k) \in Nat
    BY <1>1, <1>5
  <1>8. Placed(after, 1) = 1
    <2>1. Placed(after, 1) = 1 + 0
      BY <1>2, <1>5, <1>6
    <2> QED
      BY <2>1
  <1>9. Placed(after, n + 1) = n + 1 + Cardinality(after)
    BY <1>3, <1>5
  <1>10. ASSUME NEW k \in 1..n
         PROVE  Placed(after, k + 1) = Placed(after, k) + (IF k \in after THEN 2 ELSE 1)
    <2>1. Cardinality(Below(k)) \in Nat /\ k \in Nat
      BY <1>1
    <2>2. Cardinality(Below(k + 1)) = Cardinality(Below(k)) + (IF k \in after THEN 1 ELSE 0)
      BY <1>4, <2>1
    <2> QED
      BY <1>5, <2>1, <2>2
  <1> QED
    BY <1>6, <1>7, <1>8, <1>9, <1>10

\* Pieces keep their order.
LEMMA PlacedAscends ==
    ASSUME NEW after, IsFiniteSet(after), NEW k \in Nat, NEW m \in Nat, k < m,
           \A e \in after : e \in Nat
    PROVE  Placed(after, k) \in Nat /\ Placed(after, m) \in Nat
           /\ Placed(after, k) < Placed(after, m)
  <1> DEFINE Below(x) == { e \in after : e < x }
  <1>1. Below(k) \subseteq Below(m) /\ Below(m) \subseteq after
    OBVIOUS
  <1>2. Placed(after, k) = k + Cardinality(Below(k)) /\ Placed(after, m) = m + Cardinality(Below(m))
    BY DEF Placed
  <1> HIDE DEF Below
  <1>3. /\ IsFiniteSet(Below(k)) /\ IsFiniteSet(Below(m))
        /\ Cardinality(Below(k)) <= Cardinality(Below(m))
    BY <1>1, FS_Subset
  <1>4. Cardinality(Below(k)) \in Nat /\ Cardinality(Below(m)) \in Nat
    BY <1>3, FS_CardinalityType
  <1> QED
    BY <1>2, <1>3, <1>4

\* What comes of putting tokens behind pieces: the pieces are there, the rest are tokens.
LEMMA TokensPut ==
    ASSUME NEW p \in Seq(Piece), NEW after, IsFiniteSet(after),
           \A e \in after : e \in Nat /\ 1 <= e /\ e <= Len(p),
           NEW c \in Chunks
    PROVE  LET q == WithTokens(p, after, c)
           IN  /\ q \in Seq(Piece) /\ Len(q) = Len(p) + Cardinality(after)
               /\ \A k \in 1..Len(p) : Placed(after, k) \in 1..Len(q) /\ q[Placed(after, k)] = p[k]
               /\ \A i \in 1..Len(q) : \/ q[i] = Token(c)
                                       \/ \E k \in 1..Len(p) : i = Placed(after, k)
  <1> DEFINE q == WithTokens(p, after, c)
             n == Len(p)
             size == n + Cardinality(after)
             from(i) == CHOOSE k \in 1..n : Placed(after, k) = i
             moved(i) == \E k \in 1..n : Placed(after, k) = i
  <1>1. n \in Nat /\ DOMAIN p = 1..n /\ \A k \in 1..n : p[k] \in Piece
    OBVIOUS
  <1>2. size \in Nat /\ Cardinality(after) \in Nat
    BY <1>1, FS_CardinalityType
  <1>3. q = [i \in 1..size |-> IF moved(i) THEN p[from(i)] ELSE Token(c)]
    BY <1>1 DEF WithTokens
  <1>4. \A k \in 1..n : /\ Placed(after, k) \in 1..size
                        /\ moved(Placed(after, k)) /\ from(Placed(after, k)) = k
    <2> TAKE k \in 1..n
    <2>1. \A m \in 1..n : m # k => Placed(after, m) # Placed(after, k)
      <3> SUFFICES ASSUME NEW m \in 1..n, m # k
                   PROVE  Placed(after, m) # Placed(after, k)
        OBVIOUS
      <3>1. m \in Nat /\ k \in Nat /\ (m < k \/ k < m)
        BY <1>1
      <3>2. CASE m < k
        BY <3>1, <3>2, PlacedAscends
      <3>3. CASE k < m
        BY <3>1, <3>3, PlacedAscends
      <3> QED
        BY <3>1, <3>2, <3>3
    <2>2. Placed(after, k) \in 1..size
      <3>1. k \in Nat /\ n + 1 \in Nat /\ k < n + 1
        BY <1>1
      <3>2. /\ Placed(after, k) \in Nat /\ Placed(after, n + 1) \in Nat
            /\ Placed(after, k) < Placed(after, n + 1)
        BY <3>1, PlacedAscends
      <3>3. Placed(after, n + 1) = size + 1 /\ Placed(after, 1) = 1
        BY <1>1, <1>2, PlacedStep
      <3>4. 1 <= Placed(after, k)
        <4>1. CASE k = 1
          BY <3>3, <4>1
        <4>2. CASE k # 1
          <5>1. 1 \in Nat /\ 1 < k
            BY <1>1, <4>2
          <5>2. Placed(after, 1) < Placed(after, k)
            BY <3>1, <5>1, PlacedAscends
          <5> QED
            BY <3>2, <3>3, <5>2
        <4> QED
          BY <4>1, <4>2
      <3> QED
        BY <1>2, <3>2, <3>3, <3>4
    <2> QED
      BY <2>1, <2>2
  <1>5. \A i \in 1..size : moved(i) => from(i) \in 1..n
    OBVIOUS
  <1>6. Token(c) \in Piece
    BY DEF Token, Piece
  <1> HIDE DEF moved, from, size, n
  <1>7. q \in Seq(Piece) /\ Len(q) = size
    <2>1. q \in [1..size -> Piece]
      BY <1>1, <1>3, <1>5, <1>6
    <2> HIDE DEF q
    <2> QED
      BY <1>2, <2>1
  <1>8. \A k \in 1..n : Placed(after, k) \in 1..Len(q) /\ q[Placed(after, k)] = p[k]
    BY <1>3, <1>4, <1>7
  <1>9. \A i \in 1..Len(q) : q[i] = Token(c) \/ \E k \in 1..n : i = Placed(after, k)
    BY <1>3, <1>7 DEF moved
  <1> QED
    BY <1>7, <1>8, <1>9 DEF n, size

-----------------------------------------------------------------------------
(* Lines.                                                                  *)

LEMMA LineParts ==
    ASSUME NEW line \in Line
    PROVE  /\ line.pieces \in Seq(Piece) /\ Len(line.pieces) \in Nat /\ Len(line.pieces) >= 1
           /\ DOMAIN line.pieces = 1..Len(line.pieces) /\ line.bullet \in BOOLEAN
  <1>1. line.pieces \in Seq(Piece) \ {<< >>} /\ line.bullet \in BOOLEAN
    BY DEF Line
  <1> DEFINE p == line.pieces
  <1> HIDE DEF p
  <1>2. p \in Seq(Piece) /\ p # << >>
    BY <1>1 DEF p
  <1>3. Len(p) \in Nat /\ Len(p) >= 1 /\ DOMAIN p = 1..Len(p)
    BY <1>2
  <1> QED
    BY <1>1, <1>2, <1>3 DEF p

LEMMA UncitedParts ==
    ASSUME NEW line \in Line
    PROVE  /\ IsFiniteSet(Uncited(line))
           /\ \A e \in Uncited(line) : e \in Nat /\ 1 <= e /\ e <= Len(line.pieces)
  <1>1. Uncited(line) \subseteq 1..Len(line.pieces)
    BY LineParts DEF Uncited, Ends
  <1>2. IsFiniteSet(1..Len(line.pieces))
    BY LineParts, FS_Interval
  <1> QED
    BY <1>1, <1>2, FS_Subset, LineParts

\* An index with a successor in 1..m is not m.
LEMMA BeforeLast ==
  ASSUME NEW m \in Nat, NEW j \in 1..m, j + 1 \in 1..m
  PROVE  j # m
  OBVIOUS

\* A repaired line is a line with no uncited segment left, and cites nothing but what it
\* cited and the token.
LEMMA LineRepaired ==
    ASSUME NEW line \in Line, NEW c \in Chunks
    PROVE  /\ RepairedLine(line, c) \in Line
           /\ Uncited(RepairedLine(line, c)) = {}
           /\ \A i \in DOMAIN RepairedLine(line, c).pieces :
                \/ RepairedLine(line, c).pieces[i] = Token(c)
                \/ \E k \in DOMAIN line.pieces :
                     RepairedLine(line, c).pieces[i] = line.pieces[k]
  <1> DEFINE p == line.pieces
             n == Len(p)
             after == Uncited(line)
             q == WithTokens(p, after, c)
             to == RepairedLine(line, c)
  <1>1. /\ p \in Seq(Piece) /\ n \in Nat /\ n >= 1 /\ DOMAIN p = 1..n
        /\ \A k \in 1..n : p[k] \in Piece
    BY LineParts
  <1>2. /\ IsFiniteSet(after) /\ \A e \in after : e \in Nat /\ 1 <= e /\ e <= n
    BY UncitedParts
  <1>3. /\ q \in Seq(Piece) /\ Len(q) = n + Cardinality(after)
        /\ \A k \in 1..n : Placed(after, k) \in 1..Len(q) /\ q[Placed(after, k)] = p[k]
        /\ \A i \in 1..Len(q) : \/ q[i] = Token(c)
                                \/ \E k \in 1..n : i = Placed(after, k)
    <2> HIDE DEF after
    <2> QED
      BY <1>1, <1>2, TokensPut
  <1>4. \A k \in 1..n :
          k \in after <=> /\ k = n \/ (~line.bullet /\ p[k].stop /\ p[k + 1].as = "cap")
                          /\ ~(p[k].as = "cite" /\ ~p[k].stop)
    BY <1>1 DEF Uncited, Ends
  <1> HIDE DEF after, q
  <1>5. Cardinality(after) \in Nat /\ Len(q) \in Nat /\ DOMAIN q = 1..Len(q) /\ Len(q) >= 1
    BY <1>1, <1>2, <1>3, FS_CardinalityType
  <1>6. to = [line EXCEPT !.pieces = q]
    BY DEF RepairedLine, q, after
  <1>7. to \in Line /\ to.pieces = q /\ to.bullet = line.bullet
    <2>1. line \in [bullet : BOOLEAN, pieces : Seq(Piece) \ {<< >>}]
      BY DEF Line
    <2>2. q # << >>
      BY <1>3, <1>5
    <2>3. to = [bullet |-> line.bullet, pieces |-> q]
      BY <1>6, <2>1
    <2> HIDE DEF to
    <2> QED
      BY <1>3, <2>1, <2>2, <2>3 DEF Line
  <1> HIDE DEF to
  <1>8. ASSUME NEW i \in 1..Len(q),
               i = Len(q) \/ (~line.bullet /\ q[i].stop /\ q[i + 1].as = "cap")
        PROVE  q[i].as = "cite" /\ ~q[i].stop
    <2>1. CASE q[i] = Token(c)
      BY <2>1 DEF Token
    <2>2. CASE q[i] # Token(c)
      <3>1. PICK k \in 1..n : i = Placed(after, k)
        BY <1>3, <2>2
      <3>2. q[i] = p[k]
        BY <1>3, <3>1
      <3>3. /\ Placed(after, k + 1) = Placed(after, k) + (IF k \in after THEN 2 ELSE 1)
            /\ Placed(after, n + 1) = Len(q) + 1
        <4>1. /\ Placed(after, k + 1) = Placed(after, k) + (IF k \in after THEN 2 ELSE 1)
              /\ Placed(after, n + 1) = n + 1 + Cardinality(after)
          BY <1>1, <1>2, PlacedStep
        <4> QED
          BY <1>1, <1>3, <1>5, <4>1
      <3>4. CASE k \notin after /\ k = n
        BY <1>4, <3>2, <3>4
      <3>5. CASE k \notin after /\ k # n
        <4>1. k + 1 \in 1..n /\ i + 1 = Placed(after, k + 1)
          BY <1>1, <3>1, <3>3, <3>5
        <4>2. i + 1 \in 1..Len(q) /\ q[i + 1] = p[k + 1]
          BY <1>3, <4>1
        <4>3. i # Len(q)
          <5>1. i + 1 \in 1..Len(q)
            BY <4>2
          <5> QED
            BY <1>5, <5>1, BeforeLast
        <4>4. ~line.bullet /\ q[i].stop /\ q[i + 1].as = "cap"
          BY <1>8, <4>3
        <4>5. ~line.bullet /\ p[k].stop /\ p[k + 1].as = "cap"
          BY <3>2, <4>2, <4>4
        <4> QED
          BY <1>4, <3>2, <3>5, <4>5
      <3>6. CASE k \in after
        <4>1. k + 1 \in 1..(n + 1) /\ k \in Nat
          BY <1>1
        <4>2. Placed(after, k + 1) = i + 2
          BY <1>5, <3>1, <3>3, <3>6
        <4>3. i + 1 \in 1..Len(q)
          <5>1. CASE k = n
            BY <1>5, <3>3, <4>2, <5>1
          <5>2. CASE k # n
            <6>1. k + 1 \in 1..n
              BY <1>1, <5>2
            <6> QED
              BY <1>3, <1>5, <4>2, <6>1
          <5> QED
            BY <5>1, <5>2
        <4>4. \A m \in 1..n : i + 1 # Placed(after, m)
          <5> SUFFICES ASSUME NEW m \in 1..n, i + 1 = Placed(after, m)
                       PROVE  FALSE
            OBVIOUS
          <5>1. m \in Nat /\ k \in Nat /\ k + 1 \in Nat
            BY <1>1
          <5>2. CASE m < k
            BY <1>2, <1>5, <3>1, <5>1, <5>2, PlacedAscends
          <5>3. CASE m = k
            BY <1>5, <3>1, <5>3
          <5>4. CASE m = k + 1
            BY <1>5, <4>2, <5>4
          <5>5. CASE k + 1 < m
            BY <1>2, <1>5, <4>2, <5>1, <5>5, PlacedAscends
          <5> QED
            BY <5>1, <5>2, <5>3, <5>4, <5>5
        <4>5. q[i + 1] = Token(c)
          BY <1>3, <4>3, <4>4
        <4>6. q[i + 1].as = "cite"
          BY <4>5 DEF Token
        <4>7. i # Len(q)
          BY <1>5, <4>3, BeforeLast
        <4> QED
          BY <1>8, <4>6, <4>7
      <3> QED
        BY <3>4, <3>5, <3>6
    <2> QED
      BY <2>1, <2>2
  <1>9. Uncited(to) = {}
    BY <1>5, <1>7, <1>8 DEF Uncited, Ends
  <1>10. \A i \in DOMAIN q : q[i] = Token(c) \/ \E k \in DOMAIN p : q[i] = p[k]
    BY <1>1, <1>3, <1>5
  <1> QED
    BY <1>7, <1>9, <1>10 DEF to

\* Taking the tokens out again leaves the line.
LEMMA LineKept ==
    ASSUME NEW line \in Line, NEW c \in Chunks
    PROVE  LET q == RepairedLine(line, c).pieces
           IN  /\ RepairedLine(line, c).bullet = line.bullet
               /\ \E kept \in SUBSET DOMAIN q :
                    /\ Cardinality(kept) = Len(line.pieces)
                    /\ \A i \in DOMAIN q :
                        IF i \in kept
                        THEN q[i] = line.pieces[Cardinality({ m \in kept : m <= i })]
                        ELSE q[i].as = "cite"
  <1> DEFINE p == line.pieces
             n == Len(p)
             after == Uncited(line)
             q == WithTokens(p, after, c)
             place == [k \in 1..n |-> Placed(after, k)]
             kept == { place[k] : k \in 1..n }
  <1>1. p \in Seq(Piece) /\ n \in Nat
    BY LineParts
  <1>2. /\ IsFiniteSet(after) /\ \A e \in after : e \in Nat /\ 1 <= e /\ e <= n
    BY UncitedParts
  <1>3. /\ q \in Seq(Piece)
        /\ \A k \in 1..n : Placed(after, k) \in 1..Len(q) /\ q[Placed(after, k)] = p[k]
        /\ \A i \in 1..Len(q) : \/ q[i] = Token(c)
                                \/ \E k \in 1..n : i = Placed(after, k)
    <2> HIDE DEF after
    <2> QED
      BY <1>1, <1>2, TokensPut
  <1>4. RepairedLine(line, c) = [line EXCEPT !.pieces = q]
    BY DEF RepairedLine
  <1> HIDE DEF after, q
  <1>5. RepairedLine(line, c).pieces = q /\ RepairedLine(line, c).bullet = line.bullet
    BY <1>4 DEF Line
  <1>6. DOMAIN q = 1..Len(q) /\ Len(q) \in Nat
    BY <1>3
  <1>7. \A k, m \in 1..n : k < m => place[k] < place[m]
    <2> SUFFICES ASSUME NEW k \in 1..n, NEW m \in 1..n, k < m
                 PROVE  Placed(after, k) < Placed(after, m)
      OBVIOUS
    <2> QED
      BY <1>1, <1>2, PlacedAscends
  <1>8. \A k \in 1..n : place[k] = Placed(after, k) /\ place[k] \in 1..Len(q) /\ place[k] \in Nat
    BY <1>3, <1>6
  <1> HIDE DEF place
  <1>9. \A k, m \in 1..n : k <= m <=> place[k] <= place[m]
    <2> SUFFICES ASSUME NEW k \in 1..n, NEW m \in 1..n
                 PROVE  k <= m <=> place[k] <= place[m]
      OBVIOUS
    <2>1. CASE k < m
      BY <1>7, <1>8, <2>1
    <2>2. CASE m < k
      BY <1>7, <1>8, <2>2
    <2>3. CASE k = m
      BY <1>8, <2>3
    <2> QED
      BY <1>1, <2>1, <2>2, <2>3
  <1>10. \A k \in 1..n : Cardinality({ m \in kept : m <= place[k] }) = k
    <2> TAKE k \in 1..n
    <2> DEFINE f == [x \in 1..k |-> place[x]]
               low == { m \in kept : m <= place[k] }
    <2>1. k \in Nat /\ 1..k \subseteq 1..n /\ IsFiniteSet(1..k) /\ Cardinality(1..k) = k
      <3>1. k \in Nat /\ 1..k \subseteq 1..n
        BY <1>1
      <3>2. IsFiniteSet(1..k) /\ Cardinality(1..k) = IF 1 > k THEN 0 ELSE k - 1 + 1
        BY <3>1, FS_Interval
      <3> QED
        BY <1>1, <3>1, <3>2
    <2>2. f \in [1..k -> low]
      <3> SUFFICES ASSUME NEW x \in 1..k PROVE place[x] \in low
        OBVIOUS
      <3>1. x \in 1..n /\ x <= k
        BY <2>1
      <3> QED
        BY <1>9, <3>1
    <2>3. \A x, y \in 1..k : f[x] = f[y] => x = y
      <3> SUFFICES ASSUME NEW x \in 1..k, NEW y \in 1..k, f[x] = f[y]
                   PROVE  x = y
        OBVIOUS
      <3>1. x \in 1..n /\ y \in 1..n /\ place[x] = place[y] /\ place[x] \in Nat
        BY <1>8, <2>1
      <3>2. x <= y /\ y <= x
        BY <1>9, <3>1
      <3> QED
        BY <1>1, <3>2
    <2>4. \A m \in low : \E x \in 1..k : f[x] = m
      <3> SUFFICES ASSUME NEW m \in low PROVE \E x \in 1..k : f[x] = m
        OBVIOUS
      <3>1. PICK x \in 1..n : m = place[x]
        OBVIOUS
      <3>2. x <= k
        BY <1>9, <3>1
      <3> QED
        BY <1>1, <3>1, <3>2
    <2> HIDE DEF f, low
    <2>5. ExistsBijection(1..k, low)
      BY <2>2, <2>3, <2>4 DEF ExistsBijection, Bijection, Injection, Surjection, IsInjective
    <2>6. Cardinality(low) = k
      BY <2>1, <2>5, FS_Bijection
    <2> QED
      BY <2>6 DEF low
  <1> SUFFICES /\ kept \in SUBSET DOMAIN q /\ Cardinality(kept) = n
               /\ \A i \in DOMAIN q : IF i \in kept
                                      THEN q[i] = p[Cardinality({ m \in kept : m <= i })]
                                      ELSE q[i].as = "cite"
    BY <1>5
  <1>11. kept \in SUBSET DOMAIN q
    BY <1>6, <1>8
  <1>12. Cardinality(kept) = n
    <2>1. CASE n = 0
      <3>1. kept = {}
        BY <2>1
      <3> HIDE DEF kept
      <3> QED
        BY <2>1, <3>1, FS_EmptySet
    <2>2. CASE n # 0
      <3>1. n \in 1..n
        BY <1>1, <2>2
      <3>2. { m \in kept : m <= place[n] } = kept
        <4>1. \A k \in 1..n : place[k] <= place[n]
          BY <1>1, <1>9, <3>1
        <4> QED
          BY <4>1
      <3>3. Cardinality({ m \in kept : m <= place[n] }) = n
        BY <1>10, <3>1
      <3> HIDE DEF kept
      <3> QED
        BY <3>2, <3>3
    <2> QED
      BY <2>1, <2>2
  <1>13. ASSUME NEW i \in DOMAIN q
         PROVE  IF i \in kept THEN q[i] = p[Cardinality({ m \in kept : m <= i })]
                ELSE q[i].as = "cite"
    <2>1. CASE i \in kept
      <3>1. PICK k \in 1..n : i = place[k]
        BY <2>1
      <3>2. q[i] = p[k]
        BY <1>3, <1>8, <3>1
      <3> QED
        BY <1>10, <2>1, <3>1, <3>2
    <2>2. CASE i \notin kept
      <3>1. \A k \in 1..n : i # Placed(after, k)
        BY <1>8, <2>2
      <3>2. q[i] = Token(c)
        BY <1>3, <1>6, <3>1
      <3> QED
        BY <2>2, <3>2 DEF Token
    <2> QED
      BY <2>1, <2>2
  <1> QED
    BY <1>11, <1>12, <1>13

-----------------------------------------------------------------------------
(* Answers.                                                                *)

\* Every sentence of a cited line is followed by a citation.
LEMMA CitedGrounded ==
    ASSUME NEW line \in Line, Uncited(line) = {}, Plain(line)
    PROVE  Grounded(line)
  <1> DEFINE p == line.pieces
             n == Len(p)
             words == { k \in DOMAIN p : p[k].as # "cite" }
  <1>1. /\ n \in Nat /\ n >= 1 /\ DOMAIN p = 1..n /\ line.bullet \in BOOLEAN
        /\ \A k \in 1..n : p[k] \in Piece
    BY LineParts
  <1>2. \A k \in 1..n : k = n \/ (~line.bullet /\ p[k].stop /\ p[k + 1].as = "cap")
                          => p[k].as = "cite" /\ ~p[k].stop
    BY <1>1 DEF Uncited, Ends
  <1>3. \A k \in 2..n : p[k].as = "low" => ~p[k - 1].stop
    BY DEF Plain
  <1>4. \A k \in 1..n : p[k].as \in {"cap", "low", "cite"}
    BY <1>1 DEF Piece
  <1> HIDE DEF p, n
  <1>5. ASSUME NEW k \in 1..n, p[k].as # "cite",
               (p[k].stop /\ ~line.bullet) \/ \A m \in words : m <= k
        PROVE  k < n /\ p[k + 1].as = "cite"
    <2>1. k # n
      BY <1>2, <1>5
    <2>2. k < n /\ k + 1 \in 1..n /\ k + 1 \in 2..n /\ (k + 1) - 1 = k
      BY <1>1, <2>1
    <2>3. CASE p[k].stop /\ ~line.bullet
      <3>1. p[k + 1].as # "cap"
        BY <1>2, <1>5, <2>3
      <3>2. p[k + 1].as # "low"
        BY <1>3, <2>2, <2>3
      <3> QED
        BY <1>4, <2>2, <3>1, <3>2
    <2>4. CASE \A m \in words : m <= k
      <3>1. k + 1 \notin words
        BY <2>2, <2>4
      <3> QED
        BY <1>1, <2>2, <3>1
    <2> QED
      BY <1>5, <2>3, <2>4
  <1> QED
    BY <1>1, <1>5 DEF Grounded, p, n

LEMMA CitedMember ==
    ASSUME NEW answer, NEW x
    PROVE  x \in CitedIn(answer) <=>
             x # NoChunk /\ \E n \in DOMAIN answer : \E i \in DOMAIN answer[n].pieces :
                              answer[n].pieces[i].chunk = x
  <1> DEFINE Of(n) == { answer[n].pieces[i].chunk : i \in DOMAIN answer[n].pieces }
  <1>1. CitedIn(answer) = (UNION { Of(n) : n \in DOMAIN answer }) \ {NoChunk}
    BY DEF CitedIn
  <1>2. \A n : x \in Of(n) <=> \E i \in DOMAIN answer[n].pieces : answer[n].pieces[i].chunk = x
    OBVIOUS
  <1> HIDE DEF Of
  <1>3. x \in UNION { Of(n) : n \in DOMAIN answer } <=> \E n \in DOMAIN answer : x \in Of(n)
    OBVIOUS
  <1>4. x \in CitedIn(answer) <=> x \in UNION { Of(n) : n \in DOMAIN answer } /\ x # NoChunk
    <2> DEFINE all == UNION { Of(n) : n \in DOMAIN answer }
    <2>1. CitedIn(answer) = all \ {NoChunk}
      BY <1>1
    <2> HIDE DEF all
    <2>2. x \in CitedIn(answer) <=> x \in all /\ x # NoChunk
      BY <2>1
    <2> QED
      BY <2>2 DEF all
  <1>5. ASSUME NEW n \in DOMAIN answer, x \in Of(n)
        PROVE  \E i \in DOMAIN answer[n].pieces : answer[n].pieces[i].chunk = x
    BY <1>2, <1>5
  <1>6. ASSUME NEW n \in DOMAIN answer,
               \E i \in DOMAIN answer[n].pieces : answer[n].pieces[i].chunk = x
        PROVE  x \in Of(n)
    BY <1>2, <1>6
  <1> QED
    BY <1>3, <1>4, <1>5, <1>6

LEMMA AnswerRepaired ==
    ASSUME NEW answer \in Seq(Line), NEW c \in Chunks
    PROVE  /\ Repaired(answer, c) \in Seq(Line)
           /\ answer # << >> => AllCited(Repaired(answer, c))
           /\ CitedIn(Repaired(answer, c)) \subseteq CitedIn(answer) \cup {c}
           /\ OnlyCitationsAdded(answer, Repaired(answer, c))
  <1> DEFINE to == Repaired(answer, c)
  <1>1. DOMAIN to = DOMAIN answer /\ \A n \in DOMAIN answer : to[n] = RepairedLine(answer[n], c)
    BY DEF Repaired
  <1>2. /\ Len(answer) \in Nat /\ DOMAIN answer = 1..Len(answer)
        /\ \A n \in DOMAIN answer : answer[n] \in Line
    OBVIOUS
  <1>3. to = [n \in 1..Len(answer) |-> RepairedLine(answer[n], c)]
    BY <1>2 DEF Repaired
  <1> HIDE DEF to
  <1>4. \A n \in DOMAIN answer : to[n] \in Line /\ Uncited(to[n]) = {}
    BY <1>1, <1>2, LineRepaired
  <1>5. to \in Seq(Line) /\ Len(to) = Len(answer)
    <2>1. to \in [1..Len(answer) -> Line]
      BY <1>1, <1>2, <1>3, <1>4
    <2> QED
      BY <1>2, <2>1
  <1>6. answer # << >> => AllCited(to)
    BY <1>1, <1>2, <1>4, <1>5 DEF AllCited
  <1>7. CitedIn(to) \subseteq CitedIn(answer) \cup {c}
    <2> SUFFICES ASSUME NEW x \in CitedIn(to), x # c
                 PROVE  x \in CitedIn(answer)
      OBVIOUS
    <2>1. PICK n \in DOMAIN to : \E i \in DOMAIN to[n].pieces : to[n].pieces[i].chunk = x
      BY CitedMember
    <2> DEFINE line == answer[n]
    <2>2. n \in DOMAIN answer /\ line \in Line /\ to[n] = RepairedLine(line, c)
      BY <1>1, <1>2
    <2> HIDE DEF line
    <2>3. PICK i \in DOMAIN RepairedLine(line, c).pieces :
                 RepairedLine(line, c).pieces[i].chunk = x
      BY <2>1, <2>2
    <2>4. RepairedLine(line, c).pieces[i] # Token(c)
      BY <2>3 DEF Token
    <2>5. PICK k \in DOMAIN line.pieces : RepairedLine(line, c).pieces[i] = line.pieces[k]
      BY <2>2, <2>4, LineRepaired
    <2>6. line.pieces[k].chunk = x /\ x # NoChunk
      BY <2>3, <2>5, CitedMember
    <2> QED
      BY <2>2, <2>6, CitedMember DEF line
  <1>8. OnlyCitationsAdded(answer, to)
    <2> SUFFICES ASSUME NEW n \in DOMAIN answer
                 PROVE  LET p == answer[n].pieces q == to[n].pieces
                        IN  /\ to[n].bullet = answer[n].bullet
                            /\ \E kept \in SUBSET DOMAIN q :
                                /\ Cardinality(kept) = Len(p)
                                /\ \A i \in DOMAIN q :
                                    IF i \in kept
                                    THEN q[i] = p[Cardinality({ m \in kept : m <= i })]
                                    ELSE q[i].as = "cite"
      BY <1>1 DEF OnlyCitationsAdded
    <2> DEFINE line == answer[n]
    <2>1. line \in Line /\ to[n] = RepairedLine(line, c)
      BY <1>1, <1>2
    <2> HIDE DEF line
    <2>2. LET p == line.pieces q == RepairedLine(line, c).pieces
          IN  /\ RepairedLine(line, c).bullet = line.bullet
              /\ \E kept \in SUBSET DOMAIN q :
                  /\ Cardinality(kept) = Len(p)
                  /\ \A i \in DOMAIN q :
                      IF i \in kept
                      THEN q[i] = p[Cardinality({ m \in kept : m <= i })]
                      ELSE q[i].as = "cite"
      BY <2>1, LineKept
    <2> QED
      BY <2>1, <2>2 DEF line
  <1> QED
    BY <1>5, <1>6, <1>7, <1>8 DEF to

\* An answer left alone.
LEMMA NothingAdded ==
    ASSUME NEW answer \in Seq(Line)
    PROVE  OnlyCitationsAdded(answer, answer)
  <1>1. ASSUME NEW line \in Line
        PROVE  LET p == line.pieces
               IN  \E kept \in SUBSET DOMAIN p :
                     /\ Cardinality(kept) = Len(p)
                     /\ \A i \in DOMAIN p :
                         IF i \in kept
                         THEN p[i] = p[Cardinality({ m \in kept : m <= i })]
                         ELSE p[i].as = "cite"
    <2> DEFINE p == line.pieces
               n == Len(p)
    <2>1. DOMAIN p = 1..n /\ n \in Nat
      BY <1>1, LineParts
    <2> HIDE DEF p, n
    <2>2. \A i \in 1..n : Cardinality(1..i) = i /\ { m \in 1..n : m <= i } = 1..i
      <3> TAKE i \in 1..n
      <3>1. i \in Nat /\ i >= 1
        BY <2>1
      <3>2. Cardinality(1..i) = IF 1 > i THEN 0 ELSE i - 1 + 1
        BY <3>1, FS_Interval
      <3> QED
        BY <2>1, <3>1, <3>2
    <2>3. Cardinality(1..n) = n
      <3>1. Cardinality(1..n) = IF 1 > n THEN 0 ELSE n - 1 + 1
        BY <2>1, FS_Interval
      <3> QED
        BY <2>1, <3>1
    <2>4. /\ 1..n \in SUBSET DOMAIN p /\ Cardinality(1..n) = Len(p)
          /\ \A i \in DOMAIN p :
               IF i \in 1..n THEN p[i] = p[Cardinality({ m \in 1..n : m <= i })]
               ELSE p[i].as = "cite"
      BY <2>1, <2>2, <2>3 DEF n
    <2>5. \E kept \in SUBSET DOMAIN p :
            /\ Cardinality(kept) = Len(p)
            /\ \A i \in DOMAIN p : IF i \in kept
                                   THEN p[i] = p[Cardinality({ m \in kept : m <= i })]
                                   ELSE p[i].as = "cite"
      BY <2>4, Zenon
    <2> QED
      BY <2>5 DEF p
  <1>2. \A n \in DOMAIN answer : answer[n] \in Line
    OBVIOUS
  <1> QED
    BY <1>1, <1>2 DEF OnlyCitationsAdded

LEMMA HitsShape ==
    ASSUME NEW hits \in HitLists
    PROVE  /\ hits \in Seq(Chunks) /\ DOMAIN hits = 1..Len(hits) /\ Len(hits) \in Nat
           /\ Range(hits) \subseteq Chunks
  <1>1. PICK n \in 0..Cardinality(Chunks) : hits \in [1..n -> Chunks]
    BY DEF HitLists
  <1>2. n \in Nat
    BY <1>1
  <1>3. hits \in Seq(Chunks) /\ Len(hits) = n
    BY <1>1, <1>2
  <1> QED
    BY <1>3 DEF Range

\* A nonempty set of naturals has a least element.
LEMMA LeastOf ==
    ASSUME NEW S, S \subseteq Nat, S # {}
    PROVE  \E n \in S : \A m \in S : n <= m
  <1>1. PICK n \in S : \A m \in S : ~(<< m, n >> \in OpToRel(<, Nat))
    BY NatLessThanWellFounded, WFMin
  <1>2. \A m, k : m \in Nat /\ k \in Nat /\ m < k => << m, k >> \in OpToRel(<, Nat)
    BY Zenon DEF OpToRel
  <1>3. \A m \in S : ~(m < n)
    BY Zenon, <1>1, <1>2
  <1>4. \A m \in S : n <= m
    <2> SUFFICES ASSUME NEW m \in S PROVE n <= m
      OBVIOUS
    <2>1. m \in Nat /\ n \in Nat
      OBVIOUS
    <2> QED
      BY <1>3, <2>1
  <1> QED
    BY <1>1, <1>4

\* The hit a repair cites is one with a token, if there is one.
LEMMA SourceTokened ==
    ASSUME NEW hits \in HitLists
    PROVE  /\ Tokened(hits) # {} => Source(hits) \in Range(hits) \ Tokenless
           /\ Tokened(hits) = {} => Range(hits) \subseteq Tokenless
  <1> DEFINE T == Tokened(hits)
             first == CHOOSE k \in T : \A m \in T : k <= m
  <1>1. T \subseteq DOMAIN hits /\ \A k \in DOMAIN hits : k \in T <=> hits[k] \notin Tokenless
    BY DEF Tokened
  <1>2. DOMAIN hits \subseteq Nat
    BY HitsShape
  <1>3. Source(hits) = hits[first]
    BY DEF Source
  <1> HIDE DEF T
  <1>4. ASSUME T # {}
        PROVE  first \in T
    <2>1. \E k \in T : \A m \in T : k <= m
      BY <1>1, <1>2, <1>4, LeastOf
    <2> QED
      BY <2>1, Zenon
  <1> HIDE DEF first
  <1> QED
    BY <1>1, <1>3, <1>4 DEF Range, T

\* An answer that a repair changes is cited, by hits with a token; an attempt that changes
\* nothing had none.
LEMMA RepairParts ==
    ASSUME NEW answer \in Seq(Line), NEW hits \in HitLists, NEW all
    PROVE  LET to == Repair(answer, hits, all)
           IN  /\ to \in Seq(Line)
               /\ CitedFrom(hits, answer, to)
               /\ to # answer => AllCited(to)
               /\ to # answer => Attempted(answer, hits, all)
               /\ Attempted(answer, hits, all) /\ to = answer => Range(hits) \subseteq Tokenless
  <1>1. CASE Attempted(answer, hits, all) /\ Tokened(hits) # {}
    <2> DEFINE c == Source(hits)
               to == Repaired(answer, c)
    <2>1. Repair(answer, hits, all) = to
      BY <1>1 DEF Repair
    <2>2. c \in Range(hits) \ Tokenless /\ c \in Chunks
      BY <1>1, SourceTokened, HitsShape
    <2>3. answer # << >> /\ ~AllCited(answer)
      BY <1>1 DEF Attempted
    <2> HIDE DEF c
    <2>4. to \in Seq(Line) /\ AllCited(to) /\ OnlyCitationsAdded(answer, to)
      BY <2>2, <2>3, AnswerRepaired
    <2>5. CitedIn(to) \subseteq CitedIn(answer) \cup {c}
      BY <2>2, AnswerRepaired
    <2> HIDE DEF to
    <2>6. to # answer
      BY <2>3, <2>4
    <2>7. CitedFrom(hits, answer, to)
      BY <2>2, <2>4, <2>5 DEF CitedFrom
    <2> QED
      BY <1>1, <2>1, <2>4, <2>6, <2>7
  <1>2. CASE ~(Attempted(answer, hits, all) /\ Tokened(hits) # {})
    <2>1. Repair(answer, hits, all) = answer
      BY <1>2 DEF Repair
    <2>2. CitedFrom(hits, answer, answer)
      BY NothingAdded DEF CitedFrom
    <2> QED
      BY <1>2, <2>1, <2>2, SourceTokened
  <1> QED
    BY <1>1, <1>2

-----------------------------------------------------------------------------
(* The session.                                                            *)

\* What a session remembers of an answer.
Remembrance == [answer : Seq(Line), fallback : BOOLEAN]
Message(raw, hits, all) ==
    LET to == Repair(raw, hits, all)
        uncited == to # << >> /\ ~AllCited(to)
    IN  [answer |-> IF uncited THEN << >> ELSE to, fallback |-> uncited]

Answered == [raw : Answers, hits : HitLists]

\* Each message of a session is made of what the model answered in its turn; a result is
\* that of a question asked.
SessionInv ==
    /\ allRuns \in BOOLEAN
    /\ session = "none" => history = << >>
    /\ history \in Seq(Remembrance)
    /\ turns \in Seq(Answered) /\ Len(turns) = Len(history)
    /\ \A k \in 1..Len(history) :
        history[k] = Message(turns[k].raw, turns[k].hits, allRuns)
    /\ result.status = "live" =>
        /\ session = "done"
        /\ \E raw \in FirstAnswers, hits \in HitLists :
            result = LiveResult(raw, hits, allRuns)

LEMMA MessageTrue ==
    ASSUME NEW raw \in Seq(Line), NEW hits \in HitLists, NEW all \in BOOLEAN
    PROVE  LET m == Message(raw, hits, all)
           IN  /\ m \in Remembrance
               /\ m.fallback <=> m.answer = << >> /\ raw # << >>
               /\ m.fallback => ~AllCited(raw) /\ (all => Range(hits) \subseteq Tokenless)
               /\ ~m.fallback =>
                    /\ CitedFrom(hits, raw, m.answer)
                    /\ m.answer = << >> \/ AllCited(m.answer)
                    /\ ~all => m.answer = raw
  <1> DEFINE to == Repair(raw, hits, all)
             uncited == to # << >> /\ ~AllCited(to)
             m == Message(raw, hits, all)
  <1>1. m = [answer |-> IF uncited THEN << >> ELSE to, fallback |-> uncited]
    BY DEF Message
  <1>2. /\ to \in Seq(Line) /\ CitedFrom(hits, raw, to)
        /\ to # raw => AllCited(to) /\ Attempted(raw, hits, all)
        /\ Attempted(raw, hits, all) /\ to = raw => Range(hits) \subseteq Tokenless
    BY RepairParts
  <1>3. Attempted(raw, hits, all) <=> all /\ hits # << >> /\ raw # << >> /\ ~AllCited(raw)
    BY DEF Attempted
  <1>4. AllCited(to) => to # << >>
    BY DEF AllCited
  <1>5. hits = << >> => Range(hits) = {}
    BY DEF Range
  <1>6. << >> \in Seq(Line)
    OBVIOUS
  <1> HIDE DEF to, m
  <1>7. m.answer = (IF uncited THEN << >> ELSE to) /\ m.fallback = uncited
    BY <1>1
  <1>8. m \in Remembrance
    <2>1. CASE uncited
      <3>1. m = [answer |-> << >>, fallback |-> TRUE]
        BY <1>1, <2>1
      <3> QED
        BY <1>6, <3>1 DEF Remembrance
    <2>2. CASE ~uncited
      <3>1. m = [answer |-> to, fallback |-> FALSE]
        BY <1>1, <2>2
      <3> QED
        BY <1>2, <3>1 DEF Remembrance
    <2> QED
      BY <2>1, <2>2
  <1>9. CASE uncited
    <2>1. to = raw /\ raw # << >> /\ ~AllCited(raw)
      BY <1>2, <1>9
    <2>2. all => Range(hits) \subseteq Tokenless
      BY <1>2, <1>3, <1>5, <2>1
    <2> QED
      BY <1>7, <1>8, <1>9, <2>1, <2>2 DEF m
  <1>10. CASE ~uncited
    <2>1. to = << >> => raw = << >>
      BY <1>2, <1>4
    <2>2. ~all => to = raw
      BY <1>2, <1>3
    <2>3. m.answer = to /\ ~m.fallback
      BY <1>7, <1>10
    <2>4. to = << >> \/ AllCited(to)
      BY <1>10
    <2> QED
      BY <1>2, <1>8, <2>1, <2>2, <2>3, <2>4 DEF m
  <1> QED
    BY <1>9, <1>10

LEMMA InitSession == Init => SessionInv
  <1> SUFFICES ASSUME Init PROVE SessionInv
    OBVIOUS
  <1>1. /\ history = << >> /\ turns = << >> /\ allRuns = FALSE
        /\ result.status = "none"
    BY DEF Init, NoResult
  <1>2. /\ history \in Seq(Remembrance) /\ Len(history) = 0
        /\ turns \in Seq(Answered) /\ Len(turns) = 0
    BY <1>1
  <1>3. \A k \in 1..Len(history) : history[k] = Message(turns[k].raw, turns[k].hits, allRuns)
    BY <1>2
  <1> QED
    BY <1>1, <1>2, <1>3 DEF SessionInv

\* A turn adds one message, made of its answer and hits.
LEMMA TurnRemembers ==
    ASSUME SessionInv, Turn
    PROVE  SessionInv'
  <1>1. PICK raw \in Answers, hits \in HitLists :
               /\ LET shown == Postprocess(raw, hits, allRuns, << >>).shown
                  IN  history' = Append(history, [answer |-> shown.history,
                                                  fallback |-> shown.fallback])
               /\ turns' = Append(turns, [raw |-> raw, hits |-> hits])
               /\ session = "open" /\ UNCHANGED << session, allRuns, result >>
    BY DEF Turn
  <1> DEFINE m == Message(raw, hits, allRuns)
             turn == [raw |-> raw, hits |-> hits]
             n == Len(history)
  <1>2. history' = Append(history, m)
    BY <1>1 DEF Postprocess, Fallback, Message
  <1>3. raw \in Seq(Line) /\ allRuns \in BOOLEAN
    BY AnswersAssumption DEF SessionInv
  <1>4. m \in Remembrance
    BY <1>3, MessageTrue
  <1>5. turn \in Answered /\ turn.raw = raw /\ turn.hits = hits
    BY DEF Answered
  <1>6. /\ history \in Seq(Remembrance) /\ turns \in Seq(Answered) /\ Len(turns) = n /\ n \in Nat
        /\ \A k \in 1..n : history[k] = Message(turns[k].raw, turns[k].hits, allRuns)
    BY DEF SessionInv
  <1>7. turns' = Append(turns, turn)
    BY <1>1
  <1> HIDE DEF m, turn
  <1>8. /\ history' \in Seq(Remembrance) /\ Len(history') = n + 1
        /\ \A k \in 1..n : history'[k] = history[k]
        /\ history'[n + 1] = m
    BY <1>2, <1>4, <1>6
  <1>9. /\ turns' \in Seq(Answered) /\ Len(turns') = n + 1
        /\ \A k \in 1..n : turns'[k] = turns[k]
        /\ turns'[n + 1] = turn
    BY <1>5, <1>6, <1>7
  <1> HIDE DEF n
  <1>10. ASSUME NEW k \in 1..Len(history')
         PROVE  history'[k] = Message(turns'[k].raw, turns'[k].hits, allRuns')
    <2>1. k \in 1..n \/ k = n + 1
      BY <1>6, <1>8
    <2>2. CASE k \in 1..n
      BY <1>1, <1>6, <1>8, <1>9, <2>2
    <2>3. CASE k = n + 1
      BY <1>1, <1>5, <1>8, <1>9, <2>3 DEF m
    <2> QED
      BY <2>1, <2>2, <2>3
  <1>11. result'.status # "live" /\ session' # "none"
    BY <1>1 DEF SessionInv
  <1> QED
    BY <1>1, <1>3, <1>8, <1>9, <1>10, <1>11 DEF SessionInv

LEMMA StepSession == SessionInv /\ [Next]_sessionVars => SessionInv'
  <1> SUFFICES ASSUME SessionInv, [Next]_sessionVars
               PROVE  SessionInv'
    OBVIOUS
  <1>1. /\ << >> \in Seq(Remembrance) /\ << >> \in Seq(Answered)
        /\ Len(<< >>) = 0
    OBVIOUS
  <1>2. CASE EarlyReturn
    BY <1>2 DEF EarlyReturn, SessionInv
  <1>3. CASE AskOnce
    <2>1. PICK raw \in FirstAnswers, hits \in HitLists, all \in BOOLEAN :
                 result' = LiveResult(raw, hits, all) /\ allRuns' = all
      BY <1>3 DEF AskOnce
    <2>2. session = "none" /\ session' = "done" /\ UNCHANGED << history, turns >>
      BY <1>3 DEF AskOnce
    <2>3. history = << >> /\ Len(history) = 0
      BY <2>2 DEF SessionInv
    <2> QED
      BY <2>1, <2>2, <2>3 DEF SessionInv
  <1>4. CASE Open
    <2>1. /\ session = "none" /\ session' # "none" /\ allRuns' \in BOOLEAN
          /\ UNCHANGED << history, result, turns >>
      BY <1>4 DEF Open
    <2>2. history = << >> /\ Len(history) = 0 /\ result.status # "live"
      BY <2>1 DEF SessionInv
    <2> QED
      BY <2>1, <2>2 DEF SessionInv
  <1>5. CASE Turn
    BY <1>5, TurnRemembers
  <1>6. CASE SearchRaises
    BY <1>1, <1>6 DEF SearchRaises, SessionInv
  <1>7. CASE Close
    BY <1>1, <1>7 DEF Close, SessionInv
  <1>8. CASE UNCHANGED sessionVars
    BY <1>8 DEF sessionVars, SessionInv
  <1> QED
    BY <1>2, <1>3, <1>4, <1>5, <1>6, <1>7, <1>8 DEF Next

LEMMA SessionInvariant == Spec => []SessionInv
  BY InitSession, StepSession, PTL DEF Spec

\* Whatever the model answers and cites, a session remembers its words with every sentence
\* cited and no citation added but of a hit of that turn, or forgets an answer that could
\* not be repaired.
THEOREM SessionsRememberCited == Spec => []HistoryCited
  <1>1. SessionInv => HistoryCited
    <2> SUFFICES ASSUME SessionInv, NEW k \in DOMAIN history
                 PROVE  LET m == history[k] turn == turns[k] IN
                        /\ m.fallback <=> m.answer = << >> /\ turn.raw # << >>
                        /\ m.fallback => /\ ~AllCited(turn.raw)
                                         /\ allRuns => Range(turn.hits) \subseteq Tokenless
                        /\ ~m.fallback =>
                            /\ CitedFrom(turn.hits, turn.raw, m.answer)
                            /\ \A n \in DOMAIN m.answer : Plain(m.answer[n]) => Grounded(m.answer[n])
                            /\ ~allRuns => m.answer = turn.raw
      BY DEF HistoryCited
    <2> DEFINE raw == turns[k].raw
               hits == turns[k].hits
               m == Message(raw, hits, allRuns)
    <2>1. history \in Seq(Remembrance) /\ k \in 1..Len(history)
      BY DEF SessionInv
    <2>2. turns[k] \in Answered
      <3>1. turns \in Seq(Answered) /\ k \in 1..Len(turns)
        BY <2>1 DEF SessionInv
      <3> QED
        BY <3>1
    <2>3. raw \in Seq(Line) /\ hits \in HitLists /\ allRuns \in BOOLEAN
      BY <2>2, AnswersAssumption DEF SessionInv, Answered
    <2>4. history[k] = m
      BY <2>1 DEF SessionInv
    <2> HIDE DEF raw, hits
    <2>5. /\ m \in Remembrance
          /\ m.fallback <=> m.answer = << >> /\ raw # << >>
          /\ m.fallback => ~AllCited(raw) /\ (allRuns => Range(hits) \subseteq Tokenless)
          /\ ~m.fallback =>
               /\ CitedFrom(hits, raw, m.answer)
               /\ m.answer = << >> \/ AllCited(m.answer)
               /\ ~allRuns => m.answer = raw
      BY <2>3, MessageTrue
    <2> HIDE DEF m
    <2> DEFINE answer == m.answer
    <2>6. answer \in Seq(Line)
      BY <2>5 DEF Remembrance
    <2>7. ASSUME ~m.fallback, NEW n \in DOMAIN answer, Plain(answer[n])
          PROVE  Grounded(answer[n])
      <3>1. answer = << >> \/ AllCited(answer)
        BY <2>5, <2>7
      <3> HIDE DEF answer
      <3>2. answer[n] \in Line /\ Uncited(answer[n]) = {}
        BY <2>6, <2>7, <3>1 DEF AllCited
      <3> QED
        BY <2>7, <3>2, CitedGrounded
    <2> QED
      BY <2>4, <2>5, <2>7 DEF raw, hits
  <1> QED
    BY <1>1, SessionInvariant, PTL

-----------------------------------------------------------------------------
(* Results.                                                                *)

\* The elements of two lists one after the other, and the second list cut off again.
LEMMA Joined ==
    ASSUME NEW S, NEW s \in Seq(S), NEW t \in Seq(S)
    PROVE  /\ s \o t \in Seq(S)
           /\ \A x : x \in Range(s \o t) <=> x \in Range(s) \/ x \in Range(t)
           /\ SubSeq(s \o t, Len(s) + 1, Len(s \o t)) = t
  <1>1. /\ Len(s) \in Nat /\ DOMAIN s = 1..Len(s) /\ Len(t) \in Nat /\ DOMAIN t = 1..Len(t)
        /\ s \o t \in Seq(S) /\ Len(s \o t) = Len(s) + Len(t) /\ DOMAIN (s \o t) = 1..Len(s \o t)
        /\ \A k \in 1..Len(s) : (s \o t)[k] = s[k]
        /\ \A k \in 1..Len(t) : (s \o t)[Len(s) + k] = t[k]
    OBVIOUS
  <1>2. ASSUME NEW x, x \in Range(s \o t)
        PROVE  x \in Range(s) \/ x \in Range(t)
    <2>1. PICK k \in 1..(Len(s) + Len(t)) : x = (s \o t)[k]
      BY <1>1, <1>2 DEF Range
    <2>2. CASE k <= Len(s)
      BY <1>1, <2>1, <2>2 DEF Range
    <2>3. CASE ~(k <= Len(s))
      <3>1. k - Len(s) \in 1..Len(t) /\ Len(s) + (k - Len(s)) = k
        BY <1>1, <2>3
      <3>2. x = t[k - Len(s)]
        BY <1>1, <2>1, <3>1
      <3> QED
        BY <1>1, <3>1, <3>2 DEF Range
    <2> QED
      BY <2>2, <2>3
  <1>3. ASSUME NEW x, x \in Range(s)
        PROVE  x \in Range(s \o t)
    <2>1. PICK k \in 1..Len(s) : x = s[k]
      BY <1>1, <1>3 DEF Range
    <2>2. k \in 1..Len(s \o t) /\ (s \o t)[k] = x
      BY <1>1, <2>1
    <2> QED
      BY <1>1, <2>2 DEF Range
  <1>4. ASSUME NEW x, x \in Range(t)
        PROVE  x \in Range(s \o t)
    <2>1. PICK k \in 1..Len(t) : x = t[k]
      BY <1>1, <1>4 DEF Range
    <2>2. Len(s) + k \in 1..Len(s \o t) /\ (s \o t)[Len(s) + k] = x
      BY <1>1, <2>1
    <2> QED
      BY <1>1, <2>2 DEF Range
  <1>5. SubSeq(s \o t, Len(s) + 1, Len(s \o t)) = t
    <2> DEFINE u == SubSeq(s \o t, Len(s) + 1, Len(s \o t))
    <2>1. u \in Seq(S) /\ Len(u) = Len(t) /\ \A k \in 1..Len(t) : u[k] = (s \o t)[Len(s) + k]
      BY <1>1
    <2>2. \A k \in 1..Len(t) : u[k] = t[k]
      BY <1>1, <2>1
    <2> HIDE DEF u
    <2>3. u = t
      BY <1>1, <2>1, <2>2
    <2> QED
      BY <2>3 DEF u
  <1> QED
    BY <1>1, <1>2, <1>3, <1>4, <1>5

\* There are as many warnings as hits that call for one.
LEMMA WarningsShape ==
    ASSUME NEW hits \in HitLists, NEW chunks, NEW kind
    PROVE  /\ Warnings(kind, hits, chunks) \in Seq(Range(Warnings(kind, hits, chunks)))
           /\ Warnings(kind, hits, chunks) = << >> => \A k \in DOMAIN hits : hits[k] \notin chunks
  <1> DEFINE P == { k \in DOMAIN hits : hits[k] \in chunks }
             kept == Kept(hits, P)
             W == Warnings(kind, hits, chunks)
  <1>1. IsFiniteSet(P) /\ Cardinality(P) \in Nat
    <2>1. DOMAIN hits = 1..Len(hits) /\ Len(hits) \in Nat
      BY HitsShape
    <2>2. P \subseteq 1..Len(hits)
      BY <2>1
    <2>3. IsFiniteSet(1..Len(hits))
      BY <2>1, FS_Interval
    <2> HIDE DEF P
    <2> QED
      BY <2>2, <2>3, FS_Subset, FS_CardinalityType
  <1>2. DOMAIN kept = 1..Cardinality(P)
    BY DEF Kept
  <1>3. W = [k \in DOMAIN kept |-> << kind, kept[k] >>]
    BY DEF Warnings
  <1> HIDE DEF P, kept, W
  <1>4. DOMAIN W = 1..Cardinality(P) /\ W = [k \in 1..Cardinality(P) |-> << kind, kept[k] >>]
    BY <1>2, <1>3
  <1>5. W \in Seq(Range(W))
    <2>1. W \in [1..Cardinality(P) -> Range(W)]
      BY <1>4 DEF Range
    <2> QED
      BY <1>1, <2>1
  <1>6. W = << >> => P = {}
    <2>1. W = << >> => Cardinality(P) = 0
      BY <1>1, <1>4
    <2> QED
      BY <1>1, <2>1, FS_EmptySet
  <1> QED
    BY <1>5, <1>6 DEF P, W

LEMMA SeqWiden ==
    ASSUME NEW S, NEW T, S \subseteq T, NEW s \in Seq(S)
    PROVE  s \in Seq(T)
  OBVIOUS

\* A result claims full evidence only of a cited answer to hits with text; what is shown is
\* what the model answered with, at most, citations of hits with a token added; a repair
\* made suffices, and one attempted in vain ends in the fallback.
THEOREM ResultsTrue == Spec => []EvidenceTrue
  <1>1. SessionInv => EvidenceTrue
    <2> SUFFICES ASSUME SessionInv, result.status = "live"
                 PROVE  EvidenceTrue
      BY DEF EvidenceTrue
    <2>2. PICK raw \in FirstAnswers, hits \in HitLists :
                 result = LiveResult(raw, hits, allRuns)
      BY DEF SessionInv
    <2>3. raw \in Seq(Line)
      BY AnswersAssumption
    <2> DEFINE to == Repair(raw, hits, allRuns)
               cited == AllCited(to)
               old == EmptyWarnings(hits)
               new == IF to # << >> /\ ~cited THEN << << "uncited", NoChunk >> >> ELSE << >>
               post == Postprocess(raw, hits, allRuns, old)
               fresh == SubSeq(post.citationWarnings, Len(old) + 1, Len(post.citationWarnings))
    <2>4. /\ result.raw = raw /\ result.hits = hits /\ result.post = post
          /\ result.warnings = SearchWarnings(hits) \o fresh
      BY <2>2 DEF LiveResult
    <2>5. /\ post.shown.display = to
          /\ post.shown.history = IF to # << >> /\ ~cited THEN << >> ELSE to
          /\ post.shown.fallback = (to # << >> /\ ~cited)
          /\ post.repaired = (to # raw) /\ post.attempted = Attempted(raw, hits, allRuns)
          /\ post.citationWarnings = old \o new
          /\ post.evidence = IF to = << >> THEN "no_answer"
                             ELSE IF ~cited \/ old \o new # << >> THEN "degraded" ELSE "full"
      BY DEF Postprocess, Fallback
    <2>6. /\ to \in Seq(Line) /\ CitedFrom(hits, raw, to)
          /\ to # raw => cited /\ Attempted(raw, hits, allRuns)
          /\ Attempted(raw, hits, allRuns) /\ to = raw => Range(hits) \subseteq Tokenless
      BY <2>3, RepairParts
    <2>7. old \in Seq(Range(old)) /\ (old = << >> => \A k \in DOMAIN hits : hits[k] \notin EmptyChunks)
      BY WarningsShape DEF EmptyWarnings
    <2> HIDE DEF post, to, old
    <2>8. ASSUME post.evidence = "full"
          PROVE  /\ to # << >> /\ cited /\ old = << >>
      <3>1. to # << >> /\ cited /\ old \o new = << >>
        BY <2>5, <2>8
      <3>2. new = << >>
        BY <3>1
      <3> HIDE DEF new
      <3>3. old = << >>
        BY <2>7, <3>1, <3>2
      <3> QED
        BY <3>1, <3>3
    <2>9. ASSUME cited, NEW n \in DOMAIN to, Plain(to[n])
          PROVE  Grounded(to[n])
      <3>1. to[n] \in Line /\ Uncited(to[n]) = {}
        BY <2>6, <2>9 DEF AllCited
      <3> QED
        BY <2>9, <3>1, CitedGrounded
    <2>10. post.evidence = "full" => /\ ~post.shown.fallback /\ post.shown.history # << >>
                                     /\ Range(hits) \cap EmptyChunks = {}
                                     /\ \A n \in DOMAIN to : Plain(to[n]) => Grounded(to[n])
      BY <2>5, <2>7, <2>8, <2>9 DEF Range
    <2>11. /\ post.repaired => ~post.shown.fallback
           /\ ~post.attempted => to = raw
      BY <2>5, <2>6
    <2>12. ASSUME post.attempted, ~post.repaired
           PROVE  post.shown.fallback /\ Range(hits) \subseteq Tokenless
      <3>1. to = raw /\ raw # << >> /\ ~AllCited(raw)
        BY <2>5, <2>12 DEF Attempted
      <3> QED
        BY <2>5, <2>6, <2>12, <3>1
    <2>13. Range(post.citationWarnings) \subseteq Range(result.warnings)
      <3> DEFINE first == Warnings("bare", hits, BareChunks)
                 both == first \o old
                 all == (Range(first) \cup Range(old)) \cup {<< "uncited", NoChunk >>}
      <3>1. first \in Seq(Range(first))
        BY WarningsShape
      <3>2. SearchWarnings(hits) = both
        BY DEF SearchWarnings, old
      <3>3. Range(first) \subseteq all /\ Range(old) \subseteq all /\ << "uncited", NoChunk >> \in all
        OBVIOUS
      <3> HIDE DEF first, all
      <3>4. first \in Seq(all) /\ old \in Seq(all)
        BY <2>7, <3>1, <3>3, SeqWiden
      <3>5. new \in Seq(all)
        BY <3>3
      <3> HIDE DEF new
      <3>6. fresh = new
        BY <2>5, <3>4, <3>5, Joined
      <3>7. both \in Seq(all) /\ \A x : x \in Range(both) <=> x \in Range(first) \/ x \in Range(old)
        BY <3>4, Joined
      <3>8. \A x : x \in Range(old \o new) <=> x \in Range(old) \/ x \in Range(new)
        BY <3>4, <3>5, Joined
      <3> HIDE DEF both
      <3>9. \A x : x \in Range(both \o new) <=> x \in Range(both) \/ x \in Range(new)
        BY <3>5, <3>7, Joined
      <3>10. result.warnings = both \o new
        BY <2>4, <3>2, <3>6
      <3> QED
        BY <2>5, <3>7, <3>8, <3>9, <3>10
    <2> QED
      BY <2>4, <2>5, <2>6, <2>10, <2>11, <2>12, <2>13 DEF EvidenceTrue
  <1> QED
    BY <1>1, SessionInvariant, PTL
=============================================================================
