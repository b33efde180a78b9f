------------------------- MODULE MCRetrievalSession ------------------------
(* A small instance of RetrievalSession for TLC. *)
EXTENDS RetrievalSession

Lines(n) == [bullet : BOOLEAN, pieces : UNION { [1..k -> Piece] : k \in 1..n }]
Word == [as |-> "cap", stop |-> TRUE, chunk |-> NoChunk]

MCAnswers == {<< >>} \cup { << l >> : l \in Lines(2) }
MCFirstAnswers ==
    MCAnswers \cup { << l >> : l \in Lines(4) }
    \cup { << [bullet |-> FALSE, pieces |-> << Word >>], l >> : l \in Lines(2) }
=============================================================================
