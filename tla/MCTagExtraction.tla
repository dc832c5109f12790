-------------------------- MODULE MCTagExtraction --------------------------
EXTENDS TagExtraction, TLC

CONSTANTS n1, n2

(* "rust" and "rust ownership".                                             *)
OneInOther == {<<n1, n1>>, <<n2, n2>>, <<n1, n2>>}

(* A word of most texts is named for its place, and so no two are the same: the  *)
(* sizes stand for a short word and a long one, or a placeholder.            *)
Sizes == {1, 4}
Places == (1..3) \X (1..2) \X (1..2) \X Sizes
MCWords == Places \cup Names
MCSize == [w \in MCWords |-> IF w \in Names THEN 2 ELSE w[4]]

(* Up to two paragraphs, of two sentences and one, and three of one each.    *)
Sentence == BoundedSeq(Sizes, 2) \ {<<>>}
Paragraph == BoundedSeq(Sentence, 2)
Shapes ==
    {<<>>} \cup {<<p>> : p \in Paragraph}
        \cup {<<p, q>> : p \in Paragraph, q \in BoundedSeq(Sentence, 1)}
        \cup {<<p, q>> : p \in BoundedSeq(Sentence, 1), q \in Paragraph}
        \cup {<<<<s>>, <<r>>, <<q>>>> : s, r, q \in Sentence}
Named(x) == [i \in DOMAIN x |-> [j \in DOMAIN x[i] |->
                [k \in DOMAIN x[i][j] |-> <<i, j, k, x[i][j][k]>>]]]

(* One short text with both labels, and one of two paragraphs, cut in two; and   *)
(* one that says the same over and over.                                     *)
Short == <<<< <<n1, n2>> >>>>
Long == <<<< <<n1>> >>, << <<n2>> >>>>
Same == << << <<n1>>, <<n1>>, <<n1>> >>, << <<n1>>, <<n1>> >> >>
MCTexts == {Named(x) : x \in Shapes} \cup {Short, Long, Same}
MCDocuments == {<<Short, 6, 0>>, <<Long, 4, 0>>}
MCSettings == {<<6, 3>>, <<12, 5>>, <<5, 6>>, <<8, 0>>, <<12, 7>>}

(* A model finds no more than the first line says.                          *)
FirstLine == {{n1}}

TaskSymmetry == Permutations(Tasks)

=============================================================================
