------------------------------ MODULE Chunking ------------------------------
(***************************************************************************)
(* chunk_text() (umms-retriever/src/ingest/chunker.rs), which cuts a        *)
(* document into the pieces that become memories.  A text is a sequence of   *)
(* paragraphs, a paragraph one of sentences, a sentence one of words; a URL   *)
(* or a code block is a word, with the size of its placeholder.  Offsets,     *)
(* which nothing reads, are left out.                                        *)
(***************************************************************************)
EXTENDS Integers, FiniteSets, FiniteSetsExt, Sequences, SequencesExt

CONSTANTS
    Words,
    Blank,      \* what stands between words
    Size,       \* Size[w]: bytes of word w in the protected text
    Texts,      \* documents
    Settings    \* <<target_size, overlap>> of requests

ASSUME ChunkingAssumption ==
    /\ Blank \notin Words
    /\ Size \in [Words -> Nat \ {0}]
    /\ Texts \subseteq Seq(Seq(Seq(Words) \ {<<>>}))
    /\ Settings \subseteq Nat \X Nat

(* What a chunk is made of: words, or what a cut has left of one, and gaps.    *)
Token(w) == [word |-> w, size |-> Size[w], stop |-> FALSE]
Gap(n) == [word |-> Blank, size |-> n, stop |-> FALSE]
Space == Gap(1)
Break == Gap(2)

Bytes(c) ==
    LET upTo[i \in 0..Len(c)] == IF i = 0 THEN 0 ELSE upTo[i - 1] + c[i].size
    IN  upTo[Len(c)]

Join(c, gap, d) == IF c = <<>> THEN d ELSE c \o <<gap>> \o d

(* A sentence, its last word with the stop that ends it.                     *)
SentenceOf(s) ==
    [i \in 1..(2 * Len(s) - 1) |->
        IF i % 2 = 0 THEN Space
        ELSE [Token(s[(i + 1) \div 2]) EXCEPT !.stop = (i = 2 * Len(s) - 1)]]

ParagraphOf(p) ==
    LET upTo[i \in 0..Len(p)] ==
          IF i = 0 THEN <<>> ELSE Join(upTo[i - 1], Space, SentenceOf(p[i]))
    IN  upTo[Len(p)]

Whole(x) ==
    LET upTo[i \in 0..Len(x)] ==
          IF i = 0 THEN <<>> ELSE Join(upTo[i - 1], Break, ParagraphOf(x[i]))
    IN  upTo[Len(x)]

Length(x) ==
    LET upTo[i \in 0..Len(x)] == IF i = 0 THEN 0 ELSE upTo[i - 1] + 2 + Bytes(ParagraphOf(x[i]))
    IN  upTo[Len(x)] - 2

----------------------------------------------------------------------------
(* find_char_boundary() and find_word_boundary(): what follows the first      *)
(* space in the last overlap bytes; all of them if there is none.            *)

Before(c, i) == Bytes(SubSeq(c, 1, i - 1))

(* A mutant: the cut is not moved to a word boundary.                        *)
CarriedUnaligned(c, overlap) ==
    LET start == IF Bytes(c) <= overlap THEN 0 ELSE Bytes(c) - overlap
        i == Min({i \in DOMAIN c : Before(c, i) + c[i].size > start} \cup {Len(c) + 1})
    IN  IF i > Len(c) THEN <<>>
        ELSE <<[c[i] EXCEPT !.size = Before(c, i + 1) - start]>> \o SubSeq(c, i + 1, Len(c))

Carried(c, overlap) ==
    LET start == IF Bytes(c) <= overlap THEN 0 ELSE Bytes(c) - overlap
        spaces == {i \in DOMAIN c : c[i] = Space /\ Before(c, i) >= start}
        i == Min({i \in DOMAIN c : Before(c, i) + c[i].size > start} \cup {Len(c) + 1})
    IN  IF spaces # {} THEN SubSeq(c, Min(spaces) + 1, Len(c))
        ELSE IF i > Len(c) THEN <<>>
        ELSE <<[c[i] EXCEPT !.size = Before(c, i + 1) - start]>> \o SubSeq(c, i + 1, Len(c))

(* Where the cutting stands: the chunks that are complete and the current one. *)
Piece == [word : Words \cup {Blank}, size : Nat, stop : BOOLEAN]
State == [chunks : Seq(Seq(Piece)), cur : Seq(Piece)]

(* A chunk is complete: the next one begins with the end of it.               *)
Flushed(st, overlap) ==
    [chunks |-> Append(st.chunks, st.cur), cur |-> Carried(st.cur, overlap)]

Fits(st, part, gap, target) == st.cur = <<>> \/ Bytes(st.cur) + Bytes(part) + gap <= target

AddSentence(s, target, overlap) ==
    [st \in State |->
        LET into == IF Fits(st, s, 1, target) THEN st ELSE Flushed(st, overlap)
        IN  [into EXCEPT !.cur = Join(@, Space, s)]]

AddParagraph(p, target, overlap) ==
    [st \in State |->
        LET text == ParagraphOf(p)
            into == IF Fits(st, text, 2, target) THEN st ELSE Flushed(st, overlap)
            upTo[i \in 0..Len(p)] ==
               IF i = 0 THEN into ELSE AddSentence(SentenceOf(p[i]), target, overlap)[upTo[i - 1]]
        IN  IF Bytes(text) <= target THEN [into EXCEPT !.cur = Join(@, Break, text)]
            ELSE upTo[Len(p)]]

Chunks(x, target, overlap) ==
    LET upTo[i \in 0..Len(x)] ==
           IF i = 0 THEN [chunks |-> <<>>, cur |-> <<>>]
           ELSE IF x[i] = <<>> THEN upTo[i - 1]
           ELSE AddParagraph(x[i], target, overlap)[upTo[i - 1]]
        st == upTo[Len(x)]
    IN  IF x = <<>> THEN <<>>
        ELSE IF Length(x) <= target THEN <<Whole(x)>>
        ELSE IF st.cur = <<>> THEN st.chunks
        ELSE Append(st.chunks, st.cur)

----------------------------------------------------------------------------
(* Properties of the pieces, for every text and setting.                     *)

WordsIn(c) ==
    LET upTo[i \in 0..Len(c)] ==
          IF i = 0 THEN <<>>
          ELSE IF c[i].word = Blank THEN upTo[i - 1] ELSE Append(upTo[i - 1], c[i].word)
    IN  upTo[Len(c)]
Longest(x) == Max({0} \cup {Bytes(SentenceOf(s)) : s \in UNION {Range(p) : p \in Range(x)}})

ChunksOf == [x \in Texts |-> [s \in Settings |-> Chunks(x, s[1], s[2])]]
TextOf == [x \in Texts |-> WordsIn(Whole(x))]

(* Where in the text chunks can end of which each is a stretch of it that begins  *)
(* no later than the one before it ends, the first with the text; and if they    *)
(* all advance, where they can if each but the first ends later as well.        *)
EndsOf(c, text) == {n \in Len(WordsIn(c))..Len(text) :
                       SubSeq(text, n - Len(WordsIn(c)) + 1, n) = WordsIn(c)}
Reached(cs, text, advance) ==
    LET upTo[i \in 0..Len(cs)] ==
          IF i = 0 THEN {0}
          ELSE {n \in EndsOf(cs[i], text) :
                   \E m \in upTo[i - 1] : /\ n - Len(WordsIn(cs[i])) <= m /\ m <= n
                                         /\ advance /\ i > 1 => m < n}
    IN  upTo[Len(cs)]

(* Every chunk is a stretch of the document that begins no later than the one  *)
(* before it ends; the first begins and the last ends with the document, and   *)
(* so no word is lost or out of order (chunker.rs: the overlap "ensures        *)
(* continuity at boundaries").                                              *)
NothingLost ==
    \A x \in Texts, s \in Settings : Len(TextOf[x]) \in Reached(ChunksOf[x][s], TextOf[x], FALSE)

(* No chunk is longer than a sentence, or the size asked for, and the overlap   *)
(* carried into it ("may be slightly larger").                              *)
ChunksBounded ==
    \A x \in Texts, s \in Settings :
       \A c \in Range(ChunksOf[x][s]) : Bytes(c) <= s[2] + 2 + Max({s[1], Longest(x)})

(* A URL or a code block is never cut, nor is any other word, if words are      *)
(* shorter than the overlap and no paragraph is a single one: the placeholder   *)
(* is then found when the regions are restored.                             *)
RegionsWhole ==
    \A x \in Texts, s \in Settings :
       (\A p \in Range(x) \ {<<>>} :
           LET words == WordsIn(ParagraphOf(p))
           IN  Len(words) > 1 /\ \A w \in Range(words) : Size[w] < s[2]) =>
       \A c \in Range(ChunksOf[x][s]) : \A k \in Range(c) :
          k.word # Blank => k.size = Size[k.word]

(* No chunk only repeats the end of the one before it, if every sentence fits   *)
(* beside the overlap: each ends later in the document.                      *)
EachBringsMore ==
    \A x \in Texts, s \in Settings : Longest(x) + 1 + s[2] <= s[1] =>
       Len(TextOf[x]) \in Reached(ChunksOf[x][s], TextOf[x], TRUE)

============================================================================
