------------------------ MODULE TagExtractionProofs ------------------------
(***************************************************************************)
(* Proofs about TagExtraction, for any agents, labels and likeness of them,  *)
(* any documents and settings, any extractions, faults and bounds.           *)
(***************************************************************************)
EXTENDS TagExtraction, FiniteSetTheorems, SequenceTheorems, TLAPS

-----------------------------------------------------------------------------
(* Induction over an interval, and what a recursive function is, as facts      *)
(* about sets                                                               *)

LEMMA Least ==
    ASSUME NEW N \in Nat, NEW T \in SUBSET (0..N), T # {}
    PROVE  \E n \in T : \A m \in T : n <= m
<1> DEFINE below == {0..n : n \in T}
<1>1. below # {} /\ below \subseteq FiniteSubsetsOf(0..N)
  <2>1. ASSUME NEW n \in T
        PROVE  0..n \in FiniteSubsetsOf(0..N)
    BY FS_Interval DEF FiniteSubsetsOf
  <2> QED
    BY <2>1
<1>2. IsWellFoundedOn(StrictSubsetOrdering(0..N), FiniteSubsetsOf(0..N))
  BY FS_StrictSubsetOrderingWellFounded
<1>3. \E x \in below : \A y \in below : <<y, x>> \notin StrictSubsetOrdering(0..N)
  <2> HIDE DEF below
  <2> QED
    BY <1>1, <1>2, WFMin
<1>4. PICK n \in T : \A y \in below : <<y, 0..n>> \notin StrictSubsetOrdering(0..N)
  BY <1>3
<1>5. ASSUME NEW m \in T, m < n
      PROVE  FALSE
  <2>1. 0..m \in below /\ m \in Nat /\ n \in Nat /\ n <= N
    OBVIOUS
  <2>2. 0..m \subseteq 0..n /\ n \in 0..n /\ n \notin 0..m /\ 0..n \subseteq 0..N
    BY <1>5, <2>1
  <2>3. <<0..m, 0..n>> \in StrictSubsetOrdering(0..N)
    BY <2>2 DEF StrictSubsetOrdering
  <2> QED
    BY <1>4, <2>1, <2>3
<1> QED
  BY <1>5

LEMMA Induction ==
    ASSUME NEW N \in Nat, NEW S, 0 \in S, \A n \in 0..(N - 1) : n \in S => n + 1 \in S
    PROVE  \A n \in 0..N : n \in S
<1> DEFINE T == {n \in 0..N : n \notin S}
<1>1. CASE T = {}
  BY <1>1
<1>2. CASE T # {}
  <2>1. PICK n \in T : \A m \in T : n <= m
    BY <1>2, Least
  <2>2. n \in Nat /\ n # 0 /\ n - 1 \in 0..(N - 1) /\ n - 1 \in 0..N
    BY <2>1
  <2>3. n - 1 \notin T
    BY <2>1, <2>2
  <2> QED
    BY <2>1, <2>2, <2>3
<1> QED
  BY <1>1, <1>2

(* A value of D computed from the one before it, N times.                     *)
Steps(N, D) == [1..N -> [D -> D]]
Follows(f, N, D, base, step) ==
    f \in [0..N -> D] /\ f[0] = base /\ \A n \in 1..N : f[n] = step[n][f[n - 1]]

LEMMA RecursionExists ==
    ASSUME NEW N \in Nat, NEW D, NEW base \in D, NEW step \in Steps(N, D)
    PROVE  \E f : Follows(f, N, D, base, step)
<1> USE DEF Steps
<1> DEFINE S == {m \in 0..N : \E f \in [0..m -> D] :
                    f[0] = base /\ \A n \in 1..m : f[n] = step[n][f[n - 1]]}
<1>1. 0 \in S
  <2> DEFINE f == [n \in 0..0 |-> base]
  <2>1. f \in [0..0 -> D] /\ f[0] = base /\ \A n \in 1..0 : f[n] = step[n][f[n - 1]]
    OBVIOUS
  <2>2. 0 \in 0..N
    OBVIOUS
  <2> HIDE DEF f
  <2> QED
    BY <2>1, <2>2
<1>2. ASSUME NEW m \in 0..(N - 1), m \in S
      PROVE  m + 1 \in S
  <2>1. PICK f \in [0..m -> D] : f[0] = base /\ \A n \in 1..m : f[n] = step[n][f[n - 1]]
    BY <1>2
  <2>2. m \in Nat /\ m + 1 \in 1..N /\ m + 1 \in 0..N /\ m \in 0..m
    OBVIOUS
  <2>3. step[m + 1][f[m]] \in D
    BY <2>1, <2>2
  <2> DEFINE g == [n \in 0..(m + 1) |-> IF n = m + 1 THEN step[m + 1][f[m]] ELSE f[n]]
  <2>4. \A n \in 0..(m + 1) : n # m + 1 => n \in 0..m
    BY <2>2
  <2>5. g \in [0..(m + 1) -> D]
    BY <2>1, <2>3, <2>4
  <2>6. g[0] = base
    BY <2>1, <2>2
  <2>7. ASSUME NEW n \in 1..(m + 1)
        PROVE  g[n] = step[n][g[n - 1]]
    <3>1. n - 1 \in 0..m /\ g[n - 1] = f[n - 1]
      BY <2>2
    <3>2. CASE n = m + 1
      <4>1. n - 1 = m /\ n \in 0..(m + 1)
        BY <2>2, <3>2
      <4>2. g[n] = step[m + 1][f[m]]
        BY <3>2, <4>1
      <4> HIDE DEF g
      <4> QED
        BY <3>1, <3>2, <4>1, <4>2
    <3>3. CASE n # m + 1
      <4>1. n \in 1..m /\ n \in 0..(m + 1)
        BY <2>2, <3>3
      <4>2. g[n] = f[n] /\ f[n] = step[n][f[n - 1]]
        BY <2>1, <3>3, <4>1
      <4> HIDE DEF g
      <4> QED
        BY <3>1, <4>2
    <3> QED
      BY <3>2, <3>3
  <2> HIDE DEF g
  <2> QED
    BY <2>2, <2>5, <2>6, <2>7
<1> HIDE DEF S
<1>3. N \in S
  <2>1. \A n \in 0..N : n \in S
    BY <1>1, <1>2, Induction
  <2> QED
    BY <2>1
<1> QED
  BY <1>3 DEF S, Follows

(* Nothing else satisfies such equations.                                     *)
LEMMA RecursionStays ==
    ASSUME NEW N \in Nat, NEW D, NEW step \in Steps(N, D), NEW f, f[0] \in D,
           \A n \in 1..N : f[n - 1] \in D => f[n] = step[n][f[n - 1]]
    PROVE  \A n \in 0..N : f[n] \in D
<1> DEFINE S == {n \in 0..N : f[n] \in D}
<1>1. 0 \in S
  OBVIOUS
<1>2. ASSUME NEW n \in 0..(N - 1), n \in S
      PROVE  n + 1 \in S
  <2>1. n + 1 \in 1..N /\ n + 1 \in 0..N /\ (n + 1) - 1 = n
    OBVIOUS
  <2>2. f[n] \in D /\ f[n + 1] = step[n + 1][f[n]]
    BY <1>2, <2>1
  <2> QED
    BY <2>1, <2>2 DEF Steps
<1> HIDE DEF S
<1>3. \A n \in 0..N : n \in S
  BY <1>1, <1>2, Induction
<1> QED
  BY <1>3 DEF S

-----------------------------------------------------------------------------
(* The pieces of a document (chunker.rs)                                    *)

(* The bytes of the first tokens.                                             *)
Sums(c) == CHOOSE f : f = [i \in 0..Len(c) |-> IF i = 0 THEN 0 ELSE f[i - 1] + c[i].size]

LEMMA SumsAre ==
    ASSUME NEW c \in Seq(Piece)
    PROVE  /\ Bytes(c) = Sums(c)[Len(c)] /\ Bytes(c) \in Nat
           /\ Sums(c)[0] = 0 /\ \A i \in 0..Len(c) : Sums(c)[i] \in Nat
           /\ \A i \in 1..Len(c) : Sums(c)[i] = Sums(c)[i - 1] + c[i].size
<1> DEFINE N == Len(c)
           Eq(f) == [i \in 0..Len(c) |-> IF i = 0 THEN 0 ELSE f[i - 1] + c[i].size]
           step == [i \in 1..N |-> [b \in Nat |-> b + c[i].size]]
           f == Sums(c)
<1>1. N \in Nat /\ \A i \in 1..N : c[i].size \in Nat
  <2>1. \A i \in 1..N : c[i] \in Piece
    BY ElementOfSeq
  <2> QED
    BY <2>1, LenProperties DEF Piece
<1>2. step \in Steps(N, Nat)
  BY <1>1 DEF Steps
<1>3. \E g : g = Eq(g)
  <2> HIDE DEF N, step
  <2>1. 0 \in Nat /\ N \in Nat
    BY <1>1
  <2>2. PICK g : Follows(g, N, Nat, 0, step)
    BY <1>2, <2>1, RecursionExists
  <2>3. \A n \in 0..N : g[n] = IF n = 0 THEN 0 ELSE g[n - 1] + c[n].size
    <3>1. ASSUME NEW n \in 1..N
          PROVE  g[n] = g[n - 1] + c[n].size
      <4>1. n - 1 \in 0..N /\ g[n - 1] \in Nat
        BY <1>1, <2>2 DEF Follows
      <4> QED
        BY <2>2, <4>1 DEF step, Follows
    <3> QED
      BY <1>1, <2>2, <3>1 DEF Follows
  <2>4. g = Eq(g)
    BY <2>2, <2>3 DEF N, Follows
  <2> HIDE DEF Eq
  <2> QED
    BY <2>4
<1>4. f = CHOOSE g : g = Eq(g)
  BY DEF Sums
<1>5. f = Eq(f)
  <2> HIDE DEF Eq
  <2> QED
    BY <1>3, <1>4
<1> HIDE DEF f
<1>6. f[0] = 0 /\ \A n \in 1..N : f[n] = f[n - 1] + c[n].size
  <2>1. \A n \in 0..N : f[n] = IF n = 0 THEN 0 ELSE f[n - 1] + c[n].size
    BY <1>5
  <2> QED
    BY <1>1, <2>1
<1>7. \A n \in 0..N : f[n] \in Nat
  <2>1. \A n \in 1..N : f[n - 1] \in Nat => f[n] = step[n][f[n - 1]]
    BY <1>6
  <2> HIDE DEF N, step
  <2>2. f[0] \in Nat
    BY <1>6
  <2> QED
    BY <1>1, <1>2, <2>1, <2>2, RecursionStays
<1>8. Bytes(c) = f[N]
  BY DEF Bytes, Sums, f
<1>9. N \in 0..N
  BY <1>1
<1> QED
  BY <1>6, <1>7, <1>8, <1>9 DEF f

(* The bytes before a token.                                                  *)
LEMMA BeforeIs ==
    ASSUME NEW c \in Seq(Piece), NEW k \in 0..Len(c)
    PROVE  Bytes(SubSeq(c, 1, k)) = Sums(c)[k]
<1> DEFINE d == SubSeq(c, 1, k)
           S == {n \in 0..k : Sums(d)[n] = Sums(c)[n]}
<1>1. Len(c) \in Nat /\ k \in Nat /\ k <= Len(c)
  BY LenProperties
<1>2. d \in Seq(Piece) /\ Len(d) = k /\ \A i \in 1..k : d[i] = c[i]
  <2>1. \A i \in 1..k : c[i] \in Piece
    BY <1>1, ElementOfSeq
  <2>2. /\ d \in Seq(Piece) /\ Len(d) = (IF 1 <= k THEN k - 1 + 1 ELSE 0)
        /\ \A i \in 1..(k - 1 + 1) : d[i] = c[1 + i - 1]
    BY <1>1, <2>1, SubSeqProperties
  <2> QED
    BY <1>1, <2>2
<1> HIDE DEF d
<1>3. 0 \in S
  BY <1>1, <1>2, SumsAre
<1>4. ASSUME NEW n \in 0..(k - 1), n \in S
      PROVE  n + 1 \in S
  <2>1. n + 1 \in 1..k /\ n + 1 \in 1..Len(c) /\ n + 1 \in 0..k /\ (n + 1) - 1 = n
    BY <1>1
  <2>2. Sums(d)[n + 1] = Sums(d)[n] + d[n + 1].size
    BY <1>2, <2>1, SumsAre
  <2>3. Sums(c)[n + 1] = Sums(c)[n] + c[n + 1].size
    BY <2>1, SumsAre
  <2>4. d[n + 1] = c[n + 1]
    BY <1>2, <2>1
  <2> QED
    BY <1>4, <2>1, <2>2, <2>3, <2>4
<1> HIDE DEF S
<1>5. k \in S
  <2>1. \A n \in 0..k : n \in S
    BY <1>1, <1>3, <1>4, Induction
  <2> QED
    BY <1>1, <2>1
<1> QED
  BY <1>2, <1>5, SumsAre DEF S, d

LEMMA MinIs ==
    ASSUME NEW N \in Nat, NEW T \in SUBSET (0..N), T # {}
    PROVE  Min(T) \in T /\ \A m \in T : Min(T) <= m
BY Least DEF Min

(* What of a chunk the next begins with.                                       *)
LEMMA CarriedIs ==
    ASSUME NEW c \in Seq(Piece), NEW overlap \in Nat
    PROVE  Carried(c, overlap) \in Seq(Piece)
<1> DEFINE N == Len(c)
           start == IF Bytes(c) <= overlap THEN 0 ELSE Bytes(c) - overlap
           spaces == {i \in DOMAIN c : c[i] = Space /\ Before(c, i) >= start}
           over == {i \in DOMAIN c : Before(c, i) + c[i].size > start} \cup {Len(c) + 1}
           i == Min(over)
           part == [c[i] EXCEPT !.size = Before(c, i + 1) - start]
<1>1. N \in Nat /\ DOMAIN c = 1..N /\ \A n \in 1..N : c[n] \in Piece
  BY LenProperties, ElementOfSeq
<1>2. start \in Nat
  BY SumsAre
<1>3. \A n \in Nat : n >= 1 => SubSeq(c, n, N) \in Seq(Piece)
  <2>1. ASSUME NEW n \in Nat, n >= 1
        PROVE  SubSeq(c, n, N) \in Seq(Piece)
    <3>1. \A m \in n..N : c[m] \in Piece
      BY <1>1, <2>1
    <3> HIDE DEF N
    <3> QED
      BY <1>1, <3>1, SubSeqProperties
  <2> QED
    BY <2>1
<1>4. ASSUME spaces # {}
      PROVE  SubSeq(c, Min(spaces) + 1, N) \in Seq(Piece)
  <2>1. spaces \in SUBSET (0..N)
    BY <1>1
  <2>2. Min(spaces) \in 0..N
    BY <1>1, <1>4, <2>1, MinIs
  <2>3. Min(spaces) + 1 \in Nat /\ Min(spaces) + 1 >= 1
    BY <1>1, <2>2
  <2> QED
    BY <1>3, <2>3
<1>5. i \in over /\ i \in 1..(N + 1)
  <2>1. over \in SUBSET (0..(N + 1)) /\ over # {} /\ over \subseteq 1..(N + 1) /\ N + 1 \in Nat
    BY <1>1
  <2> HIDE DEF over
  <2>2. i \in over
    BY <2>1, MinIs
  <2> QED
    BY <2>1, <2>2
<1>6. ASSUME ~(i > N)
      PROVE  <<part>> \o SubSeq(c, i + 1, N) \in Seq(Piece)
  <2>1. i \in 1..N /\ i - 1 \in 0..N /\ i \in 0..N /\ i + 1 \in Nat /\ i + 1 >= 1 /\ (i + 1) - 1 = i
    BY <1>1, <1>5, <1>6
  <2>2. Before(c, i) + c[i].size > start
    BY <1>1, <1>5, <2>1
  <2> HIDE DEF i
  <2>3. Before(c, i) = Sums(c)[i - 1]
    BY <2>1, BeforeIs DEF Before
  <2>4. Before(c, i + 1) = Sums(c)[i]
    BY <2>1, BeforeIs DEF Before
  <2>5. Sums(c)[i] = Sums(c)[i - 1] + c[i].size /\ Sums(c)[i] \in Nat
    BY <2>1, SumsAre
  <2>6. Before(c, i + 1) - start \in Nat
    BY <1>2, <2>2, <2>3, <2>4, <2>5
  <2>7. c[i] \in Piece
    BY <1>1, <2>1
  <2>8. part \in Piece
    BY <2>6, <2>7 DEF Piece
  <2> HIDE DEF part
  <2>9. SubSeq(c, i + 1, N) \in Seq(Piece)
    BY <1>3, <2>1
  <2>10. <<part>> \in Seq(Piece)
    BY <2>8
  <2> QED
    BY <2>9, <2>10, ConcatProperties
<1>7. Carried(c, overlap) = IF spaces # {} THEN SubSeq(c, Min(spaces) + 1, N)
                            ELSE IF i > N THEN <<>> ELSE <<part>> \o SubSeq(c, i + 1, N)
  BY DEF Carried
<1>8. <<>> \in Seq(Piece)
  BY EmptySeq
<1> HIDE DEF spaces, i, part, N
<1> QED
  BY <1>4, <1>6, <1>7, <1>8

Sentence == Seq(Words) \ {<<>>}

LEMMA GapsAre == Space \in Piece /\ Break \in Piece
BY DEF Space, Break, Gap, Piece

LEMMA JoinIs ==
    ASSUME NEW c \in Seq(Piece), NEW d \in Seq(Piece), NEW gap \in Piece
    PROVE  Join(c, gap, d) \in Seq(Piece)
<1>1. <<gap>> \in Seq(Piece)
  OBVIOUS
<1>2. c \o <<gap>> \in Seq(Piece)
  BY <1>1, ConcatProperties
<1>3. c \o <<gap>> \o d \in Seq(Piece)
  BY <1>2, ConcatProperties
<1> QED
  BY <1>3 DEF Join

LEMMA SentenceIs ==
    ASSUME NEW s \in Sentence
    PROVE  SentenceOf(s) \in Seq(Piece)
<1> DEFINE N == Len(s)
           M == 2 * N - 1
           l == [i \in 1..M |-> IF i % 2 = 0 THEN Space
                                ELSE [Token(s[(i + 1) \div 2]) EXCEPT !.stop = (i = M)]]
<1>1. s \in Seq(Words) /\ N \in Nat /\ \A n \in 1..N : s[n] \in Words
  BY LenProperties, ElementOfSeq DEF Sentence
<1>2. N > 0
  BY <1>1, EmptySeq DEF Sentence
<1>3. M \in Nat
  BY <1>1, <1>2
<1>4. ASSUME NEW i \in 1..M, i % 2 # 0
      PROVE  (i + 1) \div 2 \in 1..N
  BY <1>1, <1>2
<1>5. ASSUME NEW w \in Words, NEW stop \in BOOLEAN
      PROVE  [Token(w) EXCEPT !.stop = stop] \in Piece
  BY ChunkingAssumption DEF Token, Piece
<1>6. ASSUME NEW i \in 1..M
      PROVE  l[i] \in Piece
  <2>1. CASE i % 2 = 0
    BY <2>1, GapsAre
  <2>2. CASE i % 2 # 0
    <3>1. s[(i + 1) \div 2] \in Words
      BY <1>1, <1>4, <2>2
    <3>2. (i = M) \in BOOLEAN
      OBVIOUS
    <3>3. l[i] = [Token(s[(i + 1) \div 2]) EXCEPT !.stop = (i = M)]
      BY <2>2
    <3> HIDE DEF l, M
    <3> QED
      BY <1>5, <3>1, <3>2, <3>3
  <2> QED
    BY <2>1, <2>2
<1>7. l \in [1..M -> Piece]
  <2>1. l = [i \in 1..M |-> l[i]]
    OBVIOUS
  <2> HIDE DEF l, M
  <2> QED
    BY <1>6, <2>1
<1>8. SentenceOf(s) = l
  BY DEF SentenceOf
<1> HIDE DEF l, M
<1> QED
  BY <1>3, <1>7, <1>8, SeqDef

(* A paragraph is a sequence of pieces.                                        *)
Joins(p) == CHOOSE f : f = [i \in 0..Len(p) |->
    IF i = 0 THEN <<>> ELSE Join(f[i - 1], Space, SentenceOf(p[i]))]

LEMMA JoinsAre ==
    ASSUME NEW p \in Seq(Sentence)
    PROVE  /\ ParagraphOf(p) = Joins(p)[Len(p)] /\ Joins(p)[0] = <<>>
           /\ \A i \in 0..Len(p) : Joins(p)[i] \in Seq(Piece)
           /\ \A i \in 1..Len(p) : Joins(p)[i] = Join(Joins(p)[i - 1], Space, SentenceOf(p[i]))
<1> DEFINE N == Len(p)
           D == Seq(Piece)
           Eq(f) == [i \in 0..Len(p) |->
               IF i = 0 THEN <<>> ELSE Join(f[i - 1], Space, SentenceOf(p[i]))]
           step == [i \in 1..N |-> [c \in D |-> Join(c, Space, SentenceOf(p[i]))]]
           f == Joins(p)
<1>1. N \in Nat /\ N \in 0..N /\ \A i \in 1..N : p[i] \in Sentence
  BY LenProperties, ElementOfSeq
<1>2. step \in Steps(N, D)
  <2>1. ASSUME NEW i \in 1..N, NEW c \in D
        PROVE  Join(c, Space, SentenceOf(p[i])) \in D
    BY <1>1, SentenceIs, JoinIs, GapsAre
  <2> HIDE DEF D
  <2> QED
    BY <2>1 DEF Steps
<1>3. <<>> \in D
  BY EmptySeq
<1>4. \E g : g = Eq(g)
  <2> HIDE DEF N, step, D
  <2>1. PICK g : Follows(g, N, D, <<>>, step)
    BY <1>1, <1>2, <1>3, RecursionExists
  <2>2. \A n \in 0..N : g[n] = IF n = 0 THEN <<>> ELSE Join(g[n - 1], Space, SentenceOf(p[n]))
    <3>1. ASSUME NEW n \in 1..N
          PROVE  g[n] = Join(g[n - 1], Space, SentenceOf(p[n]))
      <4>1. n - 1 \in 0..N /\ g[n - 1] \in D
        BY <1>1, <2>1 DEF Follows
      <4> QED
        BY <2>1, <4>1 DEF step, Follows
    <3> QED
      BY <1>1, <2>1, <3>1 DEF Follows
  <2>3. g = Eq(g)
    BY <2>1, <2>2 DEF N, Follows
  <2> HIDE DEF Eq
  <2> QED
    BY <2>3
<1>5. f = CHOOSE g : g = Eq(g)
  BY DEF Joins
<1>6. f = Eq(f)
  <2> HIDE DEF Eq
  <2> QED
    BY <1>4, <1>5
<1> HIDE DEF f, D
<1>7. f[0] = <<>> /\ \A n \in 1..N : f[n] = Join(f[n - 1], Space, SentenceOf(p[n]))
  <2>1. \A n \in 0..N : f[n] = IF n = 0 THEN <<>> ELSE Join(f[n - 1], Space, SentenceOf(p[n]))
    BY <1>6
  <2> QED
    BY <1>1, <2>1
<1>8. \A n \in 1..N : f[n - 1] \in D => f[n] = step[n][f[n - 1]]
  BY <1>7
<1> HIDE DEF step, N
<1>9. f[0] \in D
  BY <1>3, <1>7
<1>10. \A n \in 0..N : f[n] \in D
  BY <1>1, <1>2, <1>8, <1>9, RecursionStays
<1>11. ParagraphOf(p) = f[N]
  BY DEF ParagraphOf, Joins, f, N
<1> QED
  BY <1>7, <1>10, <1>11 DEF D, f, N

LEMMA ParagraphIs ==
    ASSUME NEW p \in Seq(Sentence)
    PROVE  ParagraphOf(p) \in Seq(Piece)
<1>1. Len(p) \in 0..Len(p)
  BY LenProperties
<1> QED
  BY <1>1, JoinsAre

LEMMA FlushedIs ==
    ASSUME NEW st \in State, NEW overlap \in Nat
    PROVE  Flushed(st, overlap) \in State
<1>1. st.chunks \in Seq(Seq(Piece)) /\ st.cur \in Seq(Piece)
  BY DEF State
<1>2. Append(st.chunks, st.cur) \in Seq(Seq(Piece))
  BY <1>1, AppendProperties
<1>3. Carried(st.cur, overlap) \in Seq(Piece)
  BY <1>1, CarriedIs
<1> QED
  BY <1>2, <1>3 DEF Flushed, State

LEMMA CurIs ==
    ASSUME NEW st \in State, NEW cur \in Seq(Piece)
    PROVE  st.cur \in Seq(Piece) /\ [st EXCEPT !.cur = cur] \in State
<1> DEFINE D == Seq(Piece)
           E == Seq(Seq(Piece))
<1>1. State = [chunks : E, cur : D] /\ cur \in D
  BY DEF State
<1> HIDE DEF D, E
<1>2. st.cur \in D /\ [st EXCEPT !.cur = cur] \in State
  BY <1>1
<1> QED
  BY <1>2 DEF D

LEMMA AddSentenceIs ==
    ASSUME NEW s \in Seq(Piece), NEW target \in Nat, NEW overlap \in Nat
    PROVE  AddSentence(s, target, overlap) \in [State -> State]
<1> DEFINE into(st) == IF Fits(st, s, 1, target) THEN st ELSE Flushed(st, overlap)
           to(st) == [into(st) EXCEPT !.cur = Join(@, Space, s)]
<1>1. ASSUME NEW st \in State
      PROVE  to(st) \in State
  <2>1. into(st) \in State
    BY FlushedIs
  <2> DEFINE v == into(st)
  <2> HIDE DEF into
  <2>2. v.cur \in Seq(Piece)
    BY <2>1, CurIs
  <2>3. Join(v.cur, Space, s) \in Seq(Piece)
    BY <2>2, JoinIs, GapsAre
  <2>4. [v EXCEPT !.cur = Join(v.cur, Space, s)] \in State
    BY <2>1, <2>3, CurIs
  <2> QED
    BY <2>4
<1>2. AddSentence(s, target, overlap) = [st \in State |-> to(st)]
  BY DEF AddSentence
<1> HIDE DEF to
<1> QED
  BY <1>1, <1>2

(* The sentences of a paragraph that is too long are added one by one.          *)
BySentence(into, p, target, overlap) == CHOOSE f : f = [i \in 0..Len(p) |->
    IF i = 0 THEN into ELSE AddSentence(SentenceOf(p[i]), target, overlap)[f[i - 1]]]

LEMMA BySentenceIs ==
    ASSUME NEW into \in State, NEW p \in Seq(Sentence), NEW target \in Nat, NEW overlap \in Nat
    PROVE  /\ BySentence(into, p, target, overlap)[0] = into
           /\ \A i \in 0..Len(p) : BySentence(into, p, target, overlap)[i] \in State
           /\ \A i \in 1..Len(p) : BySentence(into, p, target, overlap)[i] =
                 AddSentence(SentenceOf(p[i]), target, overlap)[BySentence(into, p, target, overlap)[i - 1]]
<1> DEFINE N == Len(p)
           Eq(f) == [i \in 0..Len(p) |->
               IF i = 0 THEN into ELSE AddSentence(SentenceOf(p[i]), target, overlap)[f[i - 1]]]
           step == [i \in 1..N |-> AddSentence(SentenceOf(p[i]), target, overlap)]
           f == BySentence(into, p, target, overlap)
<1>1. N \in Nat /\ N \in 0..N /\ \A i \in 1..N : p[i] \in Sentence
  BY LenProperties, ElementOfSeq
<1>2. step \in Steps(N, State)
  <2>1. ASSUME NEW i \in 1..N
        PROVE  AddSentence(SentenceOf(p[i]), target, overlap) \in [State -> State]
    BY <1>1, SentenceIs, AddSentenceIs
  <2> QED
    BY <2>1 DEF Steps
<1>3. \E g : g = Eq(g)
  <2> HIDE DEF N, step
  <2>1. PICK g : Follows(g, N, State, into, step)
    BY <1>1, <1>2, RecursionExists
  <2>2. \A n \in 0..N : g[n] = IF n = 0 THEN into
                               ELSE AddSentence(SentenceOf(p[n]), target, overlap)[g[n - 1]]
    BY <1>1, <2>1 DEF Follows, step
  <2>3. g = Eq(g)
    BY <2>1, <2>2 DEF N, Follows
  <2> HIDE DEF Eq
  <2> QED
    BY <2>3
<1>4. f = CHOOSE g : g = Eq(g)
  BY DEF BySentence
<1>5. f = Eq(f)
  <2> HIDE DEF Eq
  <2> QED
    BY <1>3, <1>4
<1> HIDE DEF f
<1>6. f[0] = into /\ \A n \in 1..N : f[n] = step[n][f[n - 1]]
  <2>1. \A n \in 0..N : f[n] = IF n = 0 THEN into
                               ELSE AddSentence(SentenceOf(p[n]), target, overlap)[f[n - 1]]
    BY <1>5
  <2> QED
    BY <1>1, <2>1
<1>7. \A n \in 1..N : step[n] = AddSentence(SentenceOf(p[n]), target, overlap)
  OBVIOUS
<1> HIDE DEF step, N
<1>8. \A n \in 0..N : f[n] \in State
  BY <1>1, <1>2, <1>6, RecursionStays
<1> QED
  BY <1>6, <1>7, <1>8 DEF f, N

LEMMA AddParagraphIs ==
    ASSUME NEW p \in Seq(Sentence), NEW target \in Nat, NEW overlap \in Nat
    PROVE  AddParagraph(p, target, overlap) \in [State -> State]
<1> DEFINE text == ParagraphOf(p)
           into(st) == IF Fits(st, text, 2, target) THEN st ELSE Flushed(st, overlap)
           whole(st) == [into(st) EXCEPT !.cur = Join(@, Break, text)]
           to(st) == IF Bytes(text) <= target THEN whole(st)
                     ELSE BySentence(into(st), p, target, overlap)[Len(p)]
<1>1. text \in Seq(Piece)
  BY ParagraphIs
<1>2. ASSUME NEW st \in State
      PROVE  to(st) \in State
  <2>1. into(st) \in State
    BY FlushedIs
  <2> DEFINE v == into(st)
  <2> HIDE DEF into, text
  <2>2. v.cur \in Seq(Piece)
    BY <1>1, <2>1, CurIs
  <2>3. Join(v.cur, Break, text) \in Seq(Piece)
    BY <1>1, <2>2, JoinIs, GapsAre
  <2>4. [v EXCEPT !.cur = Join(v.cur, Break, text)] \in State
    BY <2>1, <2>3, CurIs
  <2>5. BySentence(v, p, target, overlap)[Len(p)] \in State
    <3>1. Len(p) \in 0..Len(p)
      BY LenProperties
    <3> QED
      BY <2>1, <3>1, BySentenceIs
  <2> QED
    BY <2>4, <2>5
<1>3. AddParagraph(p, target, overlap) = [st \in State |-> to(st)]
  BY DEF AddParagraph, BySentence
<1> HIDE DEF to
<1> QED
  BY <1>2, <1>3

(* The paragraphs of a document are added one by one.                          *)
ByParagraph(x, target, overlap) == CHOOSE f : f = [i \in 0..Len(x) |->
    IF i = 0 THEN [chunks |-> <<>>, cur |-> <<>>]
    ELSE IF x[i] = <<>> THEN f[i - 1]
    ELSE AddParagraph(x[i], target, overlap)[f[i - 1]]]

LEMMA ByParagraphIs ==
    ASSUME NEW x \in Seq(Seq(Sentence)), NEW target \in Nat, NEW overlap \in Nat
    PROVE  /\ ByParagraph(x, target, overlap)[0] = [chunks |-> <<>>, cur |-> <<>>]
           /\ \A i \in 0..Len(x) : ByParagraph(x, target, overlap)[i] \in State
           /\ \A i \in 1..Len(x) : ByParagraph(x, target, overlap)[i] =
                 IF x[i] = <<>> THEN ByParagraph(x, target, overlap)[i - 1]
                 ELSE AddParagraph(x[i], target, overlap)[ByParagraph(x, target, overlap)[i - 1]]
<1> DEFINE N == Len(x)
           base == [chunks |-> <<>>, cur |-> <<>>]
           Eq(f) == [i \in 0..Len(x) |->
               IF i = 0 THEN base ELSE IF x[i] = <<>> THEN f[i - 1]
               ELSE AddParagraph(x[i], target, overlap)[f[i - 1]]]
           step == [i \in 1..N |-> IF x[i] = <<>> THEN [st \in State |-> st]
                                   ELSE AddParagraph(x[i], target, overlap)]
           f == ByParagraph(x, target, overlap)
<1>1. N \in Nat /\ N \in 0..N /\ \A i \in 1..N : x[i] \in Seq(Sentence)
  BY LenProperties, ElementOfSeq
<1>2. step \in Steps(N, State)
  <2>1. ASSUME NEW i \in 1..N
        PROVE  AddParagraph(x[i], target, overlap) \in [State -> State]
    BY <1>1, AddParagraphIs
  <2>2. [st \in State |-> st] \in [State -> State]
    OBVIOUS
  <2>3. ASSUME NEW i \in 1..N
        PROVE  step[i] \in [State -> State]
    BY <2>1, <2>2
  <2>4. step = [i \in 1..N |-> step[i]]
    OBVIOUS
  <2> HIDE DEF step
  <2> QED
    BY <2>3, <2>4 DEF Steps
<1>3. base \in State
  <2> DEFINE D == Seq(Piece)
             E == Seq(Seq(Piece))
  <2>1. <<>> \in E /\ <<>> \in D
    BY EmptySeq
  <2> HIDE DEF D, E
  <2>2. base \in [chunks : E, cur : D]
    BY <2>1
  <2> QED
    BY <2>2 DEF D, E, State
<1> HIDE DEF base
<1>4. \E g : g = Eq(g)
  <2> HIDE DEF N, step
  <2>1. PICK g : Follows(g, N, State, base, step)
    BY <1>1, <1>2, <1>3, RecursionExists
  <2>2. ASSUME NEW n \in 0..N
        PROVE  g[n] = IF n = 0 THEN base ELSE IF x[n] = <<>> THEN g[n - 1]
                      ELSE AddParagraph(x[n], target, overlap)[g[n - 1]]
    <3>1. n = 0 => g[n] = base
      BY <2>1 DEF Follows
    <3>2. ASSUME n # 0
          PROVE  g[n] = IF x[n] = <<>> THEN g[n - 1]
                        ELSE AddParagraph(x[n], target, overlap)[g[n - 1]]
      <4>1. n \in 1..N /\ n - 1 \in 0..N
        BY <1>1, <3>2
      <4>2. g[n - 1] \in State /\ g[n] = step[n][g[n - 1]]
        BY <2>1, <4>1 DEF Follows
      <4>3. step[n] = IF x[n] = <<>> THEN [st \in State |-> st]
                      ELSE AddParagraph(x[n], target, overlap)
        BY <4>1 DEF step
      <4>4. CASE x[n] = <<>>
        <5>1. step[n] = [st \in State |-> st]
          BY <4>3, <4>4
        <5> QED
          BY <4>2, <4>4, <5>1
      <4>5. CASE x[n] # <<>>
        <5>1. step[n] = AddParagraph(x[n], target, overlap)
          BY <4>3, <4>5
        <5> QED
          BY <4>2, <4>5, <5>1
      <4> QED
        BY <4>4, <4>5
    <3> QED
      BY <3>1, <3>2
  <2>3. g = Eq(g)
    BY <2>1, <2>2 DEF N, Follows
  <2> HIDE DEF Eq
  <2> QED
    BY <2>3
<1>5. f = CHOOSE g : g = Eq(g)
  BY DEF ByParagraph, base
<1>6. f = Eq(f)
  <2> HIDE DEF Eq
  <2> QED
    BY <1>4, <1>5
<1> HIDE DEF f
<1>7. f[0] = base
  BY <1>1, <1>6
<1>8. ASSUME NEW n \in 1..N, f[n - 1] \in State
      PROVE  f[n] = step[n][f[n - 1]]
  <2>1. f[n] = IF x[n] = <<>> THEN f[n - 1] ELSE AddParagraph(x[n], target, overlap)[f[n - 1]]
    <3>1. n \in 0..Len(x) /\ n # 0
      BY <1>1
    <3>2. Eq(f)[n] = IF x[n] = <<>> THEN f[n - 1] ELSE AddParagraph(x[n], target, overlap)[f[n - 1]]
      BY <3>1
    <3> HIDE DEF Eq
    <3> QED
      BY <1>6, <3>2
  <2> DEFINE v == f[n - 1]
  <2>2. v \in State /\ f[n] = IF x[n] = <<>> THEN v ELSE AddParagraph(x[n], target, overlap)[v]
    BY <1>8, <2>1
  <2> HIDE DEF v
  <2>3. f[n] = step[n][v]
    <3>1. CASE x[n] = <<>>
      <4>1. step[n] = [st \in State |-> st]
        BY <3>1
      <4> HIDE DEF step
      <4> QED
        BY <2>2, <3>1, <4>1
    <3>2. CASE x[n] # <<>>
      <4>1. step[n] = AddParagraph(x[n], target, overlap)
        BY <3>2
      <4> HIDE DEF step
      <4> QED
        BY <2>2, <3>2, <4>1
    <3> QED
      BY <3>1, <3>2
  <2> QED
    BY <2>3 DEF v
<1>9. \A n \in 1..N : f[n - 1] \in State =>
         f[n] = IF x[n] = <<>> THEN f[n - 1] ELSE AddParagraph(x[n], target, overlap)[f[n - 1]]
  <2>1. ASSUME NEW n \in 1..N
        PROVE  f[n] = IF x[n] = <<>> THEN f[n - 1] ELSE AddParagraph(x[n], target, overlap)[f[n - 1]]
    <3>1. n \in 0..Len(x) /\ n # 0
      BY <1>1
    <3>2. Eq(f)[n] = IF x[n] = <<>> THEN f[n - 1] ELSE AddParagraph(x[n], target, overlap)[f[n - 1]]
      BY <3>1
    <3> HIDE DEF Eq
    <3> QED
      BY <1>6, <3>2
  <2> QED
    BY <2>1
<1> HIDE DEF step, N
<1>10. \A n \in 0..N : f[n] \in State
  BY <1>1, <1>2, <1>3, <1>7, <1>8, RecursionStays
<1>11. \A n \in 1..N : n - 1 \in 0..N
  BY <1>1
<1> QED
  BY <1>7, <1>9, <1>10, <1>11 DEF f, N, base

-----------------------------------------------------------------------------
(* Bytes and words of pieces put together                                    *)

(* The words of the first tokens.                                             *)
Reads(c) == CHOOSE f : f = [i \in 0..Len(c) |->
    IF i = 0 THEN <<>> ELSE IF c[i].word = Blank THEN f[i - 1] ELSE Append(f[i - 1], c[i].word)]

Read(words, k) == IF k.word = Blank THEN words ELSE Append(words, k.word)

LEMMA ReadIs ==
    ASSUME NEW words \in Seq(Words), NEW k \in Piece
    PROVE  Read(words, k) \in Seq(Words)
<1>1. k.word \in Words \cup {Blank}
  BY DEF Piece
<1>2. CASE k.word = Blank
  BY <1>2 DEF Read
<1>3. CASE k.word # Blank
  BY <1>1, <1>3, AppendProperties DEF Read
<1> QED
  BY <1>2, <1>3

LEMMA ReadsAre ==
    ASSUME NEW c \in Seq(Piece)
    PROVE  /\ WordsIn(c) = Reads(c)[Len(c)] /\ Reads(c)[0] = <<>>
           /\ \A i \in 0..Len(c) : Reads(c)[i] \in Seq(Words)
           /\ \A i \in 1..Len(c) : Reads(c)[i] = Read(Reads(c)[i - 1], c[i])
<1> DEFINE N == Len(c)
           D == Seq(Words)
           Eq(f) == [i \in 0..Len(c) |->
               IF i = 0 THEN <<>> ELSE IF c[i].word = Blank THEN f[i - 1] ELSE Append(f[i - 1], c[i].word)]
           step == [i \in 1..N |-> [w \in D |-> Read(w, c[i])]]
           f == Reads(c)
<1>1. N \in Nat /\ \A i \in 1..N : c[i] \in Piece
  BY LenProperties, ElementOfSeq
<1>2. step \in Steps(N, D)
  <2>1. ASSUME NEW i \in 1..N, NEW w \in D
        PROVE  Read(w, c[i]) \in D
    BY <1>1, ReadIs
  <2> HIDE DEF D
  <2> QED
    BY <2>1 DEF Steps
<1>3. <<>> \in D
  BY EmptySeq
<1>4. \E g : g = Eq(g)
  <2> HIDE DEF N, step, D
  <2>1. PICK g : Follows(g, N, D, <<>>, step)
    BY <1>1, <1>2, <1>3, RecursionExists
  <2>2. \A n \in 0..N : g[n] = IF n = 0 THEN <<>> ELSE Read(g[n - 1], c[n])
    <3>1. ASSUME NEW n \in 1..N
          PROVE  g[n] = Read(g[n - 1], c[n])
      <4>1. n - 1 \in 0..N /\ g[n - 1] \in D
        BY <1>1, <2>1 DEF Follows
      <4> QED
        BY <2>1, <4>1 DEF step, Follows
    <3> QED
      BY <1>1, <2>1, <3>1 DEF Follows
  <2>3. g = Eq(g)
    BY <2>1, <2>2 DEF N, Follows, Read
  <2> HIDE DEF Eq
  <2> QED
    BY <2>3
<1>5. f = CHOOSE g : g = Eq(g)
  BY DEF Reads
<1>6. f = Eq(f)
  <2> HIDE DEF Eq
  <2> QED
    BY <1>4, <1>5
<1> HIDE DEF f, D
<1>7. f[0] = <<>> /\ \A n \in 1..N : f[n] = Read(f[n - 1], c[n])
  <2>1. \A n \in 0..N : f[n] = IF n = 0 THEN <<>> ELSE Read(f[n - 1], c[n])
    BY <1>6 DEF Read
  <2> QED
    BY <1>1, <2>1
<1>8. \A n \in 1..N : f[n - 1] \in D => f[n] = step[n][f[n - 1]]
  BY <1>7
<1> HIDE DEF step, N
<1>9. f[0] \in D
  BY <1>3, <1>7
<1>10. \A n \in 0..N : f[n] \in D
  BY <1>1, <1>2, <1>8, <1>9, RecursionStays
<1>11. WordsIn(c) = f[N]
  BY DEF WordsIn, Reads, f, N
<1> QED
  BY <1>7, <1>10, <1>11 DEF f, N, D

LEMMA WordsAre ==
    ASSUME NEW c \in Seq(Piece)
    PROVE  WordsIn(c) \in Seq(Words)
<1>1. Len(c) \in 0..Len(c)
  BY LenProperties
<1> QED
  BY <1>1, ReadsAre

(* One token more.                                                           *)
LEMMA OneMore ==
    ASSUME NEW c \in Seq(Piece), NEW k \in Piece
    PROVE  /\ Bytes(Append(c, k)) = Bytes(c) + k.size
           /\ WordsIn(Append(c, k)) = Read(WordsIn(c), k)
<1> DEFINE d == Append(c, k)
           N == Len(c)
           S == {n \in 0..N : Sums(d)[n] = Sums(c)[n] /\ Reads(d)[n] = Reads(c)[n]}
<1>1. d \in Seq(Piece) /\ Len(d) = N + 1 /\ (\A i \in 1..N : d[i] = c[i]) /\ d[N + 1] = k
  BY AppendProperties
<1>2. N \in Nat
  BY LenProperties
<1> HIDE DEF d
<1>3. 0 \in S
  BY <1>1, <1>2, SumsAre, ReadsAre
<1>4. ASSUME NEW n \in 0..(N - 1), n \in S
      PROVE  n + 1 \in S
  <2>1. n + 1 \in 1..N /\ n + 1 \in 1..Len(d) /\ n + 1 \in 0..N /\ (n + 1) - 1 = n /\ d[n + 1] = c[n + 1]
    BY <1>1, <1>2
  <2>2. Sums(d)[n + 1] = Sums(d)[n] + d[n + 1].size /\ Reads(d)[n + 1] = Read(Reads(d)[n], d[n + 1])
    BY <1>1, <2>1, SumsAre, ReadsAre
  <2>3. Sums(c)[n + 1] = Sums(c)[n] + c[n + 1].size /\ Reads(c)[n + 1] = Read(Reads(c)[n], c[n + 1])
    BY <2>1, SumsAre, ReadsAre
  <2> QED
    BY <1>4, <2>1, <2>2, <2>3
<1> HIDE DEF S
<1>5. N \in S
  <2>1. \A n \in 0..N : n \in S
    BY <1>2, <1>3, <1>4, Induction
  <2> QED
    BY <1>2, <2>1
<1>6. N + 1 \in 1..Len(d) /\ (N + 1) - 1 = N
  BY <1>1, <1>2
<1>7. Bytes(d) = Sums(d)[N] + d[N + 1].size /\ WordsIn(d) = Read(Reads(d)[N], d[N + 1])
  <2>1. Bytes(d) = Sums(d)[N + 1] /\ WordsIn(d) = Reads(d)[N + 1]
    BY <1>1, SumsAre, ReadsAre
  <2>2. Sums(d)[N + 1] = Sums(d)[(N + 1) - 1] + d[N + 1].size
    BY <1>1, <1>6, SumsAre
  <2>3. Reads(d)[N + 1] = Read(Reads(d)[(N + 1) - 1], d[N + 1])
    BY <1>1, <1>6, ReadsAre
  <2> QED
    BY <1>6, <2>1, <2>2, <2>3
<1> QED
  BY <1>1, <1>5, <1>7, SumsAre, ReadsAre DEF S, d

LEMMA NothingIs == Bytes(<<>>) = 0 /\ WordsIn(<<>>) = <<>> /\ <<>> \in Seq(Piece) /\ Len(<<>>) = 0
<1>1. <<>> \in Seq(Piece) /\ Len(<<>>) = 0
  BY EmptySeq
<1> QED
  BY <1>1, SumsAre, ReadsAre

LEMMA OneIs ==
    ASSUME NEW k \in Piece
    PROVE  /\ <<k>> \in Seq(Piece) /\ Len(<<k>>) = 1 /\ Bytes(<<k>>) = k.size
           /\ WordsIn(<<k>>) = IF k.word = Blank THEN <<>> ELSE <<k.word>>
<1>1. <<k>> = Append(<<>>, k) /\ k.size \in Nat
  BY DEF Piece
<1>2. Append(<<>>, k.word) = <<k.word>>
  OBVIOUS
<1>3. <<k>> \in Seq(Piece) /\ Len(<<k>>) = 1
  OBVIOUS
<1>4. Bytes(<<k>>) = 0 + k.size /\ WordsIn(<<k>>) = Read(<<>>, k)
  BY <1>1, NothingIs, OneMore
<1> QED
  BY <1>1, <1>2, <1>3, <1>4 DEF Read

LEMMA AppendJoined ==
    ASSUME NEW T, NEW s \in Seq(T), NEW t \in Seq(T), NEW k \in T
    PROVE  s \o Append(t, k) = Append(s \o t, k)
<1>1. <<k>> \in Seq(T)
  OBVIOUS
<1>2. s \o t \in Seq(T)
  BY ConcatProperties
<1>3. s \o (t \o <<k>>) = (s \o t) \o <<k>>
  BY <1>1, ConcatAssociative
<1>4. Append(t, k) = t \o <<k>> /\ Append(s \o t, k) = (s \o t) \o <<k>>
  BY <1>2, AppendIsConcat
<1> QED
  BY <1>3, <1>4

LEMMA ReadJoined ==
    ASSUME NEW u \in Seq(Words), NEW v \in Seq(Words), NEW k \in Piece
    PROVE  Read(u \o v, k) = u \o Read(v, k)
<1>1. k.word # Blank => k.word \in Words
  BY DEF Piece
<1>2. CASE k.word = Blank
  BY <1>2 DEF Read
<1>3. CASE k.word # Blank
  <2>1. u \o Append(v, k.word) = Append(u \o v, k.word)
    BY <1>1, <1>3, AppendJoined
  <2> QED
    BY <1>3, <2>1 DEF Read
<1> QED
  BY <1>2, <1>3

Adds(c, d) == Bytes(c \o d) = Bytes(c) + Bytes(d) /\ WordsIn(c \o d) = WordsIn(c) \o WordsIn(d)

LEMMA AddsOne ==
    ASSUME NEW c \in Seq(Piece), NEW h \in Seq(Piece), NEW k \in Piece, Adds(c, h)
    PROVE  Adds(c, Append(h, k))
<1>1. c \o Append(h, k) = Append(c \o h, k)
  BY AppendJoined
<1>2. c \o h \in Seq(Piece)
  BY ConcatProperties
<1>3. Bytes(Append(c \o h, k)) = Bytes(c \o h) + k.size /\ WordsIn(Append(c \o h, k)) = Read(WordsIn(c \o h), k)
  BY <1>2, OneMore
<1>4. Bytes(Append(h, k)) = Bytes(h) + k.size /\ WordsIn(Append(h, k)) = Read(WordsIn(h), k)
  BY OneMore
<1>5. Bytes(c) \in Nat /\ Bytes(h) \in Nat /\ k.size \in Nat
  BY SumsAre DEF Piece
<1>6. Read(WordsIn(c) \o WordsIn(h), k) = WordsIn(c) \o Read(WordsIn(h), k)
  BY WordsAre, ReadJoined
<1> QED
  BY <1>1, <1>3, <1>4, <1>5, <1>6 DEF Adds

LEMMA AddsNothing ==
    ASSUME NEW c \in Seq(Piece)
    PROVE  Adds(c, <<>>)
<1>1. c \o <<>> = c
  BY ConcatEmptySeq
<1>2. WordsIn(c) \o <<>> = WordsIn(c)
  BY WordsAre, ConcatEmptySeq
<1>3. Bytes(c) \in Nat
  BY SumsAre
<1>4. Bytes(c) = Bytes(c) + 0
  BY <1>3
<1> QED
  BY <1>1, <1>2, <1>4, NothingIs, Zenon DEF Adds

LEMMA TogetherIs ==
    ASSUME NEW c \in Seq(Piece), NEW d \in Seq(Piece)
    PROVE  /\ c \o d \in Seq(Piece) /\ Len(c \o d) = Len(c) + Len(d)
           /\ Bytes(c \o d) = Bytes(c) + Bytes(d)
           /\ WordsIn(c \o d) = WordsIn(c) \o WordsIn(d)
<1> DEFINE N == Len(d)
           S == {n \in 0..N : \A e \in Seq(Piece) : Len(e) = n => Adds(c, e)}
<1>1. N \in Nat
  BY LenProperties
<1>2. 0 \in S
  <2>1. ASSUME NEW e \in Seq(Piece), Len(e) = 0
        PROVE  Adds(c, e)
    BY <2>1, EmptySeq, AddsNothing
  <2> QED
    BY <1>1, <2>1
<1>3. ASSUME NEW n \in 0..(N - 1), n \in S
      PROVE  n + 1 \in S
  <2>1. ASSUME NEW e \in Seq(Piece), Len(e) = n + 1
        PROVE  Adds(c, e)
    <3>1. e # <<>>
      BY <1>1, <2>1, EmptySeq
    <3>2. PICK h \in Seq(Piece), k \in Piece : e = Append(h, k)
      BY <3>1, SequenceEmptyOrAppend
    <3>3. Len(h) = n
      <4>1. Len(e) = Len(h) + 1 /\ Len(h) \in Nat
        BY <3>2, AppendProperties, LenProperties
      <4> QED
        BY <1>1, <2>1, <4>1
    <3> QED
      BY <1>3, <3>2, <3>3, AddsOne
  <2>2. n + 1 \in 0..N
    BY <1>1
  <2> QED
    BY <2>1, <2>2
<1> HIDE DEF S
<1>4. N \in S
  <2>1. \A n \in 0..N : n \in S
    BY <1>1, <1>2, <1>3, Induction
  <2> QED
    BY <1>1, <2>1
<1> QED
  BY <1>4, ConcatProperties DEF S, Adds

LEMMA GapIs ==
    ASSUME NEW c \in Seq(Piece), NEW gap \in {Space, Break}
    PROVE  /\ c \o <<gap>> \in Seq(Piece) /\ Len(c \o <<gap>>) = Len(c) + 1
           /\ Bytes(c \o <<gap>>) = Bytes(c) + gap.size
           /\ WordsIn(c \o <<gap>>) = WordsIn(c)
           /\ gap \in Piece /\ gap.word = Blank /\ gap.size \in Nat
<1>1. gap \in Piece /\ gap.word = Blank /\ gap.size \in Nat
  <2>1. gap = Space \/ gap = Break
    OBVIOUS
  <2>2. Space.word = Blank /\ Break.word = Blank /\ Space.size \in Nat /\ Break.size \in Nat
    BY DEF Space, Break, Gap
  <2> QED
    BY <2>1, <2>2, GapsAre
<1>2. <<gap>> \in Seq(Piece) /\ Len(<<gap>>) = 1 /\ Bytes(<<gap>>) = gap.size /\ WordsIn(<<gap>>) = <<>>
  BY <1>1, OneIs
<1>3. /\ c \o <<gap>> \in Seq(Piece) /\ Len(c \o <<gap>>) = Len(c) + Len(<<gap>>)
      /\ Bytes(c \o <<gap>>) = Bytes(c) + Bytes(<<gap>>)
      /\ WordsIn(c \o <<gap>>) = WordsIn(c) \o WordsIn(<<gap>>)
  BY <1>2, TogetherIs
<1>4. WordsIn(c) \o <<>> = WordsIn(c)
  BY WordsAre, ConcatEmptySeq
<1> QED
  BY <1>1, <1>2, <1>3, <1>4

LEMMA JoinHas ==
    ASSUME NEW c \in Seq(Piece), NEW d \in Seq(Piece), NEW gap \in {Space, Break}
    PROVE  /\ Join(c, gap, d) \in Seq(Piece)
           /\ WordsIn(Join(c, gap, d)) = WordsIn(c) \o WordsIn(d)
           /\ c = <<>> => Bytes(Join(c, gap, d)) = Bytes(d)
           /\ c # <<>> => Bytes(Join(c, gap, d)) = Bytes(c) + gap.size + Bytes(d)
           /\ c # <<>> => Len(Join(c, gap, d)) = Len(c) + 1 + Len(d)
           /\ Bytes(Join(c, gap, d)) <= Bytes(c) + gap.size + Bytes(d)
<1>1. gap.size \in Nat /\ Bytes(c) \in Nat /\ Bytes(d) \in Nat
  BY GapIs, SumsAre
<1>2. CASE c = <<>>
  <2>1. Join(c, gap, d) = d /\ WordsIn(c) = <<>> /\ Bytes(c) = 0
    BY <1>2, NothingIs DEF Join
  <2>2. <<>> \o WordsIn(d) = WordsIn(d)
    BY WordsAre, ConcatEmptySeq
  <2>3. Bytes(Join(c, gap, d)) = Bytes(d) /\ Bytes(d) <= Bytes(c) + gap.size + Bytes(d)
    BY <1>1, <2>1
  <2>4. WordsIn(Join(c, gap, d)) = WordsIn(c) \o WordsIn(d)
    BY <2>1, <2>2, Zenon
  <2> QED
    BY <1>2, <2>1, <2>3, <2>4
<1>3. CASE c # <<>>
  <2>1. PICK e \in Seq(Piece) : e = c \o <<gap>>
    BY GapIs
  <2>2. /\ Len(e) = Len(c) + 1 /\ Bytes(e) = Bytes(c) + gap.size
        /\ WordsIn(e) = WordsIn(c)
    BY <2>1, GapIs
  <2>3. Join(c, gap, d) = e \o d
    BY <1>3, <2>1 DEF Join
  <2>4. /\ e \o d \in Seq(Piece) /\ Len(e \o d) = Len(e) + Len(d) /\ Bytes(e \o d) = Bytes(e) + Bytes(d)
        /\ WordsIn(e \o d) = WordsIn(e) \o WordsIn(d)
    BY TogetherIs
  <2> QED
    BY <1>1, <1>3, <2>2, <2>3, <2>4
<1> QED
  BY <1>2, <1>3

-----------------------------------------------------------------------------
(* What is carried over                                                      *)

(* Every word has its size; and a cut at the last overlap bytes finds a space   *)
(* unless it takes everything.                                               *)
Uncut(c) == \A i \in 1..Len(c) : c[i].word # Blank => c[i].size = Size[c[i].word]
Aligned(c, overlap) ==
    \/ Bytes(c) <= overlap
    \/ Len(c) >= 2 /\ c[Len(c) - 1] = Space /\ c[Len(c)].size < overlap

(* c ends with d, which is cut nowhere c is not.                               *)
EndsWith(c, d) ==
    /\ d \in Seq(Piece)
    /\ \E u \in Seq(Words) : WordsIn(c) = u \o WordsIn(d)
    /\ Uncut(c) => Uncut(d)

LEMMA RestIs ==
    ASSUME NEW c \in Seq(Piece), NEW i \in 0..Len(c)
    PROVE  /\ EndsWith(c, SubSeq(c, i + 1, Len(c)))
           /\ Bytes(c) = Sums(c)[i] + Bytes(SubSeq(c, i + 1, Len(c)))
<1>1. Len(c) \in Nat /\ \A j \in 1..Len(c) : c[j] \in Piece
  BY LenProperties, ElementOfSeq
<1>2. PICK N \in Nat : N = Len(c)
  BY <1>1
<1>3. PICK d : d = SubSeq(c, i + 1, N)
  OBVIOUS
<1>4. d \in Seq(Piece) /\ Len(d) = N - i /\ \A j \in 1..(N - i) : d[j] = c[i + j]
  <2>1. \A j \in (i + 1)..N : c[j] \in Piece
    BY <1>1, <1>2
  <2>2. i + 1 \in Int /\ N \in Int
    BY <1>2
  <2>3. /\ d \in Seq(Piece) /\ Len(d) = (IF i + 1 <= N THEN N - (i + 1) + 1 ELSE 0)
        /\ \A j \in 1..(N - (i + 1) + 1) : d[j] = c[i + 1 + j - 1]
    BY <1>3, <2>1, <2>2, SubSeqProperties
  <2> QED
    BY <1>2, <2>3
<1>5. PICK b \in Seq(Piece) : b = SubSeq(c, 1, i) /\ Bytes(b) = Sums(c)[i]
  <2>1. \A j \in 1..i : c[j] \in Piece
    BY <1>1
  <2>2. SubSeq(c, 1, i) \in Seq(Piece)
    BY <2>1, SubSeqProperties
  <2> QED
    BY <2>2, BeforeIs
<1>6. c = b \o d
  <2>1. 1 \in 1..Len(c) + 1 /\ i \in 1 - 1..Len(c) /\ N \in i..Len(c)
    BY <1>1, <1>2
  <2>2. SubSeq(c, 1, i) \o SubSeq(c, i + 1, N) = SubSeq(c, 1, N)
    BY <2>1, ConcatAdjacentSubSeq
  <2> QED
    BY <1>2, <1>3, <1>5, <2>2, SubSeqFull
<1>7. Bytes(c) = Sums(c)[i] + Bytes(d) /\ WordsIn(c) = WordsIn(b) \o WordsIn(d)
  BY <1>4, <1>5, <1>6, TogetherIs, ZenonT(60)
<1>8. ASSUME Uncut(c)
      PROVE  Uncut(d)
  <2>1. ASSUME NEW j \in 1..Len(d)
        PROVE  i + j \in 1..Len(c) /\ d[j] = c[i + j]
    BY <1>2, <1>4
  <2> QED
    BY <1>8, <2>1 DEF Uncut
<1>9. WordsIn(b) \in Seq(Words)
  BY WordsAre
<1> QED
  BY <1>2, <1>3, <1>4, <1>7, <1>8, <1>9 DEF EndsWith

(* The same with what is left of the token before.                           *)
LEMMA PartIs ==
    ASSUME NEW c \in Seq(Piece), NEW i \in 1..Len(c), NEW n \in Nat
    PROVE  LET d == <<[c[i] EXCEPT !.size = n]>> \o SubSeq(c, i + 1, Len(c))
           IN  /\ d \in Seq(Piece) /\ \E u \in Seq(Words) : WordsIn(c) = u \o WordsIn(d)
               /\ Bytes(c) + n = Sums(c)[i] + Bytes(d)
               /\ Uncut(c) /\ n = c[i].size => Uncut(d)
<1>1. PICK k \in Piece : k = c[i]
  BY ElementOfSeq
<1>2. PICK p \in Piece : p = [k EXCEPT !.size = n]
  BY DEF Piece
<1>3. p.word = k.word /\ p.size = n
  BY <1>2 DEF Piece
<1>4. i \in 0..Len(c) /\ i - 1 \in 0..Len(c) /\ (i - 1) + 1 = i /\ Len(c) \in i..Len(c)
  BY LenProperties
<1>5. PICK rest \in Seq(Piece) : rest = SubSeq(c, i + 1, Len(c)) /\ Bytes(c) = Sums(c)[i] + Bytes(rest)
                                 /\ (Uncut(c) => Uncut(rest))
  BY <1>4, RestIs DEF EndsWith
<1>6. SubSeq(c, i, Len(c)) = <<k>> \o rest
  BY <1>1, <1>4, <1>5, SubSeqRecursiveFirst
<1>7. EndsWith(c, <<k>> \o rest)
  <2>1. EndsWith(c, SubSeq(c, (i - 1) + 1, Len(c)))
    BY <1>4, RestIs
  <2> QED
    BY <1>4, <1>6, <2>1
<1>8. WordsIn(<<k>> \o rest) = WordsIn(<<p>> \o rest)
  <2>1. WordsIn(<<k>>) = WordsIn(<<p>>) /\ <<k>> \in Seq(Piece) /\ <<p>> \in Seq(Piece)
    BY <1>3, OneIs
  <2>2. WordsIn(<<k>> \o rest) = WordsIn(<<k>>) \o WordsIn(rest)
    BY <2>1, TogetherIs
  <2>3. WordsIn(<<p>> \o rest) = WordsIn(<<p>>) \o WordsIn(rest)
    BY <2>1, TogetherIs
  <2> QED
    BY <2>1, <2>2, <2>3
<1>9. /\ <<p>> \o rest \in Seq(Piece) /\ Bytes(<<p>> \o rest) = n + Bytes(rest)
      /\ Len(<<p>> \o rest) = 1 + Len(rest)
  <2>1. <<p>> \in Seq(Piece) /\ Bytes(<<p>>) = n /\ Len(<<p>>) = 1
    BY <1>3, OneIs
  <2> QED
    BY <2>1, TogetherIs
<1>10. Bytes(c) + n = Sums(c)[i] + Bytes(<<p>> \o rest)
  <2>1. Bytes(rest) \in Nat /\ Sums(c)[i] \in Nat
    BY <1>4, SumsAre
  <2> QED
    BY <1>5, <1>9, <2>1
<1>11. ASSUME Uncut(c), n = c[i].size
       PROVE  Uncut(<<p>> \o rest)
  <2>1. p = k
    BY <1>1, <1>2, <1>11 DEF Piece
  <2> QED
    BY <1>7, <1>11, <2>1 DEF EndsWith
<1>12. \E u \in Seq(Words) : WordsIn(c) = u \o WordsIn(<<p>> \o rest)
  BY <1>7, <1>8 DEF EndsWith
<1> QED
  BY <1>1, <1>2, <1>5, <1>9, <1>10, <1>11, <1>12

LEMMA CarriedHas ==
    ASSUME NEW c \in Seq(Piece), NEW overlap \in Nat
    PROVE  /\ Bytes(Carried(c, overlap)) <= overlap
           /\ \E u \in Seq(Words) : WordsIn(c) = u \o WordsIn(Carried(c, overlap))
           /\ Uncut(c) /\ Aligned(c, overlap) => Uncut(Carried(c, overlap))
<1> DEFINE start == IF Bytes(c) <= overlap THEN 0 ELSE Bytes(c) - overlap
           spaces == {i \in DOMAIN c : c[i] = Space /\ Before(c, i) >= start}
           over == {i \in DOMAIN c : Before(c, i) + c[i].size > start} \cup {Len(c) + 1}
           i == Min(over)
           part == <<[c[i] EXCEPT !.size = Before(c, i + 1) - start]>> \o SubSeq(c, i + 1, Len(c))
           Good(d) == /\ Bytes(d) <= overlap /\ \E u \in Seq(Words) : WordsIn(c) = u \o WordsIn(d)
                      /\ Uncut(c) /\ Aligned(c, overlap) => Uncut(d)
<1>1. PICK N \in Nat : N = Len(c) /\ DOMAIN c = 1..N /\ \A n \in 1..N : c[n] \in Piece
  BY LenProperties, ElementOfSeq
<1>2. start \in Nat /\ Bytes(c) \in Nat /\ Bytes(c) <= start + overlap
      /\ (Bytes(c) > overlap => Bytes(c) = start + overlap) /\ (Bytes(c) <= overlap => start = 0)
  BY SumsAre
<1> HIDE DEF start
<1>3. ASSUME NEW n \in 1..(N + 1)
      PROVE  Before(c, n) = Sums(c)[n - 1]
  BY <1>1, <1>3, BeforeIs DEF Before
<1>4. ASSUME spaces # {}
      PROVE  Good(SubSeq(c, Min(spaces) + 1, Len(c)))
  <2>1. PICK m : m = Min(spaces)
    OBVIOUS
  <2>2. m \in spaces
    <3>1. spaces \in SUBSET (0..N)
      BY <1>1
    <3> QED
      BY <1>1, <1>4, <2>1, <3>1, MinIs
  <2>3. m \in 1..N /\ m \in 0..Len(c) /\ c[m] = Space /\ Before(c, m) >= start
    BY <1>1, <2>2
  <2>4. EndsWith(c, SubSeq(c, m + 1, Len(c))) /\ Bytes(c) = Sums(c)[m] + Bytes(SubSeq(c, m + 1, Len(c)))
    BY <2>3, RestIs
  <2>5. Sums(c)[m] = Sums(c)[m - 1] + 1 /\ Sums(c)[m - 1] >= start /\ Sums(c)[m] \in Nat /\ Sums(c)[m - 1] \in Nat
    <3>1. Sums(c)[m] = Sums(c)[m - 1] + c[m].size /\ c[m].size = 1
      BY <1>1, <2>3, SumsAre DEF Space, Gap
    <3>2. Before(c, m) = Sums(c)[m - 1] /\ m - 1 \in 0..Len(c)
      BY <1>1, <1>3, <2>3
    <3> QED
      BY <2>3, <3>1, <3>2, SumsAre
  <2>6. Bytes(SubSeq(c, m + 1, Len(c))) \in Nat
    BY <2>4, SumsAre DEF EndsWith
  <2>7. Bytes(SubSeq(c, m + 1, Len(c))) <= overlap
    BY <1>2, <2>4, <2>5, <2>6
  <2> QED
    BY <2>1, <2>4, <2>7 DEF EndsWith
<1>5. i \in over /\ \A n \in over : i <= n
  <2>1. over \in SUBSET (0..(N + 1)) /\ over # {} /\ N + 1 \in Nat
    BY <1>1
  <2> HIDE DEF over
  <2> QED
    BY <2>1, MinIs
<1>6. ASSUME i > N
      PROVE  Good(<<>>)
  <2>1. WordsIn(c) = WordsIn(c) \o <<>> /\ WordsIn(c) \in Seq(Words)
    BY WordsAre, ConcatEmptySeq
  <2>2. Uncut(<<>>)
    BY NothingIs DEF Uncut
  <2> QED
    BY <2>1, <2>2, NothingIs
<1>7. ASSUME spaces = {}, ~(i > N)
      PROVE  Good(part)
  <2>1. PICK m : m = i
    OBVIOUS
  <2>2. m \in 1..N /\ Before(c, m) + c[m].size > start /\ m + 1 \in 1..(N + 1)
        /\ \A n \in 1..N : Before(c, n) + c[n].size > start => m <= n
    BY <1>1, <1>5, <1>7, <2>1
  <2>3. /\ m \in 1..Len(c) /\ m \in 0..Len(c) /\ m - 1 \in 0..Len(c)
        /\ Before(c, m) = Sums(c)[m - 1] /\ Before(c, m + 1) = Sums(c)[m]
    BY <1>1, <1>3, <2>2
  <2>4. /\ Sums(c)[m] = Sums(c)[m - 1] + c[m].size /\ Sums(c)[m] \in Nat /\ Sums(c)[m - 1] \in Nat
        /\ c[m].size \in Nat
    BY <1>1, <2>2, <2>3, SumsAre DEF Piece
  <2>5. PICK n \in Nat : n = Before(c, m + 1) - start
    BY <1>2, <2>2, <2>3, <2>4
  <2>6. PICK d : d = <<[c[m] EXCEPT !.size = n]>> \o SubSeq(c, m + 1, Len(c))
    OBVIOUS
  <2>7. /\ d \in Seq(Piece) /\ \E u \in Seq(Words) : WordsIn(c) = u \o WordsIn(d)
        /\ Bytes(c) + n = Sums(c)[m] + Bytes(d)
        /\ Uncut(c) /\ n = c[m].size => Uncut(d)
    BY <2>3, <2>6, PartIs
  <2>8. Bytes(d) \in Nat
    BY <2>7, SumsAre
  <2>9. Bytes(d) <= overlap
    <3>1. n = Sums(c)[m] - start
      BY <2>3, <2>5
    <3>2. Bytes(c) + n = Sums(c)[m] + Bytes(d)
      BY <2>7
    <3> QED
      BY <1>2, <2>4, <2>8, <3>1, <3>2
  <2>10. ASSUME Aligned(c, overlap)
         PROVE  n = c[m].size
    <3>1. Bytes(c) <= overlap
      <4>1. ASSUME Bytes(c) > overlap
            PROVE  N - 1 \in spaces
        <5>1. N >= 2 /\ c[N - 1] = Space /\ c[N].size < overlap
          BY <1>1, <1>2, <2>10, <4>1 DEF Aligned
        <5>2. N - 1 \in 1..N /\ N \in 1..N /\ N - 2 \in 0..N /\ (N - 1) - 1 = N - 2
          BY <5>1
        <5>3. c[N - 1].size = 1 /\ c[N].size \in Nat
          BY <1>1, <5>1, <5>2 DEF Space, Gap, Piece
        <5>4. Sums(c)[N] = Sums(c)[N - 1] + c[N].size /\ Sums(c)[N - 1] = Sums(c)[N - 2] + c[N - 1].size
              /\ Bytes(c) = Sums(c)[N] /\ Sums(c)[N - 1] \in Nat /\ Sums(c)[N - 2] \in Nat
          BY <1>1, <5>2, SumsAre
        <5>5. Before(c, N - 1) = Sums(c)[N - 2]
          BY <1>3, <5>2
        <5>6. Before(c, N - 1) >= start
          BY <1>2, <4>1, <5>1, <5>3, <5>4, <5>5
        <5> QED
          BY <1>1, <5>1, <5>2, <5>6
      <4> QED
        BY <1>2, <1>7, <4>1
    <3>2. start = 0
      BY <1>2, <3>1
    <3>3. Sums(c)[m - 1] = 0
      <4>1. CASE m = 1
        BY <4>1, SumsAre
      <4>2. CASE m # 1
        <5>1. m - 1 \in 1..N /\ ~(m <= m - 1) /\ (m - 1) - 1 \in 0..Len(c) /\ m - 1 \in 1..(N + 1)
          BY <1>1, <2>2, <4>2
        <5>2. ~(Before(c, m - 1) + c[m - 1].size > start)
          BY <2>2, <5>1
        <5>3. Before(c, m - 1) = Sums(c)[(m - 1) - 1]
          BY <1>3, <5>1
        <5>4. Sums(c)[m - 1] = Sums(c)[(m - 1) - 1] + c[m - 1].size
          BY <1>1, <5>1, SumsAre
        <5> QED
          BY <2>4, <3>2, <5>2, <5>3, <5>4
      <4> QED
        BY <4>1, <4>2
    <3> QED
      BY <2>3, <2>4, <2>5, <3>2, <3>3
  <2>11. d = part
    BY <2>1, <2>5, <2>6
  <2>12. Good(d)
    BY <2>7, <2>9, <2>10
  <2> QED
    BY <2>11, <2>12
<1>8. Carried(c, overlap) = IF spaces # {} THEN SubSeq(c, Min(spaces) + 1, Len(c))
                            ELSE IF i > Len(c) THEN <<>> ELSE part
  BY DEF Carried, start
<1> HIDE DEF spaces, i, part, Good
<1>9. Good(Carried(c, overlap))
  BY <1>1, <1>4, <1>6, <1>7, <1>8
<1> QED
  BY <1>9 DEF Good

-----------------------------------------------------------------------------
(* Where in the text the chunks are                                          *)

LEMMA PartOf ==
    ASSUME NEW T, NEW v \in Seq(T), NEW e \in 0..Len(v), NEW b \in 0..e
    PROVE  /\ SubSeq(v, b + 1, e) \in Seq(T) /\ Len(SubSeq(v, b + 1, e)) = e - b
           /\ \A i \in 1..(e - b) : SubSeq(v, b + 1, e)[i] = v[b + i]
<1>1. PICK N \in Nat : N = Len(v) /\ \A j \in 1..N : v[j] \in T
  BY LenProperties, ElementOfSeq
<1>2. (\A j \in (b + 1)..e : v[j] \in T) /\ b + 1 \in Int /\ e \in Int
  BY <1>1
<1>3. /\ SubSeq(v, b + 1, e) \in Seq(T)
      /\ Len(SubSeq(v, b + 1, e)) = (IF b + 1 <= e THEN e - (b + 1) + 1 ELSE 0)
      /\ \A i \in 1..(e - (b + 1) + 1) : SubSeq(v, b + 1, e)[i] = v[b + 1 + i - 1]
  BY <1>2, SubSeqProperties
<1>4. \A i \in 1..(e - b) : b + 1 + i - 1 = b + i /\ i \in 1..(e - (b + 1) + 1)
  BY <1>1
<1> QED
  BY <1>1, <1>3, <1>4

LEMMA PartStays ==
    ASSUME NEW T, NEW v \in Seq(T), NEW u \in Seq(T), NEW e \in 0..Len(v), NEW b \in 0..e
    PROVE  SubSeq(v \o u, b + 1, e) = SubSeq(v, b + 1, e) /\ e \in 0..Len(v \o u)
<1>1. /\ v \o u \in Seq(T) /\ Len(v \o u) = Len(v) + Len(u) /\ Len(v) \in Nat /\ Len(u) \in Nat
      /\ \A i \in 1..Len(v) : (v \o u)[i] = v[i]
  BY ConcatProperties, LenProperties
<1>2. e \in 0..Len(v \o u)
  BY <1>1
<1>3. /\ SubSeq(v, b + 1, e) \in Seq(T) /\ Len(SubSeq(v, b + 1, e)) = e - b
      /\ \A i \in 1..(e - b) : SubSeq(v, b + 1, e)[i] = v[b + i]
  BY PartOf
<1>4. /\ SubSeq(v \o u, b + 1, e) \in Seq(T) /\ Len(SubSeq(v \o u, b + 1, e)) = e - b
      /\ \A i \in 1..(e - b) : SubSeq(v \o u, b + 1, e)[i] = (v \o u)[b + i]
  BY <1>1, <1>2, PartOf
<1>5. \A i \in 1..(e - b) : b + i \in 1..Len(v)
  BY <1>1
<1>6. \A i \in 1..(e - b) : SubSeq(v \o u, b + 1, e)[i] = SubSeq(v, b + 1, e)[i]
  BY <1>1, <1>3, <1>4, <1>5
<1> QED
  BY <1>2, <1>3, <1>4, <1>6, SeqEqual

LEMMA PartGrows ==
    ASSUME NEW T, NEW v \in Seq(T), NEW u \in Seq(T), NEW b \in 0..Len(v)
    PROVE  /\ SubSeq(v, b + 1, Len(v)) \o u = SubSeq(v \o u, b + 1, Len(v \o u))
           /\ b \in 0..Len(v \o u)
<1>1. PICK N \in Nat, M \in Nat : N = Len(v) /\ M = Len(u)
  BY LenProperties
<1>2. /\ v \o u \in Seq(T) /\ Len(v \o u) = N + M
      /\ \A i \in 1..(N + M) : (v \o u)[i] = IF i <= N THEN v[i] ELSE u[i - N]
  BY <1>1, ConcatProperties
<1>3. PICK p, q : p = SubSeq(v, b + 1, Len(v)) /\ q = SubSeq(v \o u, b + 1, Len(v \o u))
  OBVIOUS
<1>4. Len(v) \in 0..Len(v) /\ b \in 0..Len(v \o u) /\ Len(v \o u) \in 0..Len(v \o u) /\ b \in 0..N
  BY <1>1, <1>2
<1>5. p \in Seq(T) /\ Len(p) = Len(v) - b /\ \A i \in 1..(Len(v) - b) : p[i] = v[b + i]
  BY <1>3, <1>4, PartOf
<1>6. /\ q \in Seq(T) /\ Len(q) = Len(v \o u) - b
      /\ \A i \in 1..(Len(v \o u) - b) : q[i] = (v \o u)[b + i]
  BY <1>2, <1>3, <1>4, PartOf, ZenonT(60)
<1>7. /\ p \o u \in Seq(T) /\ Len(p \o u) = Len(p) + Len(u)
      /\ \A i \in 1..(Len(p) + Len(u)) : (p \o u)[i] = IF i <= Len(p) THEN p[i] ELSE u[i - Len(p)]
  BY <1>5, ConcatProperties
<1>8. Len(p) = N - b /\ Len(q) = (N + M) - b
  BY <1>1, <1>2, <1>5, <1>6
<1>9. ASSUME NEW i \in 1..((N - b) + M)
      PROVE  (p \o u)[i] = q[i]
  <2>1. i \in 1..((N + M) - b) /\ b + i \in 1..(N + M)
    BY <1>1, <1>4
  <2>2. q[i] = IF b + i <= N THEN v[b + i] ELSE u[(b + i) - N]
    BY <1>2, <1>6, <2>1
  <2>3. (p \o u)[i] = IF i <= N - b THEN p[i] ELSE u[i - (N - b)]
    BY <1>1, <1>7, <1>8
  <2>4. CASE i <= N - b
    <3>1. b + i <= N /\ i \in 1..(Len(v) - b)
      BY <1>1, <1>4, <2>4
    <3> QED
      BY <1>5, <2>2, <2>3, <2>4, <3>1
  <2>5. CASE ~(i <= N - b)
    <3>1. (b + i) - N = i - (N - b) /\ ~(b + i <= N)
      BY <1>1, <1>4, <2>5
    <3> QED
      BY <2>2, <2>3, <2>5, <3>1
  <2> QED
    BY <2>4, <2>5
<1>10. p \o u = q
  <2>1. Len(p \o u) = (N - b) + M /\ Len(q) = (N - b) + M
    BY <1>1, <1>4, <1>7, <1>8
  <2> QED
    BY <1>6, <1>7, <1>9, <2>1, SeqEqual
<1> QED
  BY <1>3, <1>4, <1>10

(* What ends a stretch that ends with the text ends with the text.              *)
LEMMA EndOf ==
    ASSUME NEW T, NEW v \in Seq(T), NEW b \in 0..Len(v), NEW u \in Seq(T), NEW w \in Seq(T),
           SubSeq(v, b + 1, Len(v)) = u \o w
    PROVE  Len(v) - Len(w) \in 0..Len(v) /\ w = SubSeq(v, (Len(v) - Len(w)) + 1, Len(v))
<1>1. PICK N \in Nat, M \in Nat, L \in Nat : N = Len(v) /\ M = Len(w) /\ L = Len(u)
  BY LenProperties
<1>2. PICK p : p = SubSeq(v, b + 1, Len(v))
  OBVIOUS
<1>3. Len(v) \in 0..Len(v) /\ b \in 0..N
  BY <1>1
<1>4. p \in Seq(T) /\ Len(p) = Len(v) - b /\ \A i \in 1..(Len(v) - b) : p[i] = v[b + i]
  BY <1>2, <1>3, PartOf
<1>5. p = u \o w /\ Len(u \o w) = L + M /\ \A i \in 1..(L + M) : (u \o w)[i] = IF i <= L THEN u[i] ELSE w[i - L]
  BY <1>1, <1>2, ConcatProperties
<1>6. N - b = L + M
  BY <1>1, <1>4, <1>5
<1>7. PICK k \in 0..Len(v) : k = N - M /\ k = b + L
  BY <1>1, <1>3, <1>6
<1>8. PICK q : q = SubSeq(v, k + 1, Len(v))
  OBVIOUS
<1>9. q \in Seq(T) /\ Len(q) = Len(v) - k /\ \A i \in 1..(Len(v) - k) : q[i] = v[k + i]
  BY <1>3, <1>8, PartOf
<1>10. Len(q) = M
  BY <1>1, <1>7, <1>9
<1>11. ASSUME NEW i \in 1..M
       PROVE  w[i] = q[i]
  <2>1. L + i \in 1..(L + M) /\ ~(L + i <= L) /\ (L + i) - L = i
    BY <1>1
  <2>2. L + i \in 1..(Len(v) - b) /\ b + (L + i) = k + i /\ i \in 1..(Len(v) - k)
    <3>1. N - b = L + M /\ N - k = M /\ b + (L + i) = (b + L) + i
      BY <1>3, <1>6, <1>7
    <3>2. Len(v) - b = L + M /\ Len(v) - k = M /\ b + (L + i) = k + i
      BY <1>1, <1>7, <3>1
    <3> QED
      BY <2>1, <3>2
  <2>3. p[L + i] = w[i]
    BY <1>5, <2>1
  <2>4. p[L + i] = v[k + i]
    BY <1>4, <2>2
  <2> QED
    BY <1>9, <2>2, <2>3, <2>4
<1>12. w = q
  BY <1>1, <1>9, <1>10, <1>11, SeqEqual
<1> QED
  BY <1>1, <1>7, <1>8, <1>12

LEMMA EndOfText ==
    ASSUME NEW v \in Seq(Words), NEW b \in 0..Len(v), NEW u \in Seq(Words), NEW w \in Seq(Words),
           SubSeq(v, b + 1, Len(v)) = u \o w
    PROVE  \E e \in 0..Len(v) : w = SubSeq(v, e + 1, Len(v))
  BY EndOf, ZenonT(60)

(* Where each chunk ends: no chunk begins after the one before it ends, and, if  *)
(* each brings more, it ends later.                                           *)
Marks(cs, ends, text, more) ==
    /\ ends \in [0..Len(cs) -> 0..Len(text)] /\ ends[0] = 0
    /\ \A i \in 1..Len(cs) :
          /\ ends[i - 1] <= ends[i] /\ (more => ends[i - 1] < ends[i])
          /\ \E b \in 0..ends[i - 1] : WordsIn(cs[i]) = SubSeq(text, b + 1, ends[i])

(* The complete chunks and the current one are stretches of the text read so far. *)
Placed(cs, c, text, more, new) ==
    \E ends : /\ Marks(cs, ends, text, more)
              /\ more /\ new => ends[Len(cs)] < Len(text)
              /\ \E b \in 0..ends[Len(cs)] : WordsIn(c) = SubSeq(text, b + 1, Len(text))

LEMMA MarksAre ==
    ASSUME NEW cs \in Seq(Seq(Piece)), NEW ends, NEW text \in Seq(Words), NEW more,
           Marks(cs, ends, text, more)
    PROVE  /\ Len(cs) \in 0..Len(cs) /\ ends[0] = 0
           /\ \A i \in 0..Len(cs) : ends[i] \in 0..Len(text)
           /\ \A i \in 1..Len(cs) : i \in 0..Len(cs) /\ i - 1 \in 0..Len(cs)
                                  /\ ends[i - 1] <= ends[i] /\ (more => ends[i - 1] < ends[i])
<1>1. Len(cs) \in Nat
  BY LenProperties
<1>2. ends \in [0..Len(cs) -> 0..Len(text)]
  BY DEF Marks
<1>3. \A i \in 0..Len(cs) : ends[i] \in 0..Len(text)
  BY <1>2
<1>4. \A i \in 1..Len(cs) : i \in 0..Len(cs) /\ i - 1 \in 0..Len(cs)
  BY <1>1
<1> QED
  BY <1>1, <1>3, <1>4 DEF Marks

LEMMA MarksGrow ==
    ASSUME NEW cs \in Seq(Seq(Piece)), NEW ends, NEW text \in Seq(Words), NEW u \in Seq(Words), NEW more,
           Marks(cs, ends, text, more)
    PROVE  Marks(cs, ends, text \o u, more)
<1>1. PICK m \in Nat : m = Len(cs)
  BY LenProperties
<1>2. PICK N \in Nat, M \in Nat : N = Len(text) /\ M = Len(u) /\ N + M = Len(text \o u)
  BY LenProperties, ConcatProperties
<1>3. ends \in [0..m -> 0..N] /\ ends[0] = 0
  BY <1>1, <1>2 DEF Marks
<1>4. ends \in [0..m -> 0..(N + M)]
  BY <1>2, <1>3
<1>5. ASSUME NEW i \in 1..m
      PROVE  \E b \in 0..ends[i - 1] : WordsIn(cs[i]) = SubSeq(text \o u, b + 1, ends[i])
  <2>1. PICK b \in 0..ends[i - 1] : WordsIn(cs[i]) = SubSeq(text, b + 1, ends[i])
    BY <1>1, <1>5 DEF Marks
  <2>2. i \in 0..m /\ i - 1 \in 0..m /\ ends[i] \in 0..N /\ ends[i - 1] \in 0..N /\ ends[i - 1] <= ends[i]
    BY <1>1, <1>2, MarksAre
  <2>3. ends[i] \in 0..Len(text) /\ b \in 0..ends[i]
    BY <1>2, <2>2
  <2>4. SubSeq(text \o u, b + 1, ends[i]) = SubSeq(text, b + 1, ends[i])
    BY <2>3, PartStays
  <2> QED
    BY <2>1, <2>4
<1> QED
  BY <1>1, <1>2, <1>3, <1>4, <1>5 DEF Marks

LEMMA MarksMore ==
    ASSUME NEW cs \in Seq(Seq(Piece)), NEW c \in Seq(Piece), NEW ends, NEW text \in Seq(Words), NEW more,
           Marks(cs, ends, text, more), more => ends[Len(cs)] < Len(text),
           NEW b \in 0..ends[Len(cs)], WordsIn(c) = SubSeq(text, b + 1, Len(text))
    PROVE  \E f : Marks(Append(cs, c), f, text, more) /\ f[Len(cs) + 1] = Len(text)
<1>1. PICK m \in Nat, N \in Nat : m = Len(cs) /\ N = Len(text)
  BY LenProperties
<1>2. PICK f : f = [i \in 0..(m + 1) |-> IF i = m + 1 THEN N ELSE ends[i]]
  OBVIOUS
<1>3. PICK ds : ds = Append(cs, c)
  OBVIOUS
<1>4. Len(ds) = m + 1 /\ (\A i \in 1..m : ds[i] = cs[i]) /\ ds[m + 1] = c
  BY <1>1, <1>3, AppendProperties
<1>5. ends \in [0..m -> 0..N] /\ ends[0] = 0
  BY <1>1 DEF Marks
<1>6. (\A i \in 0..m : f[i] = ends[i]) /\ f[m + 1] = N /\ f \in [0..(m + 1) -> 0..N] /\ f[0] = 0
  <2>1. \A i \in 0..m : i \in 0..(m + 1) /\ i # m + 1
    OBVIOUS
  <2>2. m + 1 \in 0..(m + 1) /\ 0 \in 0..m
    OBVIOUS
  <2>3. (\A i \in 0..m : f[i] = ends[i]) /\ f[m + 1] = N
    BY <1>2, <2>1, <2>2
  <2>4. ASSUME NEW i \in 0..(m + 1)
        PROVE  (IF i = m + 1 THEN N ELSE ends[i]) \in 0..N
    <3>1. i # m + 1 => i \in 0..m
      OBVIOUS
    <3> QED
      BY <1>5, <3>1
  <2>5. f \in [0..(m + 1) -> 0..N]
    BY <1>2, <2>4
  <2> QED
    BY <1>5, <2>2, <2>3, <2>5
<1>7. ASSUME NEW i \in 1..(m + 1)
      PROVE  /\ f[i - 1] <= f[i] /\ (more => f[i - 1] < f[i])
             /\ \E e \in 0..f[i - 1] : WordsIn(ds[i]) = SubSeq(text, e + 1, f[i])
  <2>1. CASE i \in 1..m
    <3>1. f[i - 1] = ends[i - 1] /\ f[i] = ends[i] /\ ds[i] = cs[i]
      <4>1. i - 1 \in 0..m /\ i \in 0..m
        BY <2>1
      <4> QED
        BY <1>4, <1>6, <2>1, <4>1
    <3> QED
      BY <1>1, <2>1, <3>1 DEF Marks
  <2>2. CASE i = m + 1
    <3>1. f[i - 1] = ends[m] /\ f[i] = N /\ ds[i] = c /\ ends[m] \in 0..N
      BY <1>4, <1>5, <1>6, <2>2
    <3> QED
      BY <1>1, <3>1
  <2> QED
    BY <2>1, <2>2
<1> QED
  <2>1. f \in [0..Len(ds) -> 0..Len(text)] /\ f[Len(cs) + 1] = Len(text)
    BY <1>1, <1>4, <1>6
  <2>2. Marks(ds, f, text, more)
    BY <1>4, <1>6, <1>7, <2>1 DEF Marks
  <2> QED
    BY <1>3, <2>1, <2>2

LEMMA FlushPlaced ==
    ASSUME NEW st \in State, NEW overlap \in Nat, NEW text \in Seq(Words), NEW more,
           Placed(st.chunks, st.cur, text, more, TRUE)
    PROVE  Placed(Flushed(st, overlap).chunks, Flushed(st, overlap).cur, text, more, FALSE)
<1>1. PICK cs \in Seq(Seq(Piece)), c \in Seq(Piece) : cs = st.chunks /\ c = st.cur
  BY DEF State
<1>2. PICK ends : /\ Marks(cs, ends, text, more) /\ (more => ends[Len(cs)] < Len(text))
                  /\ \E b \in 0..ends[Len(cs)] : WordsIn(c) = SubSeq(text, b + 1, Len(text))
  BY <1>1 DEF Placed
<1>3. PICK b \in 0..ends[Len(cs)] : WordsIn(c) = SubSeq(text, b + 1, Len(text))
  BY <1>2
<1>4. PICK f : Marks(Append(cs, c), f, text, more) /\ f[Len(cs) + 1] = Len(text)
  BY <1>2, <1>3, MarksMore, ZenonT(60)
<1>5. PICK d \in Seq(Piece), u \in Seq(Words) : d = Carried(c, overlap) /\ WordsIn(c) = u \o WordsIn(d)
  BY CarriedIs, CarriedHas
<1>6. b \in 0..Len(text)
  <2>1. Len(cs) \in Nat /\ Len(text) \in Nat
    BY LenProperties
  <2>2. ends[Len(cs)] \in 0..Len(text)
    BY <1>2, MarksAre
  <2> QED
    BY <2>1, <2>2
<1>7. PICK w \in Seq(Words) : w = WordsIn(d)
  BY WordsAre
<1>8. PICK e \in 0..Len(text) : w = SubSeq(text, e + 1, Len(text))
  <2>1. SubSeq(text, b + 1, Len(text)) = u \o w
    BY <1>3, <1>5, <1>7
  <2> QED
    BY <1>6, <2>1, EndOfText
<1>9. Len(Append(cs, c)) = Len(cs) + 1
  BY AppendProperties
<1>10. Placed(Append(cs, c), d, text, more, FALSE)
  BY <1>4, <1>7, <1>8, <1>9 DEF Placed
<1> QED
  BY <1>1, <1>5, <1>10 DEF Flushed

LEMMA JoinPlaced ==
    ASSUME NEW cs \in Seq(Seq(Piece)), NEW c \in Seq(Piece), NEW d \in Seq(Piece), NEW gap \in {Space, Break},
           NEW text \in Seq(Words), NEW more, Placed(cs, c, text, more, FALSE), WordsIn(d) # <<>>
    PROVE  Placed(cs, Join(c, gap, d), text \o WordsIn(d), more, TRUE)
<1>1. PICK ends : /\ Marks(cs, ends, text, more)
                  /\ \E b \in 0..ends[Len(cs)] : WordsIn(c) = SubSeq(text, b + 1, Len(text))
  BY DEF Placed
<1>2. PICK b \in 0..ends[Len(cs)] : WordsIn(c) = SubSeq(text, b + 1, Len(text))
  BY <1>1
<1>3. PICK w \in Seq(Words) : w = WordsIn(d)
  BY WordsAre
<1>4. Marks(cs, ends, text \o w, more)
  BY <1>1, MarksGrow
<1>5. ends[Len(cs)] \in 0..Len(text)
  BY <1>1, MarksAre
<1>6. b \in 0..Len(text)
  BY <1>5
<1>7. SubSeq(text, b + 1, Len(text)) \o w = SubSeq(text \o w, b + 1, Len(text \o w))
  BY <1>6, PartGrows
<1>8. WordsIn(Join(c, gap, d)) = SubSeq(text \o w, b + 1, Len(text \o w))
  BY <1>2, <1>3, <1>7, JoinHas
<1>9. ends[Len(cs)] < Len(text \o w)
  <2>1. Len(text \o w) = Len(text) + Len(w)
    BY ConcatProperties
  <2>2. Len(w) \in Nat \ {0} /\ Len(text) \in Nat
    BY <1>3, EmptySeq, LenProperties
  <2> QED
    BY <1>5, <2>1, <2>2
<1> QED
  BY <1>2, <1>3, <1>4, <1>8, <1>9 DEF Placed

-----------------------------------------------------------------------------
(* The size of the chunks                                                    *)

LEMMA JoinAt ==
    ASSUME NEW c \in Seq(Piece), NEW d \in Seq(Piece), NEW gap \in {Space, Break}, c # <<>>
    PROVE  /\ Len(Join(c, gap, d)) = Len(c) + 1 + Len(d)
           /\ \A i \in 1..Len(c) : Join(c, gap, d)[i] = c[i]
           /\ Join(c, gap, d)[Len(c) + 1] = gap
           /\ \A i \in 1..Len(d) : Join(c, gap, d)[Len(c) + 1 + i] = d[i]
<1>1. PICK N \in Nat, M \in Nat : N = Len(c) /\ M = Len(d)
  BY LenProperties
<1>2. PICK one \in Seq(Piece) : one = <<gap>> /\ Len(one) = 1 /\ one[1] = gap
  BY GapIs, OneIs
<1>3. PICK e \in Seq(Piece) : e = c \o one
  BY ConcatProperties
<1>4. Len(e) = N + 1 /\ \A i \in 1..(N + 1) : e[i] = IF i <= N THEN c[i] ELSE one[i - N]
  BY <1>1, <1>2, <1>3, ConcatProperties
<1>5. (\A i \in 1..N : e[i] = c[i]) /\ e[N + 1] = gap
  <2>1. \A i \in 1..N : i \in 1..(N + 1) /\ i <= N
    BY <1>1
  <2>2. N + 1 \in 1..(N + 1) /\ ~(N + 1 <= N) /\ (N + 1) - N = 1
    BY <1>1
  <2> QED
    BY <1>2, <1>4, <2>1, <2>2
<1>6. PICK l : l = Join(c, gap, d) /\ l = e \o d
  BY <1>2, <1>3 DEF Join
<1>7. Len(l) = N + 1 + M /\ \A i \in 1..(N + 1 + M) : l[i] = IF i <= N + 1 THEN e[i] ELSE d[i - (N + 1)]
  <2>1. /\ Len(e \o d) = Len(e) + Len(d)
        /\ \A i \in 1..(Len(e) + Len(d)) : (e \o d)[i] = IF i <= Len(e) THEN e[i] ELSE d[i - Len(e)]
    BY ConcatProperties
  <2> QED
    BY <1>1, <1>4, <1>6, <2>1
<1>8. (\A i \in 1..N : l[i] = c[i]) /\ l[N + 1] = gap
  <2>1. \A i \in 1..N : i \in 1..(N + 1 + M) /\ i <= N + 1
    BY <1>1
  <2>2. N + 1 \in 1..(N + 1 + M) /\ N + 1 <= N + 1
    BY <1>1
  <2> QED
    BY <1>5, <1>7, <2>1, <2>2
<1>9. ASSUME NEW i \in 1..M
      PROVE  l[N + 1 + i] = d[i]
  <2>1. N + 1 + i \in 1..(N + 1 + M) /\ ~(N + 1 + i <= N + 1) /\ (N + 1 + i) - (N + 1) = i
    BY <1>1
  <2> QED
    BY <1>7, <2>1
<1> QED
  BY <1>1, <1>6, <1>7, <1>8, <1>9

LEMMA JoinUncut ==
    ASSUME NEW c \in Seq(Piece), NEW d \in Seq(Piece), NEW gap \in {Space, Break}, Uncut(c), Uncut(d)
    PROVE  Uncut(Join(c, gap, d))
<1>1. CASE c = <<>>
  BY <1>1 DEF Join
<1>2. CASE c # <<>>
  <2>1. PICK N \in Nat, M \in Nat : N = Len(c) /\ M = Len(d)
    BY LenProperties
  <2>2. PICK l : l = Join(c, gap, d)
    OBVIOUS
  <2>3. /\ Len(l) = N + 1 + M /\ (\A i \in 1..N : l[i] = c[i]) /\ l[N + 1] = gap
        /\ \A i \in 1..M : l[N + 1 + i] = d[i]
    BY <1>2, <2>1, <2>2, JoinAt
  <2>4. gap.word = Blank
    BY GapIs
  <2>5. ASSUME NEW i \in 1..(N + 1 + M), l[i].word # Blank
        PROVE  l[i].size = Size[l[i].word]
    <3>1. CASE i \in 1..N
      BY <2>1, <2>3, <2>5, <3>1 DEF Uncut
    <3>2. CASE i \notin 1..N
      <4>1. i # N + 1
        BY <2>3, <2>4, <2>5
      <4>2. PICK j \in 1..M : i = N + 1 + j
        <5>1. i - (N + 1) \in 1..M /\ i = N + 1 + (i - (N + 1))
          BY <3>2, <4>1
        <5> QED
          BY <5>1
      <4> QED
        BY <2>1, <2>3, <2>5, <4>2 DEF Uncut
    <3> QED
      BY <3>1, <3>2
  <2> QED
    BY <2>2, <2>3, <2>5 DEF Uncut
<1> QED
  BY <1>1, <1>2

(* What ends with a word shorter than the overlap, after a space.                *)
Closes(d, overlap) ==
    /\ Len(d) >= 1 /\ d[Len(d)].size < overlap
    /\ Len(d) >= 2 => d[Len(d) - 1] = Space

LEMMA JoinCloses ==
    ASSUME NEW c \in Seq(Piece), NEW d \in Seq(Piece), NEW gap \in {Space, Break}, NEW overlap \in Nat,
           Closes(d, overlap), gap = Space \/ Len(d) >= 2
    PROVE  Closes(Join(c, gap, d), overlap)
<1>1. CASE c = <<>>
  BY <1>1 DEF Join
<1>2. CASE c # <<>>
  <2>1. PICK N \in Nat, M \in Nat : N = Len(c) /\ M = Len(d)
    BY LenProperties
  <2>2. PICK l : l = Join(c, gap, d)
    OBVIOUS
  <2>3. Len(l) = N + 1 + M /\ l[N + 1] = gap /\ \A i \in 1..M : l[N + 1 + i] = d[i]
    BY <1>2, <2>1, <2>2, JoinAt, SMTT(30)
  <2>4. M >= 1 /\ d[M].size < overlap /\ (M >= 2 => d[M - 1] = Space) /\ (gap = Space \/ M >= 2)
    BY <2>1 DEF Closes
  <2>5. l[N + 1 + M] = d[M]
    BY <2>3, <2>4
  <2>6. l[(N + 1 + M) - 1] = Space
    <3>1. CASE M = 1
      <4>1. (N + 1 + M) - 1 = N + 1
        BY <3>1
      <4> QED
        BY <2>3, <2>4, <3>1, <4>1
    <3>2. CASE M # 1
      <4>1. M >= 2 /\ (N + 1 + M) - 1 = N + 1 + (M - 1) /\ M - 1 \in 1..M
        BY <2>4, <3>2
      <4> QED
        BY <2>3, <2>4, <4>1
    <3> QED
      BY <3>1, <3>2
  <2>7. N + 1 + M >= 1
    OBVIOUS
  <2> QED
    BY <2>2, <2>3, <2>4, <2>5, <2>6, <2>7 DEF Closes
<1> QED
  BY <1>1, <1>2

LEMMA ClosedIsAligned ==
    ASSUME NEW d \in Seq(Piece), NEW overlap \in Nat, Closes(d, overlap)
    PROVE  Aligned(d, overlap)
<1>1. PICK M \in Nat : M = Len(d) /\ M >= 1
  BY LenProperties DEF Closes
<1>2. CASE M = 1
  <2>1. 1 \in 1..Len(d) /\ 1 - 1 = 0
    BY <1>1
  <2>2. Bytes(d) = Sums(d)[1] /\ Sums(d)[1] = Sums(d)[1 - 1] + d[1].size /\ Sums(d)[0] = 0
    BY <1>1, <1>2, <2>1, SumsAre
  <2>3. d[1].size \in Nat
    <3>1. d[1] \in Piece
      BY <2>1, ElementOfSeq
    <3> QED
      BY <3>1 DEF Piece
  <2>4. d[1].size < overlap
    BY <1>1, <1>2 DEF Closes
  <2>5. Bytes(d) <= overlap
    BY <2>1, <2>2, <2>3, <2>4
  <2> QED
    BY <2>5 DEF Aligned
<1>3. CASE M # 1
  <2>1. M >= 2
    BY <1>1, <1>3
  <2> QED
    BY <1>1, <2>1 DEF Closes, Aligned
<1> QED
  BY <1>2, <1>3

(* The settings, the limit on the size of chunks, and whether chunks are to be    *)
(* uncut and to bring more each.                                             *)
Aim == {q \in [target : Nat, overlap : Nat, limit : Nat, whole : BOOLEAN, more : BOOLEAN] :
           q.target <= q.limit /\ q.overlap <= q.limit}

LEMMA AimIs ==
    ASSUME NEW q \in Aim
    PROVE  /\ q.target \in Nat /\ q.overlap \in Nat /\ q.limit \in Nat
           /\ q.whole \in BOOLEAN /\ q.more \in BOOLEAN
           /\ q.target <= q.limit /\ q.overlap <= q.limit
BY DEF Aim

(* Pieces within the limit, and uncut where that is asked for.                   *)
Neat(c, q) == Bytes(c) <= q.limit /\ (q.whole => Uncut(c))
Sized(st, q) ==
    /\ \A i \in 1..Len(st.chunks) : Neat(st.chunks[i], q)
    /\ Neat(st.cur, q) /\ (q.whole => Aligned(st.cur, q.overlap))

(* A part that can be added after such a gap.                                   *)
Part(d, gap, q) ==
    /\ WordsIn(d) # <<>> /\ q.overlap + gap.size + Bytes(d) <= q.limit
    /\ q.whole => Uncut(d) /\ Closes(d, q.overlap) /\ (gap = Space \/ Len(d) >= 2)

LEMMA FlushSized ==
    ASSUME NEW st \in State, NEW q \in Aim, Sized(st, q)
    PROVE  Sized(Flushed(st, q.overlap), q) /\ Bytes(Flushed(st, q.overlap).cur) <= q.overlap
<1>1. PICK cs \in Seq(Seq(Piece)), c \in Seq(Piece) : cs = st.chunks /\ c = st.cur
  BY DEF State
<1>2. PICK d \in Seq(Piece) : d = Carried(c, q.overlap)
  BY CarriedIs, AimIs
<1>3. Bytes(d) <= q.overlap /\ (Uncut(c) /\ Aligned(c, q.overlap) => Uncut(d)) /\ Bytes(d) \in Nat
  BY <1>2, CarriedHas, SumsAre, AimIs
<1>4. PICK f : f = Flushed(st, q.overlap) /\ f.chunks = Append(cs, c) /\ f.cur = d
  <2>1. Flushed(st, q.overlap).chunks = Append(st.chunks, st.cur)
        /\ Flushed(st, q.overlap).cur = Carried(st.cur, q.overlap)
    BY DEF Flushed
  <2> QED
    BY <1>1, <1>2, <2>1
<1>5. /\ Len(f.chunks) = Len(cs) + 1 /\ (\A i \in 1..Len(cs) : f.chunks[i] = cs[i])
      /\ f.chunks[Len(cs) + 1] = c
  BY <1>4, AppendProperties
<1>6. ASSUME NEW i \in 1..Len(f.chunks)
      PROVE  Neat(f.chunks[i], q)
  <2>1. i \in 1..Len(cs) \/ i = Len(cs) + 1
    BY <1>5, LenProperties
  <2> QED
    BY <1>1, <1>5, <2>1 DEF Sized
<1>7. Neat(d, q) /\ Aligned(d, q.overlap)
  <2>1. Bytes(d) <= q.limit
    BY <1>3, AimIs
  <2> QED
    BY <1>1, <1>3, <2>1 DEF Sized, Neat, Aligned
<1> QED
  BY <1>3, <1>4, <1>6, <1>7 DEF Sized

LEMMA CurWith ==
    ASSUME NEW st \in State, NEW cur
    PROVE  [st EXCEPT !.cur = cur].chunks = st.chunks /\ [st EXCEPT !.cur = cur].cur = cur
<1> DEFINE D == Seq(Piece)
           E == Seq(Seq(Piece))
<1>1. State = [chunks : E, cur : D]
  BY DEF State
<1> HIDE DEF D, E
<1> QED
  BY <1>1

LEMMA JoinSized ==
    ASSUME NEW st \in State, NEW d \in Seq(Piece), NEW gap \in {Space, Break}, NEW q \in Aim,
           Sized(st, q), Part(d, gap, q),
           st.cur = <<>> \/ Bytes(st.cur) + gap.size + Bytes(d) <= q.limit
    PROVE  Sized([st EXCEPT !.cur = Join(st.cur, gap, d)], q)
<1>1. PICK c \in Seq(Piece) : c = st.cur
  BY DEF State
<1>2. PICK e \in Seq(Piece) : e = Join(c, gap, d)
  BY JoinHas
<1>3. PICK f : f = [st EXCEPT !.cur = Join(st.cur, gap, d)] /\ f.chunks = st.chunks /\ f.cur = e
  <2>1. [st EXCEPT !.cur = e].chunks = st.chunks /\ [st EXCEPT !.cur = e].cur = e
    BY CurWith
  <2>2. e = Join(st.cur, gap, d)
    BY <1>1, <1>2
  <2> QED
    BY <2>1, <2>2, Zenon
<1>4. Bytes(e) <= q.limit
  <2>1. /\ gap.size \in Nat /\ Bytes(d) \in Nat /\ Bytes(c) \in Nat
        /\ q.overlap \in Nat /\ q.limit \in Nat
    BY GapIs, SumsAre, AimIs
  <2>2. q.overlap + gap.size + Bytes(d) <= q.limit
    BY DEF Part
  <2>3. CASE c = <<>>
    <3>1. Bytes(e) = Bytes(d)
      <4>1. Join(c, gap, d) = d
        BY <2>3 DEF Join
      <4> QED
        BY <1>2, <4>1
    <3> QED
      BY <2>1, <2>2, <3>1
  <2>4. CASE c # <<>>
    <3>1. Bytes(e) = Bytes(c) + gap.size + Bytes(d)
      BY <1>2, <2>4, JoinHas
    <3>2. Bytes(c) + gap.size + Bytes(d) <= q.limit
      BY <1>1, <2>4
    <3> QED
      BY <3>1, <3>2
  <2> QED
    BY <2>3, <2>4
<1>5. ASSUME q.whole
      PROVE  Uncut(e) /\ Aligned(e, q.overlap)
  <2>1. Uncut(d) /\ Closes(d, q.overlap) /\ (gap = Space \/ Len(d) >= 2) /\ Uncut(c)
    BY <1>1, <1>5 DEF Part, Sized, Neat
  <2> QED
    BY <1>2, <2>1, AimIs, JoinUncut, JoinCloses, ClosedIsAligned
<1> QED
  BY <1>3, <1>4, <1>5 DEF Sized, Neat

-----------------------------------------------------------------------------
(* Sentences and paragraphs as parts                                         *)

LEMMA SentenceAt ==
    ASSUME NEW s \in Sentence
    PROVE  /\ SentenceOf(s) \in Seq(Piece)
           /\ Len(SentenceOf(s)) \in Nat /\ Len(SentenceOf(s)) >= 1 /\ Len(SentenceOf(s)) % 2 = 1
           /\ \A i \in 1..Len(SentenceOf(s)) :
                 IF i % 2 = 0 THEN SentenceOf(s)[i] = Space
                 ELSE /\ SentenceOf(s)[i].word \in Words
                      /\ SentenceOf(s)[i].size = Size[SentenceOf(s)[i].word]
<1> DEFINE l == [i \in 1..(2 * Len(s) - 1) |-> IF i % 2 = 0 THEN Space
                     ELSE [Token(s[(i + 1) \div 2]) EXCEPT !.stop = (i = 2 * Len(s) - 1)]]
<1>1. s \in Seq(Words) /\ s # <<>>
  BY DEF Sentence
<1>2. PICK N \in Nat : N = Len(s) /\ N > 0 /\ \A n \in 1..N : s[n] \in Words
  BY <1>1, EmptySeq, LenProperties, ElementOfSeq
<1>3. PICK M \in Nat : M = 2 * N - 1 /\ M >= 1 /\ M % 2 = 1
  <2>1. 2 * N - 1 \in Nat /\ 2 * N - 1 >= 1 /\ (2 * N - 1) % 2 = 1
    BY <1>2
  <2> QED
    BY <2>1
<1>4. SentenceOf(s) = l
  BY DEF SentenceOf
<1>5. ASSUME NEW i \in 1..M
      PROVE  IF i % 2 = 0 THEN l[i] = Space ELSE l[i].word \in Words /\ l[i].size = Size[l[i].word]
  <2>1. CASE i % 2 = 0
    BY <1>2, <1>3, <2>1
  <2>2. CASE i % 2 # 0
    <3>1. s[(i + 1) \div 2] \in Words
      <4>1. (i + 1) \div 2 \in 1..N
        BY <1>3, <2>2
      <4> QED
        BY <1>2, <4>1
    <3>2. l[i] = [Token(s[(i + 1) \div 2]) EXCEPT !.stop = (i = 2 * Len(s) - 1)]
      BY <1>2, <1>3, <2>2
    <3> DEFINE w == s[(i + 1) \div 2]
    <3>3. l[i].word = w /\ l[i].size = Size[w]
      <4> HIDE DEF l, w
      <4> QED
        BY <3>2 DEF Token, w
    <3> HIDE DEF l
    <3> QED
      BY <2>2, <3>1, <3>3
  <2> QED
    BY <2>1, <2>2
<1>6. SentenceOf(s) \in Seq(Piece)
  BY SentenceIs
<1>7. Len(l) = M
  BY <1>2, <1>3
<1> HIDE DEF l
<1> QED
  BY <1>3, <1>4, <1>5, <1>6, <1>7

LEMMA LastWord ==
    ASSUME NEW c \in Seq(Piece), Len(c) >= 1, c[Len(c)].word # Blank
    PROVE  c[Len(c)].word \in Range(WordsIn(c)) /\ WordsIn(c) # <<>>
<1>1. PICK N \in Nat : N = Len(c) /\ N >= 1
  BY LenProperties
<1>2. PICK k \in Piece : k = c[N]
  BY <1>1, ElementOfSeq
<1>3. k.word \in Words
  BY <1>1, <1>2 DEF Piece
<1>4. N \in 1..Len(c) /\ N - 1 \in 0..Len(c)
  BY <1>1
<1>5. PICK v \in Seq(Words) : v = Reads(c)[N - 1]
  BY <1>4, ReadsAre
<1>6. WordsIn(c) = Append(v, k.word)
  <2>1. WordsIn(c) = Reads(c)[N] /\ Reads(c)[N] = Read(Reads(c)[N - 1], c[N])
    BY <1>1, <1>4, ReadsAre
  <2> QED
    BY <1>1, <1>2, <1>5, <2>1 DEF Read
<1>7. PICK w \in Seq(Words) : w = Append(v, k.word)
  BY <1>3, AppendProperties
<1>8. Len(w) = Len(v) + 1 /\ w[Len(v) + 1] = k.word /\ Len(v) \in Nat
  BY <1>3, <1>7, AppendProperties, LenProperties
<1>9. Len(v) + 1 \in DOMAIN w
  BY <1>8, LenProperties
<1>10. k.word \in Range(w)
  BY <1>8, <1>9 DEF Range
<1>11. w # <<>>
  BY <1>8, EmptySeq
<1> QED
  BY <1>1, <1>2, <1>6, <1>7, <1>10, <1>11

(* Words that are parts of one text.                                          *)
LEMMA RangesJoin ==
    ASSUME NEW T, NEW v \in Seq(T), NEW w \in Seq(T)
    PROVE  Range(v \o w) = Range(v) \cup Range(w) /\ (w # <<>> => v \o w # <<>>)
<1>1. PICK N \in Nat, M \in Nat : N = Len(v) /\ M = Len(w) /\ DOMAIN v = 1..N /\ DOMAIN w = 1..M
  BY LenProperties
<1>2. PICK l \in Seq(T) : l = v \o w
  BY ConcatProperties
<1>3. Len(l) = N + M /\ \A i \in 1..(N + M) : l[i] = IF i <= N THEN v[i] ELSE w[i - N]
  BY <1>1, <1>2, ConcatProperties
<1>4. DOMAIN l = 1..(N + M)
  BY <1>3, LenProperties
<1>5. ASSUME NEW i \in 1..(N + M)
      PROVE  l[i] \in Range(v) \cup Range(w)
  <2>1. CASE i <= N
    <3>1. i \in 1..N
      BY <2>1
    <3> QED
      BY <1>1, <1>3, <2>1, <3>1 DEF Range
  <2>2. CASE ~(i <= N)
    <3>1. i - N \in 1..M
      BY <2>2
    <3> QED
      BY <1>1, <1>3, <2>2, <3>1 DEF Range
  <2> QED
    BY <2>1, <2>2
<1>6. ASSUME NEW i \in 1..N
      PROVE  v[i] \in Range(l)
  <2>1. i \in 1..(N + M) /\ i <= N
    OBVIOUS
  <2> QED
    BY <1>3, <1>4, <2>1 DEF Range
<1>7. ASSUME NEW i \in 1..M
      PROVE  w[i] \in Range(l)
  <2>1. N + i \in 1..(N + M) /\ ~(N + i <= N) /\ (N + i) - N = i
    OBVIOUS
  <2>2. l[N + i] = w[i]
    BY <1>3, <2>1
  <2> QED
    BY <1>4, <2>1, <2>2 DEF Range
<1>8. Range(l) = Range(v) \cup Range(w)
  BY <1>1, <1>4, <1>5, <1>6, <1>7 DEF Range
<1>9. w # <<>> => l # <<>>
  <2>1. w # <<>> => M > 0
    BY <1>1, EmptySeq
  <2>2. l = <<>> => N + M = 0
    BY <1>3, EmptySeq
  <2> QED
    BY <2>1, <2>2
<1> QED
  BY <1>2, <1>8, <1>9

LEMMA SentenceHas ==
    ASSUME NEW s \in Sentence
    PROVE  /\ SentenceOf(s) \in Seq(Piece) /\ Uncut(SentenceOf(s)) /\ WordsIn(SentenceOf(s)) # <<>>
           /\ \A overlap \in Nat : (\A w \in Range(WordsIn(SentenceOf(s))) : Size[w] < overlap) =>
                 Closes(SentenceOf(s), overlap)
<1>1. PICK c \in Seq(Piece) : c = SentenceOf(s)
  BY SentenceAt
<1>2. /\ Len(c) \in Nat /\ Len(c) >= 1 /\ Len(c) % 2 = 1
      /\ \A i \in 1..Len(c) : IF i % 2 = 0 THEN c[i] = Space
                              ELSE c[i].word \in Words /\ c[i].size = Size[c[i].word]
  BY <1>1, SentenceAt
<1>3. Uncut(c)
  <2>1. Space.word = Blank
    BY DEF Space, Gap
  <2> QED
    BY <1>2, <2>1 DEF Uncut
<1>4. /\ c[Len(c)].word # Blank /\ c[Len(c)].size = Size[c[Len(c)].word]
      /\ Len(c) >= 2 => c[Len(c) - 1] = Space
  <2>1. Len(c) \in 1..Len(c) /\ (Len(c) >= 2 => Len(c) - 1 \in 1..Len(c) /\ (Len(c) - 1) % 2 = 0)
    BY <1>2
  <2>2. c[Len(c)].word \in Words /\ c[Len(c)].size = Size[c[Len(c)].word]
    BY <1>2, <2>1
  <2>3. Len(c) >= 2 => c[Len(c) - 1] = Space
    BY <1>2, <2>1
  <2> QED
    BY <2>2, <2>3, ChunkingAssumption
<1>5. c[Len(c)].word \in Range(WordsIn(c)) /\ WordsIn(c) # <<>>
  BY <1>2, <1>4, LastWord
<1>6. ASSUME NEW overlap \in Nat, \A w \in Range(WordsIn(c)) : Size[w] < overlap
      PROVE  Closes(c, overlap)
  BY <1>2, <1>4, <1>5, <1>6 DEF Closes
<1> QED
  BY <1>1, <1>3, <1>5, <1>6

(* The first sentences of a paragraph.                                        *)
LEMMA JoinsHave ==
    ASSUME NEW p \in Seq(Sentence), NEW n \in 1..Len(p)
    PROVE  /\ Joins(p)[n] \in Seq(Piece) /\ Joins(p)[n - 1] \in Seq(Piece) /\ p[n] \in Sentence
           /\ WordsIn(Joins(p)[n]) = WordsIn(Joins(p)[n - 1]) \o WordsIn(SentenceOf(p[n]))
           /\ WordsIn(Joins(p)[n]) # <<>>
           /\ Uncut(Joins(p)[n - 1]) => Uncut(Joins(p)[n])
           /\ \A overlap \in Nat : Closes(SentenceOf(p[n]), overlap) => Closes(Joins(p)[n], overlap)
<1>1. n \in 0..Len(p) /\ n - 1 \in 0..Len(p)
  BY LenProperties
<1>2. PICK c \in Seq(Piece) : c = Joins(p)[n - 1]
  BY <1>1, JoinsAre
<1>3. p[n] \in Sentence
  BY ElementOfSeq
<1>4. PICK d \in Seq(Piece) : d = SentenceOf(p[n]) /\ Uncut(d) /\ WordsIn(d) # <<>>
  BY <1>3, SentenceHas
<1>5. PICK e \in Seq(Piece) : e = Joins(p)[n] /\ e = Join(c, Space, d)
  BY <1>1, <1>2, <1>4, JoinsAre
<1>6. WordsIn(e) = WordsIn(c) \o WordsIn(d)
  <2>1. WordsIn(Join(c, Space, d)) = WordsIn(c) \o WordsIn(d)
    BY JoinHas
  <2> QED
    BY <1>5, <2>1
<1>7. WordsIn(e) # <<>>
  BY <1>4, <1>6, WordsAre, RangesJoin
<1>8. Uncut(c) => Uncut(e)
  BY <1>4, <1>5, JoinUncut
<1>9. ASSUME NEW overlap \in Nat, Closes(d, overlap)
      PROVE  Closes(e, overlap)
  BY <1>5, <1>9, JoinCloses
<1> QED
  BY <1>2, <1>3, <1>4, <1>5, <1>6, <1>7, <1>8, <1>9

LEMMA FewWords ==
    ASSUME NEW c \in Seq(Piece), Len(WordsIn(c)) > 1
    PROVE  Len(c) >= 2
<1>1. PICK N \in Nat : N = Len(c)
  BY LenProperties
<1>2. CASE N = 0
  <2>1. WordsIn(c) = Reads(c)[0] /\ Reads(c)[0] = <<>>
    BY <1>1, <1>2, ReadsAre
  <2>2. Len(<<>>) = 0
    OBVIOUS
  <2> QED
    BY <2>1, <2>2
<1>3. CASE N = 1
  <2>1. 1 \in 1..Len(c) /\ 1 - 1 = 0
    BY <1>1, <1>3
  <2>2. WordsIn(c) = Read(<<>>, c[1])
    <3>1. WordsIn(c) = Reads(c)[1] /\ Reads(c)[1] = Read(Reads(c)[1 - 1], c[1]) /\ Reads(c)[0] = <<>>
      BY <1>1, <1>3, <2>1, ReadsAre
    <3> QED
      BY <2>1, <3>1
  <2>3. Len(Append(<<>>, c[1].word)) = 1 /\ Len(<<>>) = 0
    OBVIOUS
  <2>4. Len(Read(<<>>, c[1])) <= 1
    BY <2>3 DEF Read
  <2> QED
    BY <2>2, <2>4
<1> QED
  BY <1>1, <1>2, <1>3

LEMMA ParagraphHas ==
    ASSUME NEW p \in Seq(Sentence), p # <<>>
    PROVE  /\ WordsIn(ParagraphOf(p)) # <<>> /\ Uncut(ParagraphOf(p))
           /\ \A i \in 1..Len(p) : Range(WordsIn(SentenceOf(p[i]))) \subseteq Range(WordsIn(ParagraphOf(p)))
           /\ \A overlap \in Nat : (\A w \in Range(WordsIn(ParagraphOf(p))) : Size[w] < overlap) =>
                 Closes(ParagraphOf(p), overlap)
           /\ Len(WordsIn(ParagraphOf(p))) > 1 => Len(ParagraphOf(p)) >= 2
<1>1. PICK N \in Nat : N = Len(p) /\ N >= 1 /\ N \in 1..Len(p)
  <2>1. Len(p) \in Nat /\ Len(p) # 0
    BY EmptySeq, LenProperties
  <2> QED
    BY <2>1
<1>2. PICK c \in Seq(Piece) : c = ParagraphOf(p) /\ c = Joins(p)[N]
  BY <1>1, ParagraphIs, JoinsAre
<1> DEFINE Has(n) == /\ Uncut(Joins(p)[n])
                     /\ \A i \in 1..n : Range(WordsIn(SentenceOf(p[i]))) \subseteq Range(WordsIn(Joins(p)[n]))
           S == {n \in 0..N : Has(n)}
<1>3. 0 \in S
  <2>1. Joins(p)[0] = <<>>
    BY JoinsAre
  <2>2. Uncut(<<>>)
    BY DEF Uncut
  <2> QED
    BY <1>1, <2>1, <2>2
<1>4. ASSUME NEW n \in 0..(N - 1), n \in S
      PROVE  n + 1 \in S
  <2>1. n + 1 \in 1..Len(p) /\ (n + 1) - 1 = n /\ n + 1 \in 0..N
    BY <1>1
  <2>2. PICK u \in Seq(Words), v \in Seq(Words) : u = WordsIn(Joins(p)[n]) /\ v = WordsIn(SentenceOf(p[n + 1]))
    <3>1. Joins(p)[n] \in Seq(Piece) /\ p[n + 1] \in Sentence
      BY <2>1, JoinsHave
    <3>2. SentenceOf(p[n + 1]) \in Seq(Piece)
      BY <3>1, SentenceIs
    <3> QED
      BY <3>1, <3>2, WordsAre
  <2>3. WordsIn(Joins(p)[n + 1]) = u \o v /\ (Uncut(Joins(p)[n]) => Uncut(Joins(p)[n + 1]))
    BY <2>1, <2>2, JoinsHave
  <2>4. Range(u \o v) = Range(u) \cup Range(v)
    BY RangesJoin
  <2>5. ASSUME NEW i \in 1..(n + 1)
        PROVE  Range(WordsIn(SentenceOf(p[i]))) \subseteq Range(u \o v)
    <3>1. i \in 1..n \/ i = n + 1
      OBVIOUS
    <3> QED
      BY <1>4, <2>2, <2>4, <3>1
  <2> QED
    BY <1>4, <2>1, <2>3, <2>5
<1> HIDE DEF Has
<1>5. Has(N)
  <2> HIDE DEF S
  <2>1. \A n \in 0..N : n \in S
    BY <1>3, <1>4, Induction
  <2>2. N \in 0..N
    OBVIOUS
  <2> QED
    BY <2>1, <2>2 DEF S
<1>6. WordsIn(c) # <<>> /\ \A overlap \in Nat : Closes(SentenceOf(p[N]), overlap) => Closes(c, overlap)
  BY <1>1, <1>2, JoinsHave
<1>7. Uncut(c) /\ \A i \in 1..N : Range(WordsIn(SentenceOf(p[i]))) \subseteq Range(WordsIn(c))
  BY <1>2, <1>5 DEF Has
<1>8. ASSUME NEW overlap \in Nat, \A w \in Range(WordsIn(c)) : Size[w] < overlap
      PROVE  Closes(c, overlap)
  <2>1. \A w \in Range(WordsIn(SentenceOf(p[N]))) : Size[w] < overlap
    BY <1>1, <1>7, <1>8
  <2>2. p[N] \in Sentence
    BY <1>1, JoinsHave
  <2>3. Closes(SentenceOf(p[N]), overlap)
    BY <2>1, <2>2, SentenceHas
  <2> QED
    BY <1>6, <2>3
<1>9. Len(WordsIn(c)) > 1 => Len(c) >= 2
  BY FewWords
<1> QED
  BY <1>1, <1>2, <1>6, <1>7, <1>8, <1>9

-----------------------------------------------------------------------------
(* The longest sentence                                                      *)

LEMMA FiniteRange ==
    ASSUME NEW f, IsFiniteSet(DOMAIN f), f = [i \in DOMAIN f |-> f[i]]
    PROVE  IsFiniteSet(Range(f))
<1>1. f \in [DOMAIN f -> Range(f)] /\ \A y \in Range(f) : \E i \in DOMAIN f : f[i] = y
  BY DEF Range
<1>2. f \in Surjection(DOMAIN f, Range(f))
  BY <1>1 DEF Surjection
<1> QED
  BY <1>2, FS_Surjection

LEMMA FiniteSeq ==
    ASSUME NEW T, NEW v \in Seq(T)
    PROVE  IsFiniteSet(Range(v))
<1>1. Len(v) \in Nat /\ DOMAIN v = 1..Len(v) /\ v = [i \in DOMAIN v |-> v[i]]
  BY LenProperties
<1>2. IsFiniteSet(DOMAIN v)
  <2>1. 1 \in Int /\ Len(v) \in Int
    BY <1>1
  <2>2. IsFiniteSet(1..Len(v))
    BY <2>1, FS_Interval
  <2> QED
    BY <1>1, <2>2
<1> QED
  BY <1>1, <1>2, FiniteRange

LEMMA MaxIs ==
    ASSUME NEW T, IsFiniteSet(T), T \subseteq Nat, T # {}
    PROVE  Max(T) \in T /\ \A m \in T : m <= Max(T)
<1> DEFINE Above(n) == {m \in T : m > n}
           above == {Above(n) : n \in T}
<1>1. above # {} /\ above \subseteq FiniteSubsetsOf(T)
  <2>1. ASSUME NEW n \in T
        PROVE  Above(n) \in FiniteSubsetsOf(T)
    <3>1. Above(n) \subseteq T
      OBVIOUS
    <3>2. IsFiniteSet(Above(n))
      BY <3>1, FS_Subset
    <3> QED
      BY <3>1, <3>2 DEF FiniteSubsetsOf
  <2> QED
    BY <2>1
<1>2. IsWellFoundedOn(StrictSubsetOrdering(T), FiniteSubsetsOf(T))
  BY FS_StrictSubsetOrderingWellFounded
<1>3. \E x \in above : \A y \in above : <<y, x>> \notin StrictSubsetOrdering(T)
  <2> HIDE DEF above
  <2> QED
    BY <1>1, <1>2, WFMin
<1>4. PICK n \in T : \A y \in above : <<y, Above(n)>> \notin StrictSubsetOrdering(T)
  BY <1>3
<1>5. ASSUME NEW m \in T, m > n
      PROVE  FALSE
  <2>1. m \in Nat /\ n \in Nat
    OBVIOUS
  <2>2. Above(m) \in above /\ m \in Above(n) /\ m \notin Above(m)
    BY <1>5, <2>1
  <2>3. Above(m) \subseteq Above(n) /\ Above(n) \subseteq T
    <3>1. \A k \in T : k \in Nat
      OBVIOUS
    <3>2. \A k \in T : k > m => k > n
      BY <1>5, <2>1, <3>1
    <3> QED
      BY <3>2
  <2> HIDE DEF Above, above
  <2>4. <<Above(m), Above(n)>> \in StrictSubsetOrdering(T)
    BY <2>2, <2>3 DEF StrictSubsetOrdering
  <2> QED
    BY <1>4, <2>2, <2>4
<1>6. \A m \in T : n >= m
  BY <1>5
<1>7. Max(T) \in T /\ \A m \in T : Max(T) >= m
  BY <1>6 DEF Max
<1> QED
  BY <1>7

LEMMA MaxOfTwo ==
    ASSUME NEW m \in Nat, NEW n \in Nat
    PROVE  Max({m, n}) \in Nat /\ m <= Max({m, n}) /\ n <= Max({m, n})
<1>1. PICK k \in {m, n} : \A j \in {m, n} : k >= j
  <2>1. m >= n \/ n >= m
    OBVIOUS
  <2> QED
    BY <2>1
<1>2. Max({m, n}) \in {m, n} /\ \A j \in {m, n} : Max({m, n}) >= j
  BY <1>1 DEF Max
<1> QED
  BY <1>2

LEMMA LongestIs ==
    ASSUME NEW x \in Seq(Seq(Sentence))
    PROVE  /\ Longest(x) \in Nat
           /\ \A i \in 1..Len(x) : \A j \in 1..Len(x[i]) : Bytes(SentenceOf(x[i][j])) <= Longest(x)
<1> DEFINE ss == UNION {Range(p) : p \in Range(x)}
           sizes == {Bytes(SentenceOf(s)) : s \in ss}
           f == [s \in ss |-> Bytes(SentenceOf(s))]
           paragraphs == {Range(p) : p \in Range(x)}
           g == [p \in Range(x) |-> Range(p)]
<1>1. \A p \in Range(x) : p \in Seq(Sentence)
  BY LenProperties, ElementOfSeq DEF Range
<1>2. IsFiniteSet(paragraphs)
  <2>1. IsFiniteSet(Range(x))
    BY FiniteSeq
  <2>2. DOMAIN g = Range(x) /\ g = [p \in DOMAIN g |-> g[p]] /\ Range(g) = paragraphs
    BY DEF Range
  <2> HIDE DEF g, paragraphs
  <2> QED
    BY <2>1, <2>2, FiniteRange
<1>3. IsFiniteSet(ss)
  <2>1. \A T \in paragraphs : IsFiniteSet(T)
    BY <1>1, FiniteSeq
  <2> HIDE DEF paragraphs
  <2> QED
    BY <1>2, <2>1, FS_UNION DEF paragraphs
<1>4. \A s \in ss : s \in Sentence
  <2>1. ASSUME NEW p \in Range(x), NEW s \in Range(p)
        PROVE  s \in Sentence
    BY <1>1, LenProperties, ElementOfSeq DEF Range
  <2> QED
    BY <2>1
<1>5. \A s \in ss : Bytes(SentenceOf(s)) \in Nat
  BY <1>4, SentenceIs, SumsAre
<1> HIDE DEF ss
<1>6. IsFiniteSet(sizes) /\ sizes \subseteq Nat
  <2>1. DOMAIN f = ss /\ f = [s \in DOMAIN f |-> f[s]] /\ Range(f) = sizes
    BY DEF Range
  <2>2. sizes \subseteq Nat
    BY <1>5
  <2> HIDE DEF f, sizes
  <2>3. IsFiniteSet(sizes)
    BY <1>3, <2>1, FiniteRange
  <2> QED
    BY <2>2, <2>3
<1> DEFINE T == {0} \cup sizes
<1>7. IsFiniteSet(T) /\ T \subseteq Nat /\ T # {}
  <2> HIDE DEF sizes
  <2>1. IsFiniteSet({0})
    BY FS_Singleton
  <2>2. IsFiniteSet({0} \cup sizes)
    BY <1>6, <2>1, FS_Union
  <2> QED
    BY <1>6, <2>2
<1>8. Longest(x) = Max(T)
  BY DEF Longest, ss
<1>9. Longest(x) \in Nat /\ \A m \in T : m <= Longest(x)
  <2> HIDE DEF T
  <2> QED
    BY <1>7, <1>8, MaxIs
<1>10. ASSUME NEW i \in 1..Len(x), NEW j \in 1..Len(x[i])
       PROVE  Bytes(SentenceOf(x[i][j])) \in T
  <2>1. x[i] \in Range(x) /\ x[i] \in Seq(Sentence)
    BY LenProperties, ElementOfSeq DEF Range
  <2>2. x[i][j] \in Range(x[i])
    BY <2>1, LenProperties DEF Range
  <2>3. x[i][j] \in ss
    BY <2>1, <2>2 DEF ss
  <2> QED
    BY <2>3
<1> QED
  BY <1>9, <1>10

-----------------------------------------------------------------------------
(* Adding sentences and paragraphs                                           *)

LEMMA PlacedIs ==
    ASSUME NEW cs, NEW c, NEW text, NEW more \in BOOLEAN
    PROVE  /\ Placed(cs, c, text, more, TRUE) => Placed(cs, c, text, more, FALSE)
           /\ ~more /\ Placed(cs, c, text, more, FALSE) => Placed(cs, c, text, more, TRUE)
BY DEF Placed

(* The text read so far is cut: before a sentence is added, and after it; and      *)
(* before a paragraph is added.                                               *)
Within(st, text, q) == Sized(st, q) /\ Placed(st.chunks, st.cur, text, q.more, FALSE)
Ends(st, text, q) == Placed(st.chunks, st.cur, text, q.more, TRUE)
Ready(st, text, q) == Within(st, text, q) /\ (Bytes(st.cur) > q.overlap => Ends(st, text, q))
Done(st, text, q) == Within(st, text, q) /\ Ends(st, text, q)

(* Where a part is added: there is room for it.                                 *)
Into(st, d, gap, q) == IF Fits(st, d, gap.size, q.target) THEN st ELSE Flushed(st, q.overlap)
Room(st, d, gap, q) ==
    st.cur = <<>> \/ Bytes(st.cur) <= q.overlap \/ Bytes(st.cur) + gap.size + Bytes(d) <= q.target

LEMMA IntoIs ==
    ASSUME NEW st \in State, NEW d \in Seq(Piece), NEW gap \in {Space, Break}, NEW q \in Aim,
           NEW text \in Seq(Words), Within(st, text, q),
           ~Fits(st, d, gap.size, q.target) => Ends(st, text, q)
    PROVE  /\ Into(st, d, gap, q) \in State /\ Within(Into(st, d, gap, q), text, q)
           /\ Room(Into(st, d, gap, q), d, gap, q)
<1>1. CASE Fits(st, d, gap.size, q.target)
  <2>1. Into(st, d, gap, q) = st
    BY <1>1 DEF Into
  <2>2. st.cur \in Seq(Piece)
    BY CurIs
  <2>3. Bytes(st.cur) \in Nat /\ Bytes(d) \in Nat /\ gap.size \in Nat
    BY <2>2, SumsAre, GapIs
  <2>4. st.cur = <<>> \/ Bytes(st.cur) + gap.size + Bytes(d) <= q.target
    BY <1>1, <2>3 DEF Fits
  <2> QED
    BY <2>1, <2>4 DEF Room
<1>2. CASE ~Fits(st, d, gap.size, q.target)
  <2>1. PICK into \in State : into = Flushed(st, q.overlap)
    BY FlushedIs, AimIs
  <2>2. Into(st, d, gap, q) = into
    BY <1>2, <2>1 DEF Into
  <2>3. Placed(st.chunks, st.cur, text, q.more, TRUE) /\ Sized(st, q)
    BY <1>2 DEF Ends, Within
  <2>4. Placed(into.chunks, into.cur, text, q.more, FALSE)
    BY <2>1, <2>3, FlushPlaced, AimIs
  <2>5. Sized(into, q) /\ Bytes(into.cur) <= q.overlap
    BY <2>1, <2>3, FlushSized
  <2> QED
    BY <2>2, <2>4, <2>5 DEF Within, Room
<1> QED
  BY <1>1, <1>2

With(st, d, gap) == [st EXCEPT !.cur = Join(@, gap, d)]

LEMMA PartAdded ==
    ASSUME NEW st \in State, NEW d \in Seq(Piece), NEW gap \in {Space, Break}, NEW q \in Aim,
           NEW text \in Seq(Words), Part(d, gap, q), Within(st, text, q), Room(st, d, gap, q)
    PROVE  With(st, d, gap) \in State /\ Done(With(st, d, gap), text \o WordsIn(d), q)
<1>1. PICK c \in Seq(Piece) : c = st.cur
  BY CurIs
<1>2. PICK cs \in Seq(Seq(Piece)) : cs = st.chunks
  BY DEF State
<1>3. PICK e \in Seq(Piece) : e = Join(c, gap, d)
  BY JoinHas
<1>4. PICK f : f = With(st, d, gap) /\ f = [st EXCEPT !.cur = e]
  BY <1>1, <1>3 DEF With
<1>5. f \in State
  BY <1>4, CurIs
<1>6. f.chunks = cs /\ f.cur = e
  <2>1. [st EXCEPT !.cur = e].chunks = st.chunks /\ [st EXCEPT !.cur = e].cur = e
    BY CurWith
  <2> QED
    BY <1>2, <1>4, <2>1, Zenon
<1>7. st.cur = <<>> \/ Bytes(st.cur) + gap.size + Bytes(d) <= q.limit
  <2>1. /\ Bytes(c) \in Nat /\ Bytes(d) \in Nat /\ gap.size \in Nat
        /\ q.target \in Nat /\ q.overlap \in Nat /\ q.limit \in Nat /\ q.target <= q.limit
    BY SumsAre, GapIs, AimIs
  <2>2. q.overlap + gap.size + Bytes(d) <= q.limit
    BY DEF Part
  <2>3. c = <<>> \/ Bytes(c) <= q.overlap \/ Bytes(c) + gap.size + Bytes(d) <= q.target
    BY <1>1 DEF Room
  <2>4. Bytes(c) <= q.overlap => Bytes(c) + gap.size + Bytes(d) <= q.limit
    BY <2>1, <2>2, SMTT(30)
  <2>5. Bytes(c) + gap.size + Bytes(d) <= q.target => Bytes(c) + gap.size + Bytes(d) <= q.limit
    BY <2>1, SMTT(30)
  <2> QED
    BY <1>1, <2>3, <2>4, <2>5, Zenon
<1>8. Sized(f, q)
  <2>1. Sized([st EXCEPT !.cur = Join(st.cur, gap, d)], q)
    BY <1>7, JoinSized DEF Within
  <2> QED
    BY <1>4, <2>1 DEF With
<1>9. Placed(cs, e, text \o WordsIn(d), q.more, TRUE)
  <2>1. WordsIn(d) # <<>>
    BY DEF Part
  <2>2. Placed(cs, c, text, q.more, FALSE)
    BY <1>1, <1>2 DEF Within
  <2>3. Placed(cs, Join(c, gap, d), text \o WordsIn(d), q.more, TRUE)
    BY <2>1, <2>2, JoinPlaced
  <2> QED
    BY <1>3, <2>3
<1>10. Placed(cs, e, text \o WordsIn(d), q.more, FALSE)
  BY <1>9, PlacedIs, AimIs
<1>11. Done(f, text \o WordsIn(d), q)
  BY <1>6, <1>8, <1>9, <1>10 DEF Done, Within, Ends
<1> QED
  BY <1>4, <1>5, <1>11

(* A sentence that the settings leave room for beside the overlap.                *)
Roomy(s, q) == q.more => Bytes(s) + 1 + q.overlap <= q.target

LEMMA SentenceAdded ==
    ASSUME NEW st \in State, NEW s \in Seq(Piece), NEW q \in Aim, NEW text \in Seq(Words),
           Part(s, Space, q), Roomy(s, q), Ready(st, text, q)
    PROVE  Done(AddSentence(s, q.target, q.overlap)[st], text \o WordsIn(s), q)
<1>1. PICK gap \in {Space, Break} : gap = Space /\ gap.size = 1
  <2>1. Space.size = 1
    BY DEF Space, Gap
  <2> QED
    BY <2>1
<1>2. Bytes(s) \in Nat /\ Bytes(st.cur) \in Nat
  BY CurIs, SumsAre
<1>3. Within(st, text, q)
  BY DEF Ready
<1>4. ASSUME ~Fits(st, s, gap.size, q.target)
      PROVE  Ends(st, text, q)
  <2>1. Bytes(st.cur) + Bytes(s) + 1 > q.target /\ q.target \in Nat /\ q.overlap \in Nat /\ q.more \in BOOLEAN
    BY <1>1, <1>2, <1>4, AimIs DEF Fits
  <2>2. CASE q.more
    <3>1. Bytes(st.cur) > q.overlap
      BY <1>2, <2>1, <2>2 DEF Roomy
    <3> QED
      BY <3>1 DEF Ready
  <2>3. CASE ~q.more
    BY <1>3, <2>1, <2>3, PlacedIs DEF Within, Ends
  <2> QED
    BY <2>2, <2>3
<1>5. PICK into \in State : into = Into(st, s, gap, q) /\ Within(into, text, q) /\ Room(into, s, gap, q)
  BY <1>3, <1>4, IntoIs
<1>6. AddSentence(s, q.target, q.overlap)[st] = With(into, s, gap)
  BY <1>1, <1>5 DEF AddSentence, Into, With
<1>7. Part(s, gap, q)
  BY <1>1
<1> QED
  BY <1>5, <1>6, <1>7, PartAdded

LEMMA BySentenceAt ==
    ASSUME NEW into \in State, NEW p \in Seq(Sentence), NEW target \in Nat, NEW overlap \in Nat,
           NEW i \in 1..Len(p)
    PROVE  BySentence(into, p, target, overlap)[i] =
              AddSentence(SentenceOf(p[i]), target, overlap)[BySentence(into, p, target, overlap)[i - 1]]
BY BySentenceIs

LEMMA SentencesAdded ==
    ASSUME NEW into \in State, NEW p \in Seq(Sentence), p # <<>>, NEW q \in Aim, NEW text \in Seq(Words),
           \A i \in 1..Len(p) : Part(SentenceOf(p[i]), Space, q) /\ Roomy(SentenceOf(p[i]), q),
           Ready(into, text, q)
    PROVE  Done(BySentence(into, p, q.target, q.overlap)[Len(p)], text \o WordsIn(ParagraphOf(p)), q)
<1> DEFINE B == BySentence(into, p, q.target, q.overlap)
           V(n) == text \o WordsIn(Joins(p)[n])
<1>1. PICK N \in Nat : N = Len(p) /\ N # 0
  BY EmptySeq, LenProperties
<1>2. /\ B[0] = into /\ \A n \in 0..N : B[n] \in State
      /\ \A n \in 1..N : B[n] = AddSentence(SentenceOf(p[n]), q.target, q.overlap)[B[n - 1]]
  <2>1. q.target \in Nat /\ q.overlap \in Nat
    BY AimIs
  <2>2. B[0] = into
    BY <2>1, BySentenceIs
  <2>3. \A n \in 0..Len(p) : B[n] \in State
    BY <2>1, BySentenceIs
  <2>4. ASSUME NEW n \in 1..Len(p)
        PROVE  B[n] = AddSentence(SentenceOf(p[n]), q.target, q.overlap)[B[n - 1]]
    BY <2>1, BySentenceAt
  <2> HIDE DEF B
  <2> QED
    BY <1>1, <2>2, <2>3, <2>4
<1> HIDE DEF B
<1> DEFINE S == {n \in 0..N : Ready(B[n], V(n), q) /\ (n = 0 \/ Done(B[n], V(n), q))}
<1>3. 0 \in S
  <2>1. Joins(p)[0] = <<>> /\ WordsIn(<<>>) = <<>>
    BY JoinsAre, NothingIs
  <2>2. text \o <<>> = text
    BY ConcatEmptySeq
  <2>3. V(0) = text
    BY <2>1, <2>2
  <2> HIDE DEF V
  <2> QED
    BY <1>2, <2>3
<1>4. ASSUME NEW n \in 0..(N - 1), n \in S
      PROVE  n + 1 \in S
  <2>1. n + 1 \in 1..Len(p) /\ (n + 1) - 1 = n /\ n + 1 \in 0..N /\ n \in 0..N /\ n + 1 \in 1..N
    BY <1>1
  <2>2. p[n + 1] \in Sentence
    BY <2>1, JoinsHave
  <2>3. PICK s \in Seq(Piece) : s = SentenceOf(p[n + 1])
    BY <2>2, SentenceIs
  <2>4. PICK st \in State : st = B[n]
    BY <1>2, <2>1
  <2>5. B[n + 1] = AddSentence(s, q.target, q.overlap)[st]
    BY <1>2, <2>1, <2>3, <2>4
  <2>6. PICK u \in Seq(Words), v \in Seq(Words) : u = WordsIn(Joins(p)[n]) /\ v = WordsIn(s)
    <3>1. Joins(p)[n] \in Seq(Piece)
      BY <2>1, JoinsHave
    <3> QED
      BY <3>1, WordsAre
  <2>7. V(n + 1) = (text \o u) \o v
    <3>1. WordsIn(Joins(p)[n + 1]) = u \o v
      BY <2>1, <2>3, <2>6, JoinsHave
    <3>2. (text \o u) \o v = text \o (u \o v)
      BY ConcatAssociative
    <3> QED
      BY <3>1, <3>2
  <2>8. PICK w \in Seq(Words) : w = text \o u
    BY ConcatProperties
  <2>9. Ready(st, w, q)
    BY <1>4, <2>4, <2>6, <2>8
  <2>10. Part(s, Space, q) /\ Roomy(s, q)
    BY <2>1, <2>3
  <2>11. V(n + 1) = w \o WordsIn(s)
    BY <2>6, <2>7, <2>8
  <2> HIDE DEF V
  <2>12. Done(B[n + 1], w \o WordsIn(s), q)
    BY <2>5, <2>9, <2>10, SentenceAdded
  <2>13. Done(B[n + 1], V(n + 1), q)
    BY <2>11, <2>12
  <2>14. Ready(B[n + 1], V(n + 1), q)
    BY <2>13 DEF Done, Ready
  <2> QED
    BY <2>1, <2>13, <2>14
<1> HIDE DEF S
<1>5. N \in S
  <2>1. \A n \in 0..N : n \in S
    BY <1>1, <1>3, <1>4, Induction
  <2> QED
    BY <1>1, <2>1
<1>6. Done(B[N], V(N), q)
  <2> HIDE DEF V
  <2> QED
    BY <1>1, <1>5 DEF S
<1>7. ParagraphOf(p) = Joins(p)[N]
  BY <1>1, JoinsAre
<1> QED
  BY <1>1, <1>6, <1>7 DEF B

LEMMA ParagraphAdded ==
    ASSUME NEW st \in State, NEW p \in Seq(Sentence), p # <<>>, NEW q \in Aim, NEW text \in Seq(Words),
           \A i \in 1..Len(p) : Part(SentenceOf(p[i]), Space, q) /\ Roomy(SentenceOf(p[i]), q),
           Bytes(ParagraphOf(p)) <= q.target => Part(ParagraphOf(p), Break, q),
           Within(st, text, q), st.cur # <<>> => Ends(st, text, q)
    PROVE  Done(AddParagraph(p, q.target, q.overlap)[st], text \o WordsIn(ParagraphOf(p)), q)
<1>1. PICK gap \in {Space, Break} : gap = Break /\ gap.size = 2
  <2>1. Break.size = 2
    BY DEF Break, Gap
  <2> QED
    BY <2>1
<1>2. PICK d \in Seq(Piece) : d = ParagraphOf(p)
  BY ParagraphIs
<1>3. ~Fits(st, d, gap.size, q.target) => Ends(st, text, q)
  BY DEF Fits
<1>4. PICK into \in State : into = Into(st, d, gap, q) /\ Within(into, text, q) /\ Room(into, d, gap, q)
  BY <1>3, IntoIs
<1>5. AddParagraph(p, q.target, q.overlap)[st] =
        IF Bytes(d) <= q.target THEN With(into, d, gap)
        ELSE BySentence(into, p, q.target, q.overlap)[Len(p)]
  BY <1>1, <1>2, <1>4 DEF AddParagraph, BySentence, Into, With
<1>6. CASE Bytes(d) <= q.target
  <2>1. Part(d, gap, q)
    BY <1>1, <1>2, <1>6
  <2>2. Done(With(into, d, gap), text \o WordsIn(d), q)
    BY <1>4, <2>1, PartAdded
  <2> QED
    BY <1>2, <1>5, <1>6, <2>2
<1>7. CASE ~(Bytes(d) <= q.target)
  <2>1. Bytes(d) \in Nat /\ Bytes(into.cur) \in Nat /\ q.target \in Nat /\ q.overlap \in Nat
    BY CurIs, SumsAre, AimIs
  <2>2. into.cur = <<>> => Bytes(into.cur) = 0
    BY NothingIs
  <2>3. ~(Bytes(into.cur) > q.overlap)
    BY <1>1, <1>4, <1>7, <2>1, <2>2 DEF Room
  <2>4. Ready(into, text, q)
    BY <1>4, <2>3 DEF Ready
  <2>5. Done(BySentence(into, p, q.target, q.overlap)[Len(p)], text \o WordsIn(ParagraphOf(p)), q)
    BY <2>4, SentencesAdded
  <2> QED
    BY <1>5, <1>7, <2>5
<1> QED
  BY <1>6, <1>7

-----------------------------------------------------------------------------
(* The whole document                                                        *)

(* The first paragraphs of it, and their length.                                *)
Wholes(x) == CHOOSE f : f = [i \in 0..Len(x) |->
    IF i = 0 THEN <<>> ELSE Join(f[i - 1], Break, ParagraphOf(x[i]))]
Lengths(x) == CHOOSE f : f = [i \in 0..Len(x) |->
    IF i = 0 THEN 0 ELSE f[i - 1] + 2 + Bytes(ParagraphOf(x[i]))]

LEMMA WholesAre ==
    ASSUME NEW x \in Seq(Seq(Sentence))
    PROVE  /\ Whole(x) = Wholes(x)[Len(x)] /\ Wholes(x)[0] = <<>>
           /\ \A i \in 0..Len(x) : Wholes(x)[i] \in Seq(Piece)
           /\ \A i \in 1..Len(x) : Wholes(x)[i] = Join(Wholes(x)[i - 1], Break, ParagraphOf(x[i]))
<1> DEFINE N == Len(x)
           D == Seq(Piece)
           Eq(f) == [i \in 0..Len(x) |->
               IF i = 0 THEN <<>> ELSE Join(f[i - 1], Break, ParagraphOf(x[i]))]
           step == [i \in 1..N |-> [c \in D |-> Join(c, Break, ParagraphOf(x[i]))]]
           f == Wholes(x)
<1>1. N \in Nat /\ N \in 0..N /\ \A i \in 1..N : x[i] \in Seq(Sentence)
  BY LenProperties, ElementOfSeq
<1>2. step \in Steps(N, D)
  <2>1. ASSUME NEW i \in 1..N, NEW c \in D
        PROVE  Join(c, Break, ParagraphOf(x[i])) \in D
    BY <1>1, ParagraphIs, JoinIs, GapsAre
  <2> HIDE DEF D
  <2> QED
    BY <2>1 DEF Steps
<1>3. <<>> \in D
  BY EmptySeq
<1>4. \E g : g = Eq(g)
  <2> HIDE DEF N, step, D
  <2>1. PICK g : Follows(g, N, D, <<>>, step)
    BY <1>1, <1>2, <1>3, RecursionExists
  <2>2. \A n \in 0..N : g[n] = IF n = 0 THEN <<>> ELSE Join(g[n - 1], Break, ParagraphOf(x[n]))
    <3>1. ASSUME NEW n \in 1..N
          PROVE  g[n] = Join(g[n - 1], Break, ParagraphOf(x[n]))
      <4>1. n - 1 \in 0..N /\ g[n - 1] \in D
        BY <1>1, <2>1 DEF Follows
      <4> QED
        BY <2>1, <4>1 DEF step, Follows
    <3> QED
      BY <1>1, <2>1, <3>1 DEF Follows
  <2>3. g = Eq(g)
    BY <2>1, <2>2 DEF N, Follows
  <2> HIDE DEF Eq
  <2> QED
    BY <2>3
<1>5. f = CHOOSE g : g = Eq(g)
  BY DEF Wholes
<1>6. f = Eq(f)
  <2> HIDE DEF Eq
  <2> QED
    BY <1>4, <1>5
<1> HIDE DEF f, D
<1>7. f[0] = <<>> /\ \A n \in 1..N : f[n] = Join(f[n - 1], Break, ParagraphOf(x[n]))
  <2>1. \A n \in 0..N : f[n] = IF n = 0 THEN <<>> ELSE Join(f[n - 1], Break, ParagraphOf(x[n]))
    BY <1>6
  <2> QED
    BY <1>1, <2>1
<1>8. \A n \in 1..N : f[n - 1] \in D => f[n] = step[n][f[n - 1]]
  BY <1>7
<1> HIDE DEF step, N
<1>9. f[0] \in D
  BY <1>3, <1>7
<1>10. \A n \in 0..N : f[n] \in D
  BY <1>1, <1>2, <1>8, <1>9, RecursionStays
<1>11. Whole(x) = f[N]
  BY DEF Whole, Wholes, f, N
<1> QED
  BY <1>7, <1>10, <1>11 DEF D, f, N

LEMMA LengthsAre ==
    ASSUME NEW x \in Seq(Seq(Sentence))
    PROVE  /\ Length(x) = Lengths(x)[Len(x)] - 2 /\ Lengths(x)[0] = 0
           /\ \A i \in 0..Len(x) : Lengths(x)[i] \in Nat
           /\ \A i \in 1..Len(x) : Lengths(x)[i] = Lengths(x)[i - 1] + 2 + Bytes(ParagraphOf(x[i]))
<1> DEFINE N == Len(x)
           Eq(f) == [i \in 0..Len(x) |->
               IF i = 0 THEN 0 ELSE f[i - 1] + 2 + Bytes(ParagraphOf(x[i]))]
           step == [i \in 1..N |-> [b \in Nat |-> b + 2 + Bytes(ParagraphOf(x[i]))]]
           f == Lengths(x)
<1>1. N \in Nat /\ N \in 0..N /\ \A i \in 1..N : Bytes(ParagraphOf(x[i])) \in Nat
  <2>1. \A i \in 1..N : x[i] \in Seq(Sentence)
    BY ElementOfSeq
  <2> QED
    BY <2>1, LenProperties, ParagraphIs, SumsAre
<1>2. step \in Steps(N, Nat)
  BY <1>1 DEF Steps
<1>3. \E g : g = Eq(g)
  <2> HIDE DEF N, step
  <2>1. 0 \in Nat /\ N \in Nat
    BY <1>1
  <2>2. PICK g : Follows(g, N, Nat, 0, step)
    BY <1>2, <2>1, RecursionExists
  <2>3. \A n \in 0..N : g[n] = IF n = 0 THEN 0 ELSE g[n - 1] + 2 + Bytes(ParagraphOf(x[n]))
    <3>1. ASSUME NEW n \in 1..N
          PROVE  g[n] = g[n - 1] + 2 + Bytes(ParagraphOf(x[n]))
      <4>1. n - 1 \in 0..N /\ g[n - 1] \in Nat
        BY <1>1, <2>2 DEF Follows
      <4> QED
        BY <2>2, <4>1 DEF step, Follows
    <3> QED
      BY <1>1, <2>2, <3>1 DEF Follows
  <2>4. g = Eq(g)
    BY <2>2, <2>3 DEF N, Follows
  <2> HIDE DEF Eq
  <2> QED
    BY <2>4
<1>4. f = CHOOSE g : g = Eq(g)
  BY DEF Lengths
<1>5. f = Eq(f)
  <2> HIDE DEF Eq
  <2> QED
    BY <1>3, <1>4
<1> HIDE DEF f
<1>6. f[0] = 0 /\ \A n \in 1..N : f[n] = f[n - 1] + 2 + Bytes(ParagraphOf(x[n]))
  <2>1. \A n \in 0..N : f[n] = IF n = 0 THEN 0 ELSE f[n - 1] + 2 + Bytes(ParagraphOf(x[n]))
    BY <1>5
  <2> QED
    BY <1>1, <2>1
<1>7. \A n \in 0..N : f[n] \in Nat
  <2>1. \A n \in 1..N : f[n - 1] \in Nat => f[n] = step[n][f[n - 1]]
    BY <1>6
  <2> HIDE DEF N, step
  <2>2. f[0] \in Nat
    BY <1>6
  <2> QED
    BY <1>1, <1>2, <2>1, <2>2, RecursionStays
<1>8. Length(x) = f[N] - 2
  BY DEF Length, Lengths, f
<1> QED
  BY <1>6, <1>7, <1>8 DEF f

(* One paragraph more; an empty one adds nothing to read.                        *)
LEMMA WholesHave ==
    ASSUME NEW x \in Seq(Seq(Sentence)), NEW n \in 1..Len(x)
    PROVE  /\ Wholes(x)[n] \in Seq(Piece) /\ Wholes(x)[n - 1] \in Seq(Piece) /\ x[n] \in Seq(Sentence)
           /\ WordsIn(Wholes(x)[n]) = WordsIn(Wholes(x)[n - 1]) \o WordsIn(ParagraphOf(x[n]))
           /\ x[n] = <<>> => WordsIn(Wholes(x)[n]) = WordsIn(Wholes(x)[n - 1])
           /\ Uncut(Wholes(x)[n - 1]) => Uncut(Wholes(x)[n])
           /\ Wholes(x)[n - 1] = <<>> => Bytes(Wholes(x)[n]) = Bytes(ParagraphOf(x[n]))
           /\ Bytes(Wholes(x)[n]) <= Bytes(Wholes(x)[n - 1]) + 2 + Bytes(ParagraphOf(x[n]))
<1>1. n \in 0..Len(x) /\ n - 1 \in 0..Len(x)
  BY LenProperties
<1>2. PICK c \in Seq(Piece) : c = Wholes(x)[n - 1]
  BY <1>1, WholesAre
<1>3. x[n] \in Seq(Sentence)
  BY ElementOfSeq
<1>4. PICK d \in Seq(Piece) : d = ParagraphOf(x[n])
  BY <1>3, ParagraphIs
<1>5. PICK gap \in {Space, Break} : gap = Break /\ gap.size = 2
  <2>1. Break.size = 2
    BY DEF Break, Gap
  <2> QED
    BY <2>1
<1>6. PICK e \in Seq(Piece) : e = Wholes(x)[n] /\ e = Join(c, gap, d)
  BY <1>1, <1>2, <1>4, <1>5, WholesAre
<1>7. /\ WordsIn(e) = WordsIn(c) \o WordsIn(d)
      /\ c = <<>> => Bytes(e) = Bytes(d)
      /\ Bytes(e) <= Bytes(c) + gap.size + Bytes(d)
  <2>1. /\ WordsIn(Join(c, gap, d)) = WordsIn(c) \o WordsIn(d)
        /\ c = <<>> => Bytes(Join(c, gap, d)) = Bytes(d)
        /\ Bytes(Join(c, gap, d)) <= Bytes(c) + gap.size + Bytes(d)
    BY JoinHas, ZenonT(60)
  <2> QED
    BY <1>6, <2>1
<1>8. x[n] = <<>> => d = <<>>
  <2>1. Len(<<>>) = 0 /\ <<>> \in Seq(Sentence)
    BY EmptySeq
  <2>2. ParagraphOf(<<>>) = Joins(<<>>)[0] /\ Joins(<<>>)[0] = <<>>
    BY <2>1, JoinsAre
  <2> QED
    BY <1>4, <2>2
<1>9. Uncut(d)
  <2>1. Uncut(<<>>)
    BY DEF Uncut
  <2>2. x[n] # <<>> => Uncut(d)
    BY <1>3, <1>4, ParagraphHas
  <2> QED
    BY <1>8, <2>1, <2>2
<1>10. Uncut(c) => Uncut(e)
  BY <1>6, <1>9, JoinUncut
<1>11. x[n] = <<>> => WordsIn(e) = WordsIn(c)
  <2>1. WordsIn(c) \o <<>> = WordsIn(c)
    BY WordsAre, ConcatEmptySeq
  <2> QED
    BY <1>7, <1>8, <2>1, NothingIs, Zenon
<1> QED
  BY <1>2, <1>3, <1>4, <1>5, <1>6, <1>7, <1>10, <1>11

(* The limits that the text sets, and what it promises.                          *)
AimFor(x, q) ==
    /\ q.limit = q.overlap + 2 + Max({q.target, Longest(x)})
    /\ q.more => Longest(x) + 1 + q.overlap <= q.target
    /\ q.whole => \A p \in Range(x) \ {<<>>} :
          LET words == WordsIn(ParagraphOf(p))
          IN  Len(words) > 1 /\ \A w \in Range(words) : Size[w] < q.overlap

LEMMA LimitIs ==
    ASSUME NEW t \in Nat, NEW o \in Nat, NEW l \in Nat, NEW m \in Nat, NEW n \in Nat, NEW k \in Nat,
           l = o + 2 + k, t <= k, m <= k
    PROVE  /\ n <= t \/ n <= m => o + 1 + n <= l /\ o + 2 + n <= l
           /\ n <= m /\ m + 1 + o <= t => n + 1 + o <= t
  OBVIOUS

LEMMA AimForIs ==
    ASSUME NEW x \in Seq(Seq(Sentence)), NEW q \in Aim, AimFor(x, q), NEW n \in Nat
    PROVE  /\ n <= q.target \/ n <= Longest(x) => /\ q.overlap + 1 + n <= q.limit
                                                 /\ q.overlap + 2 + n <= q.limit
           /\ q.more /\ n <= Longest(x) => n + 1 + q.overlap <= q.target
<1>1. PICK t \in Nat, o \in Nat, l \in Nat : t = q.target /\ o = q.overlap /\ l = q.limit
  BY AimIs
<1>2. PICK m \in Nat : m = Longest(x)
  BY LongestIs
<1>3. PICK k \in Nat : k = Max({t, m}) /\ t <= k /\ m <= k
  BY MaxOfTwo
<1>4. l = o + 2 + k /\ (q.more => m + 1 + o <= t)
  BY <1>1, <1>2, <1>3 DEF AimFor
<1>5. /\ n <= t \/ n <= m => o + 1 + n <= l /\ o + 2 + n <= l
      /\ n <= m /\ m + 1 + o <= t => n + 1 + o <= t
  BY <1>3, <1>4, LimitIs
<1> QED
  BY <1>1, <1>2, <1>4, <1>5

LEMMA PartsFit ==
    ASSUME NEW x \in Seq(Seq(Sentence)), NEW q \in Aim, AimFor(x, q), NEW i \in 1..Len(x), x[i] # <<>>
    PROVE  /\ \A j \in 1..Len(x[i]) : Part(SentenceOf(x[i][j]), Space, q) /\ Roomy(SentenceOf(x[i][j]), q)
           /\ Bytes(ParagraphOf(x[i])) <= q.target => Part(ParagraphOf(x[i]), Break, q)
<1>1. PICK p \in Seq(Sentence) : p = x[i] /\ p # <<>>
  BY ElementOfSeq
<1>2. \A j \in 1..Len(p) : Bytes(SentenceOf(p[j])) <= Longest(x)
  BY <1>1, LongestIs
<1>3. q.overlap \in Nat
  BY AimIs
<1>4. PICK d \in Seq(Piece) : d = ParagraphOf(p)
  BY ParagraphIs
<1>5. /\ WordsIn(d) # <<>> /\ Uncut(d)
      /\ \A j \in 1..Len(p) : Range(WordsIn(SentenceOf(p[j]))) \subseteq Range(WordsIn(d))
      /\ (\A w \in Range(WordsIn(d)) : Size[w] < q.overlap) => Closes(d, q.overlap)
      /\ Len(WordsIn(d)) > 1 => Len(d) >= 2
  BY <1>1, <1>3, <1>4, ParagraphHas
<1>6. q.whole => Len(WordsIn(d)) > 1 /\ \A w \in Range(WordsIn(d)) : Size[w] < q.overlap
  <2>1. p \in Range(x) \ {<<>>}
    BY <1>1, LenProperties DEF Range
  <2> QED
    BY <1>4, <2>1 DEF AimFor
<1>7. Space.size = 1 /\ Break.size = 2
  BY DEF Space, Break, Gap
<1>8. ASSUME NEW j \in 1..Len(p)
      PROVE  Part(SentenceOf(p[j]), Space, q) /\ Roomy(SentenceOf(p[j]), q)
  <2>1. p[j] \in Sentence
    BY ElementOfSeq
  <2>2. PICK s \in Seq(Piece) : s = SentenceOf(p[j])
    BY <2>1, SentenceIs
  <2>3. /\ WordsIn(s) # <<>> /\ Uncut(s)
        /\ (\A w \in Range(WordsIn(s)) : Size[w] < q.overlap) => Closes(s, q.overlap)
    BY <1>3, <2>1, <2>2, SentenceHas
  <2>4. q.whole => Closes(s, q.overlap)
    BY <1>5, <1>6, <2>2, <2>3
  <2>5. PICK b \in Nat : b = Bytes(s) /\ b <= Longest(x)
    BY <1>2, <2>2, SumsAre
  <2>6. q.overlap + 1 + b <= q.limit /\ (q.more => b + 1 + q.overlap <= q.target)
    BY <2>5, AimForIs
  <2>7. Part(s, Space, q)
    BY <1>7, <2>3, <2>4, <2>5, <2>6 DEF Part
  <2>8. Roomy(s, q)
    BY <2>5, <2>6 DEF Roomy
  <2> QED
    BY <2>2, <2>7, <2>8
<1>9. ASSUME Bytes(d) <= q.target
      PROVE  Part(d, Break, q)
  <2>1. PICK b \in Nat : b = Bytes(d) /\ b <= q.target
    BY <1>9, SumsAre
  <2>2. q.overlap + 2 + b <= q.limit
    BY <2>1, AimForIs
  <2> QED
    BY <1>5, <1>6, <1>7, <2>1, <2>2 DEF Part
<1> QED
  BY <1>1, <1>4, <1>8, <1>9

(* Between paragraphs: a chunk that has begun brings more.                        *)
Settled(st, text, q) == Within(st, text, q) /\ (st.cur # <<>> => Ends(st, text, q))

LEMMA StartSettled ==
    ASSUME NEW q \in Aim, NEW st, st = [chunks |-> <<>>, cur |-> <<>>]
    PROVE  Settled(st, <<>>, q)
<1>1. st.chunks = <<>> /\ st.cur = <<>> /\ Len(<<>>) = 0
  OBVIOUS
<1>2. Sized(st, q)
  <2>1. Bytes(<<>>) = 0 /\ q.limit \in Nat /\ q.overlap \in Nat
    BY NothingIs, AimIs
  <2> QED
    BY <1>1, <2>1 DEF Sized, Neat, Uncut, Aligned
<1>3. Placed(<<>>, <<>>, <<>>, q.more, FALSE)
  <2>1. PICK ends : ends = [i \in 0..0 |-> 0]
    OBVIOUS
  <2>2. Marks(<<>>, ends, <<>>, q.more)
    BY <1>1, <2>1 DEF Marks
  <2>3. WordsIn(<<>>) = SubSeq(<<>>, 0 + 1, Len(<<>>))
    <3>1. SubSeq(<<>>, 1, 0) = <<>>
      BY SubSeqEmpty
    <3>2. 0 + 1 = 1
      OBVIOUS
    <3>3. Len(<<>>) = 0 /\ WordsIn(<<>>) = <<>>
      BY NothingIs
    <3> QED
      BY <3>1, <3>2, <3>3, Zenon
  <2>4. 0 \in 0..ends[Len(<<>>)]
    BY <1>1, <2>1
  <2> QED
    BY <2>2, <2>3, <2>4 DEF Placed
<1> QED
  BY <1>1, <1>2, <1>3 DEF Settled, Within

LEMMA ByParagraphAt ==
    ASSUME NEW x \in Seq(Seq(Sentence)), NEW target \in Nat, NEW overlap \in Nat, NEW i \in 1..Len(x)
    PROVE  ByParagraph(x, target, overlap)[i] =
              IF x[i] = <<>> THEN ByParagraph(x, target, overlap)[i - 1]
              ELSE AddParagraph(x[i], target, overlap)[ByParagraph(x, target, overlap)[i - 1]]
BY ByParagraphIs

LEMMA ParagraphsAdded ==
    ASSUME NEW x \in Seq(Seq(Sentence)), NEW q \in Aim, AimFor(x, q)
    PROVE  /\ ByParagraph(x, q.target, q.overlap)[Len(x)] \in State
           /\ Settled(ByParagraph(x, q.target, q.overlap)[Len(x)], WordsIn(Whole(x)), q)
<1> DEFINE B == ByParagraph(x, q.target, q.overlap)
           V(n) == WordsIn(Wholes(x)[n])
<1>1. PICK N \in Nat : N = Len(x)
  BY LenProperties
<1>2. /\ B[0] = [chunks |-> <<>>, cur |-> <<>>] /\ \A n \in 0..N : B[n] \in State
      /\ \A n \in 1..N : B[n] = IF x[n] = <<>> THEN B[n - 1]
                                ELSE AddParagraph(x[n], q.target, q.overlap)[B[n - 1]]
  <2>1. q.target \in Nat /\ q.overlap \in Nat
    BY AimIs
  <2>2. B[0] = [chunks |-> <<>>, cur |-> <<>>]
    BY <2>1, ByParagraphIs
  <2>3. \A n \in 0..Len(x) : B[n] \in State
    BY <2>1, ByParagraphIs
  <2>4. ASSUME NEW n \in 1..Len(x)
        PROVE  B[n] = IF x[n] = <<>> THEN B[n - 1]
                      ELSE AddParagraph(x[n], q.target, q.overlap)[B[n - 1]]
    BY <2>1, ByParagraphAt
  <2> HIDE DEF B
  <2> QED
    BY <1>1, <2>2, <2>3, <2>4
<1> HIDE DEF B
<1> DEFINE S == {n \in 0..N : Settled(B[n], V(n), q)}
<1>3. 0 \in S
  <2>1. V(0) = <<>>
    BY WholesAre, NothingIs
  <2> HIDE DEF V
  <2>2. Settled(B[0], V(0), q)
    BY <1>2, <2>1, StartSettled
  <2> QED
    BY <2>2
<1>4. ASSUME NEW n \in 0..(N - 1), n \in S
      PROVE  n + 1 \in S
  <2>1. n + 1 \in 1..Len(x) /\ (n + 1) - 1 = n /\ n + 1 \in 0..N /\ n \in 0..N /\ n + 1 \in 1..N
    BY <1>1
  <2>2. PICK p \in Seq(Sentence) : p = x[n + 1]
    BY <2>1, WholesHave
  <2>3. PICK st \in State : st = B[n]
    BY <1>2, <2>1
  <2>4. B[n + 1] = IF p = <<>> THEN st ELSE AddParagraph(p, q.target, q.overlap)[st]
    BY <1>2, <2>1, <2>2, <2>3
  <2>5. PICK u \in Seq(Words) : u = V(n)
    <3>1. Wholes(x)[n] \in Seq(Piece)
      BY <2>1, WholesHave
    <3> QED
      BY <3>1, WordsAre
  <2>6. V(n + 1) = u \o WordsIn(ParagraphOf(p)) /\ (p = <<>> => V(n + 1) = u)
    BY <2>1, <2>2, <2>5, WholesHave
  <2>7. Settled(st, u, q)
    BY <1>4, <2>3, <2>5
  <2> HIDE DEF V
  <2>8. CASE p = <<>>
    <3>1. Settled(B[n + 1], V(n + 1), q)
      BY <2>4, <2>6, <2>7, <2>8
    <3> QED
      BY <2>1, <3>1
  <2>9. CASE p # <<>>
    <3>1. /\ \A j \in 1..Len(p) : Part(SentenceOf(p[j]), Space, q) /\ Roomy(SentenceOf(p[j]), q)
          /\ Bytes(ParagraphOf(p)) <= q.target => Part(ParagraphOf(p), Break, q)
      BY <2>1, <2>2, <2>9, PartsFit
    <3>2. Within(st, u, q) /\ (st.cur # <<>> => Ends(st, u, q))
      BY <2>7 DEF Settled
    <3>3. Done(AddParagraph(p, q.target, q.overlap)[st], u \o WordsIn(ParagraphOf(p)), q)
      BY <2>9, <3>1, <3>2, ParagraphAdded
    <3>4. Done(B[n + 1], V(n + 1), q)
      BY <2>4, <2>6, <2>9, <3>3
    <3>5. Settled(B[n + 1], V(n + 1), q)
      BY <3>4 DEF Done, Settled
    <3> QED
      BY <2>1, <3>5
  <2> QED
    BY <2>8, <2>9
<1> HIDE DEF S
<1>5. N \in S
  <2>1. \A n \in 0..N : n \in S
    BY <1>1, <1>3, <1>4, Induction
  <2> QED
    BY <1>1, <2>1
<1>6. Settled(B[N], V(N), q) /\ B[N] \in State
  <2> HIDE DEF V
  <2> QED
    BY <1>1, <1>2, <1>5 DEF S
<1>7. Whole(x) = Wholes(x)[N]
  BY <1>1, WholesAre
<1> QED
  BY <1>1, <1>6, <1>7 DEF B

-----------------------------------------------------------------------------
(* The chunks                                                                *)

LEMMA SumFits ==
    ASSUME NEW e \in Nat, NEW c \in Nat, NEW d \in Nat, NEW l \in Nat, NEW m \in Nat,
           e <= c + 2 + d, c + 2 <= l, m = l + 2 + d
    PROVE  e + 2 <= m
  OBVIOUS

(* The whole text is uncut, and no longer than the length that is compared.       *)
LEMMA WholeFits ==
    ASSUME NEW x \in Seq(Seq(Sentence))
    PROVE  /\ Whole(x) \in Seq(Piece) /\ Uncut(Whole(x))
           /\ x # <<>> => Bytes(Whole(x)) <= Length(x)
<1>1. PICK N \in Nat : N = Len(x)
  BY LenProperties
<1> DEFINE S == {n \in 0..N : Uncut(Wholes(x)[n]) /\ (n = 0 \/ Bytes(Wholes(x)[n]) + 2 <= Lengths(x)[n])}
<1>2. 0 \in S
  <2>1. Uncut(<<>>)
    BY DEF Uncut
  <2> QED
    BY <2>1, WholesAre
<1>3. ASSUME NEW n \in 0..(N - 1), n \in S
      PROVE  n + 1 \in S
  <2>1. n + 1 \in 1..Len(x) /\ (n + 1) - 1 = n /\ n + 1 \in 0..N /\ n \in 0..Len(x) /\ n + 1 \in 0..Len(x)
    BY <1>1
  <2>2. PICK c \in Seq(Piece), e \in Seq(Piece), p \in Seq(Sentence) :
          c = Wholes(x)[n] /\ e = Wholes(x)[n + 1] /\ p = x[n + 1]
    BY <2>1, WholesHave
  <2>3. PICK d \in Seq(Piece) : d = ParagraphOf(p)
    BY ParagraphIs
  <2>4. /\ Uncut(c) => Uncut(e)
        /\ c = <<>> => Bytes(e) = Bytes(d)
        /\ Bytes(e) <= Bytes(c) + 2 + Bytes(d)
    BY <2>1, <2>2, <2>3, WholesHave
  <2>5. PICK l \in Nat, m \in Nat : l = Lengths(x)[n] /\ m = Lengths(x)[n + 1]
    BY <2>1, LengthsAre
  <2>6. m = l + 2 + Bytes(d) /\ (n = 0 => l = 0)
    BY <2>1, <2>2, <2>3, <2>5, LengthsAre
  <2>7. Bytes(c) \in Nat /\ Bytes(d) \in Nat /\ Bytes(e) \in Nat
    BY SumsAre
  <2>8. Bytes(e) + 2 <= m
    <3>1. CASE n = 0
      <4>1. c = <<>>
        BY <2>2, <3>1, WholesAre
      <4> QED
        BY <2>4, <2>6, <2>7, <3>1, <4>1
    <3>2. CASE n # 0
      <4>1. Bytes(c) + 2 <= l
        BY <1>3, <2>2, <2>5, <3>2
      <4> QED
        BY <2>4, <2>6, <2>7, <4>1, SumFits
    <3> QED
      BY <3>1, <3>2
  <2>9. Uncut(e)
    BY <1>3, <2>2, <2>4
  <2> QED
    BY <2>1, <2>2, <2>5, <2>8, <2>9
<1> HIDE DEF S
<1>4. N \in S
  <2>1. \A n \in 0..N : n \in S
    BY <1>1, <1>2, <1>3, Induction
  <2> QED
    BY <1>1, <2>1
<1>5. N \in 0..Len(x) /\ Whole(x) = Wholes(x)[N] /\ Length(x) = Lengths(x)[N] - 2
  BY <1>1, WholesAre, LengthsAre
<1>6. Whole(x) \in Seq(Piece) /\ Uncut(Whole(x))
  BY <1>4, <1>5, WholesAre DEF S
<1>7. ASSUME x # <<>>
      PROVE  Bytes(Whole(x)) <= Length(x)
  <2>1. PICK b \in Nat, l \in Nat : b = Bytes(Whole(x)) /\ l = Lengths(x)[N]
    BY <1>5, <1>6, SumsAre, LengthsAre
  <2>2. N # 0
    BY <1>1, <1>7, EmptySeq
  <2>3. b + 2 <= l
    BY <1>4, <1>5, <2>1, <2>2 DEF S
  <2>4. b <= l - 2
    BY <2>3
  <2> QED
    BY <1>5, <2>1, <2>4
<1> QED
  BY <1>6, <1>7

(* Where the chunks of a text end.                                             *)
Cut(cs, ends, text, q) ==
    /\ cs \in Seq(Seq(Piece)) /\ \A i \in 1..Len(cs) : Neat(cs[i], q)
    /\ Marks(cs, ends, text, FALSE) /\ ends[Len(cs)] = Len(text)
    /\ q.more => \A i \in 2..Len(cs) : ends[i - 1] < ends[i]

LEMMA AppendNeat ==
    ASSUME NEW cs \in Seq(Seq(Piece)), NEW c \in Seq(Piece), NEW q,
           \A i \in 1..Len(cs) : Neat(cs[i], q), Neat(c, q)
    PROVE  /\ Append(cs, c) \in Seq(Seq(Piece)) /\ Len(Append(cs, c)) = Len(cs) + 1
           /\ \A i \in 1..Len(Append(cs, c)) : Neat(Append(cs, c)[i], q)
<1>1. PICK m \in Nat : m = Len(cs)
  BY LenProperties
<1>2. PICK ds \in Seq(Seq(Piece)) : ds = Append(cs, c) /\ Len(ds) = m + 1 /\ ds[m + 1] = c
                                     /\ \A i \in 1..m : ds[i] = cs[i]
  <2>1. PICK ds : ds = Append(cs, c)
    OBVIOUS
  <2>2. ds \in Seq(Seq(Piece)) /\ Len(ds) = Len(cs) + 1 /\ ds[Len(cs) + 1] = c
        /\ \A i \in 1..Len(cs) : ds[i] = cs[i]
    BY <2>1, AppendProperties
  <2> QED
    BY <1>1, <2>1, <2>2
<1>3. \A i \in 1..(m + 1) : i = m + 1 \/ i \in 1..m
  OBVIOUS
<1>4. \A i \in 1..(m + 1) : Neat(ds[i], q)
  BY <1>1, <1>2, <1>3
<1> QED
  BY <1>1, <1>2, <1>4

LEMMA LooseMarks ==
    ASSUME NEW cs, NEW ends, NEW text, NEW more \in BOOLEAN, Marks(cs, ends, text, more)
    PROVE  Marks(cs, ends, text, FALSE) /\ (more => \A i \in 1..Len(cs) : ends[i - 1] < ends[i])
  BY DEF Marks

LEMMA NoText ==
    ASSUME NEW q
    PROVE  \E ends : Marks(<<>>, ends, <<>>, FALSE) /\ Cut(<<>>, ends, <<>>, q) /\ ends[0] = 0
<1>1. PICK ends : ends = [i \in 0..0 |-> 0]
  OBVIOUS
<1>2. Len(<<>>) = 0 /\ <<>> \in Seq(Seq(Piece))
  BY EmptySeq
<1>3. ends[0] = 0 /\ Marks(<<>>, ends, <<>>, FALSE)
  BY <1>1, <1>2 DEF Marks
<1>4. Cut(<<>>, ends, <<>>, q)
  <2>1. \A i : i \notin 1..0 /\ i \notin 2..0
    OBVIOUS
  <2> QED
    BY <1>2, <1>3, <2>1 DEF Cut
<1> QED
  BY <1>3, <1>4

(* A text that is one chunk.                                                   *)
LEMMA OneChunk ==
    ASSUME NEW c \in Seq(Piece), NEW q, Neat(c, q)
    PROVE  \E ends : Cut(<<c>>, ends, WordsIn(c), q)
<1>1. PICK text \in Seq(Words) : text = WordsIn(c)
  BY WordsAre
<1>2. PICK none \in Seq(Seq(Piece)) : none = <<>> /\ Len(none) = 0
  BY EmptySeq
<1>3. PICK start : start = [i \in 0..0 |-> 0]
  OBVIOUS
<1>4. Len(text) \in Nat
  BY LenProperties
<1>5. Marks(none, start, text, FALSE) /\ start[Len(none)] = 0
  BY <1>2, <1>3, <1>4 DEF Marks
<1>6. WordsIn(c) = SubSeq(text, 0 + 1, Len(text)) /\ 0 \in 0..start[Len(none)]
  <2>1. 0 + 1 = 1 /\ 0 \in 0..0
    OBVIOUS
  <2>2. SubSeq(text, 1, Len(text)) = text
    BY SubSeqFull
  <2> QED
    BY <1>1, <1>5, <2>1, <2>2, Zenon
<1>7. PICK f : Marks(Append(none, c), f, text, FALSE) /\ f[Len(none) + 1] = Len(text)
  BY <1>5, <1>6, MarksMore
<1>8. PICK ds \in Seq(Seq(Piece)) : ds = <<c>> /\ ds = Append(none, c) /\ Len(ds) = 1 /\ ds[1] = c
  <2>1. Append(none, c) = <<c>> /\ Append(none, c) \in Seq(Seq(Piece)) /\ Len(<<c>>) = 1 /\ <<c>>[1] = c
    BY <1>2, AppendProperties
  <2> QED
    BY <2>1
<1>9. Cut(ds, f, text, q)
  <2>1. \A i \in 1..Len(ds) : i = 1
    BY <1>8
  <2>2. \A i \in 1..Len(ds) : Neat(ds[i], q)
    BY <1>8, <2>1
  <2>3. Len(none) + 1 = Len(ds)
    BY <1>2, <1>8
  <2>4. \A i \in 2..Len(ds) : FALSE
    BY <1>8
  <2> QED
    BY <1>7, <1>8, <2>2, <2>3, <2>4 DEF Cut
<1> QED
  BY <1>1, <1>8, <1>9

(* The text is cut when all of it has been read.                                *)
LEMMA AllRead ==
    ASSUME NEW st \in State, NEW text \in Seq(Words), NEW q \in Aim, Settled(st, text, q)
    PROVE  \E ends : Cut(IF st.cur = <<>> THEN st.chunks ELSE Append(st.chunks, st.cur), ends, text, q)
<1>1. PICK cs \in Seq(Seq(Piece)), c \in Seq(Piece) : cs = st.chunks /\ c = st.cur
  BY DEF State
<1>2. (\A i \in 1..Len(cs) : Neat(cs[i], q)) /\ Neat(c, q)
  BY <1>1 DEF Settled, Within, Sized
<1>3. PICK more \in BOOLEAN : more = q.more
  BY AimIs
<1>4. CASE c = <<>>
  <2>1. PICK ends : Marks(cs, ends, text, more)
                    /\ \E b \in 0..ends[Len(cs)] : WordsIn(c) = SubSeq(text, b + 1, Len(text))
    BY <1>1, <1>3 DEF Settled, Within, Placed
  <2>2. PICK b \in 0..ends[Len(cs)] : WordsIn(c) = SubSeq(text, b + 1, Len(text))
    BY <2>1
  <2>3. PICK N \in Nat, e \in Nat : N = Len(text) /\ e = ends[Len(cs)] /\ e <= N
    <3>1. Len(text) \in Nat /\ ends[Len(cs)] \in 0..Len(text)
      BY <2>1, MarksAre, LenProperties
    <3> QED
      BY <3>1
  <2>4. N = e
    <3>1. b \in 0..Len(text) /\ b <= e /\ Len(text) \in 0..Len(text)
      BY <2>2, <2>3
    <3>2. Len(SubSeq(text, b + 1, Len(text))) = Len(text) - b
      BY <3>1, PartOf
    <3>3. Len(WordsIn(c)) = 0
      BY <1>4, NothingIs
    <3>4. Len(text) - b = 0
      BY <2>2, <3>2, <3>3, Zenon
    <3> QED
      BY <2>3, <3>1, <3>4
  <2>5. Marks(cs, ends, text, FALSE) /\ (more => \A i \in 1..Len(cs) : ends[i - 1] < ends[i])
    BY <2>1, LooseMarks
  <2>6. more => \A i \in 2..Len(cs) : ends[i - 1] < ends[i]
    <3>1. \A i \in 2..Len(cs) : i \in 1..Len(cs)
      BY LenProperties
    <3> QED
      BY <2>5, <3>1
  <2>7. Cut(cs, ends, text, q)
    BY <1>2, <1>3, <2>3, <2>4, <2>5, <2>6 DEF Cut
  <2> QED
    BY <1>1, <1>4, <2>7
<1>5. CASE c # <<>>
  <2>1. PICK ends : /\ Marks(cs, ends, text, more) /\ (more => ends[Len(cs)] < Len(text))
                    /\ \E b \in 0..ends[Len(cs)] : WordsIn(c) = SubSeq(text, b + 1, Len(text))
    BY <1>1, <1>3, <1>5 DEF Settled, Ends, Placed
  <2>2. PICK b \in 0..ends[Len(cs)] : WordsIn(c) = SubSeq(text, b + 1, Len(text))
    BY <2>1
  <2>3. PICK f : Marks(Append(cs, c), f, text, more) /\ f[Len(cs) + 1] = Len(text)
    BY <2>1, <2>2, MarksMore, ZenonT(60)
  <2>4. PICK ds \in Seq(Seq(Piece)) : ds = Append(cs, c) /\ Len(ds) = Len(cs) + 1
                                      /\ \A i \in 1..Len(ds) : Neat(ds[i], q)
    BY <1>2, AppendNeat
  <2>5. Marks(ds, f, text, FALSE) /\ (more => \A i \in 1..Len(ds) : f[i - 1] < f[i])
    BY <2>3, <2>4, LooseMarks
  <2>6. more => \A i \in 2..Len(ds) : f[i - 1] < f[i]
    <3>1. \A i \in 2..Len(ds) : i \in 1..Len(ds)
      BY LenProperties
    <3> QED
      BY <2>5, <3>1
  <2>7. Cut(ds, f, text, q)
    BY <1>3, <2>3, <2>4, <2>5, <2>6 DEF Cut
  <2> QED
    BY <1>1, <1>5, <2>4, <2>7
<1> QED
  BY <1>4, <1>5

LEMMA ChunksAreThose ==
    ASSUME NEW x, NEW target, NEW overlap
    PROVE  Chunks(x, target, overlap) =
             IF x = <<>> THEN <<>>
             ELSE IF Length(x) <= target THEN <<Whole(x)>>
             ELSE IF ByParagraph(x, target, overlap)[Len(x)].cur = <<>>
                  THEN ByParagraph(x, target, overlap)[Len(x)].chunks
             ELSE Append(ByParagraph(x, target, overlap)[Len(x)].chunks,
                         ByParagraph(x, target, overlap)[Len(x)].cur)
  BY Zenon DEF Chunks, ByParagraph

LEMMA ChunksPlaced ==
    ASSUME NEW x \in Seq(Seq(Sentence)), NEW q \in Aim, AimFor(x, q)
    PROVE  \E ends : Cut(Chunks(x, q.target, q.overlap), ends, WordsIn(Whole(x)), q)
<1>1. PICK st \in State : st = ByParagraph(x, q.target, q.overlap)[Len(x)]
                          /\ Settled(st, WordsIn(Whole(x)), q)
  BY ParagraphsAdded
<1>2. PICK cs : cs = Chunks(x, q.target, q.overlap)
  OBVIOUS
<1>3. cs = IF x = <<>> THEN <<>>
           ELSE IF Length(x) <= q.target THEN <<Whole(x)>>
           ELSE IF st.cur = <<>> THEN st.chunks
           ELSE Append(st.chunks, st.cur)
  BY <1>1, <1>2, ChunksAreThose, Zenon
<1>4. PICK text \in Seq(Words) : text = WordsIn(Whole(x))
  BY WholeFits, WordsAre
<1>5. CASE x = <<>>
  <2>1. Whole(x) = <<>>
    BY <1>5, EmptySeq, WholesAre
  <2>2. text = <<>>
    BY <1>4, <2>1, NothingIs
  <2>3. cs = <<>>
    BY <1>3, <1>5
  <2> QED
    BY <1>2, <1>4, <2>2, <2>3, NoText, Zenon
<1>6. CASE x # <<>> /\ Length(x) <= q.target
  <2>1. PICK c \in Seq(Piece) : c = Whole(x) /\ Uncut(c) /\ Bytes(c) <= Length(x)
    BY <1>6, WholeFits
  <2>2. Neat(c, q)
    <3>1. PICK l \in Int : l = Length(x)
      BY LenProperties, LengthsAre
    <3>2. Bytes(c) \in Nat /\ q.target \in Nat /\ q.limit \in Nat /\ q.target <= q.limit
      BY SumsAre, AimIs
    <3>3. Bytes(c) <= q.limit
      BY <1>6, <2>1, <3>1, <3>2
    <3> QED
      BY <2>1, <3>3 DEF Neat
  <2>3. cs = <<c>>
    BY <1>3, <1>6, <2>1
  <2>4. \E ends : Cut(<<c>>, ends, WordsIn(c), q)
    BY <2>2, OneChunk
  <2> QED
    BY <1>2, <2>1, <2>3, <2>4
<1>7. CASE x # <<>> /\ ~(Length(x) <= q.target)
  <2>1. \E ends : Cut(IF st.cur = <<>> THEN st.chunks ELSE Append(st.chunks, st.cur), ends, text, q)
    BY <1>1, <1>4, AllRead
  <2>2. cs = IF st.cur = <<>> THEN st.chunks ELSE Append(st.chunks, st.cur)
    BY <1>3, <1>7
  <2> QED
    BY <1>2, <1>4, <2>1, <2>2
<1> QED
  BY <1>5, <1>6, <1>7

-----------------------------------------------------------------------------
(* What holds of the chunks                                                  *)

LEMMA TextsAre ==
    ASSUME NEW x \in Texts, NEW s \in Settings
    PROVE  /\ x \in Seq(Seq(Sentence)) /\ s[1] \in Nat /\ s[2] \in Nat
           /\ TextOf[x] = WordsIn(Whole(x)) /\ TextOf[x] \in Seq(Words)
           /\ ChunksOf[x][s] = Chunks(x, s[1], s[2])
<1>1. x \in Seq(Seq(Sentence)) /\ s \in Nat \X Nat
  BY ChunkingAssumption DEF Sentence
<1>2. TextOf[x] = WordsIn(Whole(x)) /\ ChunksOf[x][s] = Chunks(x, s[1], s[2])
  BY DEF TextOf, ChunksOf
<1>3. WordsIn(Whole(x)) \in Seq(Words)
  BY <1>1, WholeFits, WordsAre
<1> QED
  BY <1>1, <1>2, <1>3

Goal(x, s, whole, more) ==
    [target |-> s[1], overlap |-> s[2], limit |-> s[2] + 2 + Max({s[1], Longest(x)}),
     whole |-> whole, more |-> more]

LEMMA GoalAsks ==
    ASSUME NEW x, NEW s, NEW whole, NEW more
    PROVE  Goal(x, s, whole, more).target = s[1] /\ Goal(x, s, whole, more).overlap = s[2]
<1>1. PICK t, o, k : t = s[1] /\ o = s[2] /\ k = s[2] + 2 + Max({s[1], Longest(x)})
  OBVIOUS
<1>2. PICK g : g = [target |-> t, overlap |-> o, limit |-> k, whole |-> whole, more |-> more]
  OBVIOUS
<1>3. g.target = t /\ g.overlap = o
  BY <1>2
<1>4. g = Goal(x, s, whole, more)
  BY <1>1, <1>2, Zenon DEF Goal
<1> QED
  BY <1>1, <1>3, <1>4, Zenon

LEMMA GoalIs ==
    ASSUME NEW x \in Texts, NEW s \in Settings, NEW whole \in BOOLEAN, NEW more \in BOOLEAN
    PROVE  /\ Goal(x, s, whole, more) \in Aim
           /\ Goal(x, s, whole, more).target = s[1] /\ Goal(x, s, whole, more).overlap = s[2]
           /\ Goal(x, s, whole, more).limit = s[2] + 2 + Max({s[1], Longest(x)})
           /\ Goal(x, s, whole, more).whole = whole /\ Goal(x, s, whole, more).more = more
<1>1. PICK t \in Nat, o \in Nat, m \in Nat : t = s[1] /\ o = s[2] /\ m = Longest(x)
  BY TextsAre, LongestIs
<1>2. PICK k \in Nat : k = Max({t, m}) /\ t <= k
  BY <1>1, MaxOfTwo
<1>3. PICK g : g = [target |-> t, overlap |-> o, limit |-> o + 2 + k, whole |-> whole, more |-> more]
  OBVIOUS
<1>4. g \in Aim
  <2>1. o + 2 + k \in Nat /\ t <= o + 2 + k /\ o <= o + 2 + k
    BY <1>2
  <2>2. g \in [target : Nat, overlap : Nat, limit : Nat, whole : BOOLEAN, more : BOOLEAN]
    BY <1>3, <2>1
  <2>3. g.target <= g.limit /\ g.overlap <= g.limit
    BY <1>3, <2>1
  <2> QED
    BY <2>2, <2>3 DEF Aim
<1>5. g = Goal(x, s, whole, more)
  BY <1>1, <1>2, <1>3 DEF Goal
<1>6. g.target = t /\ g.overlap = o /\ g.limit = o + 2 + k /\ g.whole = whole /\ g.more = more
  BY <1>3
<1> QED
  BY <1>1, <1>2, <1>4, <1>5, <1>6

LEMMA ChunksCut ==
    ASSUME NEW x \in Texts, NEW s \in Settings, NEW whole \in BOOLEAN, NEW more \in BOOLEAN,
           AimFor(x, Goal(x, s, whole, more))
    PROVE  \E ends : Cut(ChunksOf[x][s], ends, TextOf[x], Goal(x, s, whole, more))
<1>1. PICK q : q = Goal(x, s, whole, more)
  OBVIOUS
<1>2. q \in Aim
  BY <1>1, GoalIs
<1>3. q.target = s[1] /\ q.overlap = s[2]
  <2>1. Goal(x, s, whole, more).target = s[1] /\ Goal(x, s, whole, more).overlap = s[2]
    BY GoalAsks, Zenon
  <2> QED
    BY <1>1, <2>1, Zenon
<1>4. \E ends : Cut(Chunks(x, q.target, q.overlap), ends, WordsIn(Whole(x)), q)
  BY <1>1, <1>2, TextsAre, ChunksPlaced
<1>5. Chunks(x, q.target, q.overlap) = ChunksOf[x][s] /\ WordsIn(Whole(x)) = TextOf[x]
  BY <1>3, TextsAre
<1> QED
  BY <1>1, <1>4, <1>5

LEMMA AnyAim ==
    ASSUME NEW x \in Texts, NEW s \in Settings
    PROVE  AimFor(x, Goal(x, s, FALSE, FALSE))
<1>1. PICK q \in Aim : /\ q = Goal(x, s, FALSE, FALSE) /\ q.target = s[1] /\ q.overlap = s[2]
                       /\ q.limit = s[2] + 2 + Max({s[1], Longest(x)}) /\ ~q.whole /\ ~q.more
  BY GoalIs
<1>2. AimFor(x, q)
  BY <1>1 DEF AimFor
<1> QED
  BY <1>1, <1>2

(* Chunks are no longer than that.                                             *)
LEMMA ChunksAreBounded == ChunksBounded
<1>1. ASSUME NEW x \in Texts, NEW s \in Settings, NEW c \in Range(ChunksOf[x][s])
      PROVE  Bytes(c) <= s[2] + 2 + Max({s[1], Longest(x)})
  <2>1. PICK q : q = Goal(x, s, FALSE, FALSE) /\ q.limit = s[2] + 2 + Max({s[1], Longest(x)})
    BY GoalIs, ZenonT(60)
  <2>2. PICK cs, ends : cs = ChunksOf[x][s] /\ Cut(cs, ends, TextOf[x], q)
    BY <2>1, AnyAim, ChunksCut
  <2>3. cs \in Seq(Seq(Piece)) /\ \A i \in 1..Len(cs) : Neat(cs[i], q)
    BY <2>2 DEF Cut
  <2>4. PICK i \in 1..Len(cs) : c = cs[i]
    BY <1>1, <2>2, <2>3, LenProperties DEF Range
  <2> QED
    BY <2>1, <2>3, <2>4 DEF Neat
<1> QED
  BY <1>1 DEF ChunksBounded

LEMMA WholeAim ==
    ASSUME NEW x \in Texts, NEW s \in Settings,
           \A p \in Range(x) \ {<<>>} :
             Len(WordsIn(ParagraphOf(p))) > 1 /\ \A w \in Range(WordsIn(ParagraphOf(p))) : Size[w] < s[2]
    PROVE  AimFor(x, Goal(x, s, TRUE, FALSE))
<1>1. PICK q \in Aim : /\ q = Goal(x, s, TRUE, FALSE) /\ q.target = s[1] /\ q.overlap = s[2]
                       /\ q.limit = s[2] + 2 + Max({s[1], Longest(x)}) /\ q.whole /\ ~q.more
  BY GoalIs
<1>2. AimFor(x, q)
  BY <1>1 DEF AimFor
<1> QED
  BY <1>1, <1>2

(* No region is cut.                                                           *)
LEMMA RegionsAreWhole == RegionsWhole
<1>1. ASSUME NEW x \in Texts, NEW s \in Settings,
             \A p \in Range(x) \ {<<>>} :
               Len(WordsIn(ParagraphOf(p))) > 1 /\ \A w \in Range(WordsIn(ParagraphOf(p))) : Size[w] < s[2],
             NEW c \in Range(ChunksOf[x][s]), NEW k \in Range(c), k.word # Blank
      PROVE  k.size = Size[k.word]
  <2>1. PICK q : q = Goal(x, s, TRUE, FALSE) /\ q.whole
    BY GoalIs
  <2>2. PICK cs, ends : cs = ChunksOf[x][s] /\ Cut(cs, ends, TextOf[x], q)
    BY <1>1, <2>1, WholeAim, ChunksCut
  <2>3. cs \in Seq(Seq(Piece)) /\ \A i \in 1..Len(cs) : Neat(cs[i], q)
    BY <2>2 DEF Cut
  <2>4. PICK i \in 1..Len(cs) : c = cs[i]
    BY <1>1, <2>2, <2>3, LenProperties DEF Range
  <2>5. c \in Seq(Piece) /\ Uncut(c)
    BY <2>1, <2>3, <2>4, ElementOfSeq DEF Neat
  <2>6. PICK j \in 1..Len(c) : k = c[j]
    BY <1>1, <2>5, LenProperties DEF Range
  <2> QED
    BY <1>1, <2>5, <2>6 DEF Uncut
<1> QED
  BY <1>1 DEF RegionsWhole

LEMMA MoreAim ==
    ASSUME NEW x \in Texts, NEW s \in Settings, Longest(x) + 1 + s[2] <= s[1]
    PROVE  AimFor(x, Goal(x, s, FALSE, TRUE))
<1>1. PICK q \in Aim : /\ q = Goal(x, s, FALSE, TRUE) /\ q.target = s[1] /\ q.overlap = s[2]
                       /\ q.limit = s[2] + 2 + Max({s[1], Longest(x)}) /\ ~q.whole /\ q.more
  BY GoalIs
<1>2. AimFor(x, q)
  BY <1>1 DEF AimFor
<1> QED
  BY <1>1, <1>2

LEMMA OrderIs ==
    ASSUME NEW b \in Nat, NEW d \in Nat, NEW e \in Nat, NEW n \in Nat, b <= d, d <= e, e <= n
    PROVE  /\ b \in 0..e /\ d \in 0..n /\ e \in 0..n
           /\ e - (e - b) = b /\ e \in (e - b)..n
           /\ d < e => e - b >= 1 /\ e \in 1..n
           /\ d # 0 => d \in 1..n
  OBVIOUS

(* The words w are those of the text from b, which is not after d, up to e.       *)
Spans(w, b, d, e, text) ==
    b \in 0..e /\ b <= d /\ w = SubSeq(text, b + 1, e) /\ Len(w) = e - b

LEMMA StretchAt ==
    ASSUME NEW cs \in Seq(Seq(Piece)), NEW ends, NEW text \in Seq(Words), Marks(cs, ends, text, FALSE),
           NEW i \in 1..Len(cs)
    PROVE  /\ ends[i] \in 0..Len(text) /\ ends[i - 1] \in 0..Len(text) /\ ends[i - 1] <= ends[i]
           /\ WordsIn(cs[i]) \in Seq(Words)
           /\ \E b \in Nat : Spans(WordsIn(cs[i]), b, ends[i - 1], ends[i], text)
<1>1. PICK N \in Nat : N = Len(text)
  BY LenProperties
<1>2. PICK d \in Nat, e \in Nat : d = ends[i - 1] /\ e = ends[i] /\ d <= e /\ e <= N
  <2>1. i \in 0..Len(cs) /\ i - 1 \in 0..Len(cs) /\ ends[i - 1] <= ends[i]
    BY MarksAre
  <2>2. ends[i] \in 0..N /\ ends[i - 1] \in 0..N
    BY <1>1, <2>1, MarksAre
  <2> QED
    BY <2>1, <2>2
<1>3. PICK b \in Nat : b <= d /\ WordsIn(cs[i]) = SubSeq(text, b + 1, e)
  <2>1. PICK b \in 0..d : WordsIn(cs[i]) = SubSeq(text, b + 1, e)
    BY <1>2 DEF Marks
  <2> QED
    BY <2>1
<1>4. b \in 0..e /\ b <= d /\ d \in 0..Len(text) /\ e \in 0..Len(text)
  BY <1>1, <1>2, <1>3, OrderIs
<1>5. Len(SubSeq(text, b + 1, e)) = e - b
  BY <1>4, PartOf
<1>6. cs[i] \in Seq(Piece)
  BY ElementOfSeq
<1>7. WordsIn(cs[i]) \in Seq(Words)
  BY <1>6, WordsAre
<1>8. Len(WordsIn(cs[i])) = e - b
  BY <1>3, <1>5
<1>9. Spans(WordsIn(cs[i]), b, d, e, text)
  BY <1>3, <1>4, <1>8 DEF Spans
<1> QED
  BY <1>2, <1>4, <1>7, <1>9

(* Where the chunks up to one can end.                                          *)
Near(R, c, text, later) ==
    {n \in EndsOf(c, text) : \E m \in R : /\ n - Len(WordsIn(c)) <= m /\ m <= n
                                         /\ later => m < n}
Reach(cs, text, advance) == CHOOSE f : f = [i \in 0..Len(cs) |->
    IF i = 0 THEN {0}
    ELSE {n \in EndsOf(cs[i], text) :
             \E m \in f[i - 1] : /\ n - Len(WordsIn(cs[i])) <= m /\ m <= n
                                /\ advance /\ i > 1 => m < n}]

LEMMA ReachIs ==
    ASSUME NEW cs \in Seq(Seq(Piece)), NEW text \in Seq(Words), NEW advance \in BOOLEAN
    PROVE  /\ Reached(cs, text, advance) = Reach(cs, text, advance)[Len(cs)]
           /\ Reach(cs, text, advance)[0] = {0}
           /\ \A i \in 1..Len(cs) : Reach(cs, text, advance)[i] =
                 Near(Reach(cs, text, advance)[i - 1], cs[i], text, advance /\ i > 1)
<1> DEFINE N == Len(cs)
           D == SUBSET Nat
           Eq(f) == [i \in 0..Len(cs) |->
               IF i = 0 THEN {0}
               ELSE {n \in EndsOf(cs[i], text) :
                        \E m \in f[i - 1] : /\ n - Len(WordsIn(cs[i])) <= m /\ m <= n
                                           /\ advance /\ i > 1 => m < n}]
           step == [i \in 1..N |-> [R \in D |-> Near(R, cs[i], text, advance /\ i > 1)]]
           f == Reach(cs, text, advance)
<1>1. N \in Nat /\ \A i \in 1..N : EndsOf(cs[i], text) \subseteq Nat
  <2>1. ASSUME NEW i \in 1..N
        PROVE  EndsOf(cs[i], text) \subseteq Nat
    <3>1. cs[i] \in Seq(Piece)
      BY ElementOfSeq
    <3>2. WordsIn(cs[i]) \in Seq(Words)
      BY <3>1, WordsAre
    <3>3. Len(WordsIn(cs[i])) \in Nat /\ Len(text) \in Nat
      BY <3>2, LenProperties
    <3> QED
      BY <3>3 DEF EndsOf
  <2> QED
    BY <2>1, LenProperties
<1>2. step \in Steps(N, D)
  <2>1. ASSUME NEW i \in 1..N, NEW R \in D
        PROVE  Near(R, cs[i], text, advance /\ i > 1) \in D
    BY <1>1 DEF Near
  <2> HIDE DEF D
  <2> QED
    BY <2>1 DEF Steps
<1>3. {0} \in D
  OBVIOUS
<1>4. \E g : g = Eq(g)
  <2> HIDE DEF N, step, D
  <2>1. PICK g : Follows(g, N, D, {0}, step)
    BY <1>1, <1>2, <1>3, RecursionExists
  <2>2. \A n \in 0..N : g[n] = IF n = 0 THEN {0} ELSE Near(g[n - 1], cs[n], text, advance /\ n > 1)
    <3>1. ASSUME NEW n \in 1..N
          PROVE  g[n] = Near(g[n - 1], cs[n], text, advance /\ n > 1)
      <4>1. n - 1 \in 0..N /\ g[n - 1] \in D
        BY <1>1, <2>1 DEF Follows
      <4> QED
        BY <2>1, <4>1 DEF step, Follows
    <3> QED
      BY <1>1, <2>1, <3>1 DEF Follows
  <2>3. g = Eq(g)
    BY <2>1, <2>2 DEF N, Follows, Near
  <2> HIDE DEF Eq
  <2> QED
    BY <2>3
<1>5. f = CHOOSE g : g = Eq(g)
  BY DEF Reach
<1>6. f = Eq(f)
  <2> HIDE DEF Eq
  <2> QED
    BY <1>4, <1>5
<1> HIDE DEF f, D
<1>7. \A n \in 0..N : f[n] = IF n = 0 THEN {0} ELSE Near(f[n - 1], cs[n], text, advance /\ n > 1)
  <2>1. ASSUME NEW n \in 0..N
        PROVE  f[n] = IF n = 0 THEN {0} ELSE Near(f[n - 1], cs[n], text, advance /\ n > 1)
    <3>1. Eq(f)[n] = IF n = 0 THEN {0} ELSE Near(f[n - 1], cs[n], text, advance /\ n > 1)
      BY Zenon DEF Near
    <3> HIDE DEF Eq
    <3> QED
      BY <1>6, <3>1, Zenon
  <2> QED
    BY <2>1
<1>8. f[0] = {0} /\ \A n \in 1..N : f[n] = Near(f[n - 1], cs[n], text, advance /\ n > 1)
  BY <1>1, <1>7
<1>9. Reached(cs, text, advance) = f[N]
  BY Zenon DEF Reached, Reach, f, N
<1> QED
  BY <1>8, <1>9 DEF f, N

(* They can end where they do.                                                 *)
LEMMA AllReached ==
    ASSUME NEW cs \in Seq(Seq(Piece)), NEW ends, NEW text \in Seq(Words), Marks(cs, ends, text, FALSE),
           NEW advance \in BOOLEAN, advance => \A i \in 2..Len(cs) : ends[i - 1] < ends[i]
    PROVE  ends[Len(cs)] \in Reached(cs, text, advance)
<1>1. PICK N \in Nat : N = Len(cs)
  BY LenProperties
<1>2. PICK f : f = Reach(cs, text, advance)
  OBVIOUS
<1> DEFINE S == {n \in 0..N : ends[n] \in f[n]}
<1>3. 0 \in S
  <2>1. ends[0] = 0 /\ f[0] = {0}
    BY <1>2, MarksAre, ReachIs, ZenonT(60)
  <2> QED
    BY <1>1, <2>1
<1>4. ASSUME NEW n \in 0..(N - 1), n \in S
      PROVE  n + 1 \in S
  <2>1. PICK i \in 1..Len(cs) : i = n + 1 /\ i - 1 = n /\ i \in 0..N /\ (i > 1 => i \in 2..Len(cs))
    <3>1. n + 1 \in 1..Len(cs) /\ (n + 1) - 1 = n /\ n + 1 \in 0..N /\ (n + 1 > 1 => n + 1 \in 2..Len(cs))
      BY <1>1
    <3> QED
      BY <3>1
  <2>2. PICK w \in Seq(Words), b \in Nat : w = WordsIn(cs[i]) /\ Spans(w, b, ends[i - 1], ends[i], text)
    BY StretchAt
  <2>3. PICK M \in Nat, d \in Nat, e \in Nat : d <= M /\ e <= M /\ M = Len(text) /\ d = ends[i - 1] /\ e = ends[i] /\ d <= e
    <3>1. ends[i] \in 0..Len(text) /\ ends[i - 1] \in 0..Len(text) /\ ends[i - 1] <= ends[i]
          /\ Len(text) \in Nat
      BY StretchAt, LenProperties
    <3> QED
      BY <3>1
  <2>4. e - Len(w) = b /\ e \in Len(w)..Len(text) /\ b <= d
    <3>1. b \in Nat /\ b <= d /\ Len(w) = e - b
      BY <2>2, <2>3 DEF Spans
    <3> QED
      BY <2>3, <3>1, OrderIs
  <2>5. SubSeq(text, e - Len(w) + 1, e) = w
    BY <2>2, <2>3, <2>4 DEF Spans
  <2>6. e \in EndsOf(cs[i], text)
    BY <2>2, <2>4, <2>5 DEF EndsOf
  <2>7. d \in f[n] /\ (advance /\ i > 1 => d < e)
    BY <1>4, <2>1, <2>3
  <2>8. e - Len(WordsIn(cs[i])) <= d
    BY <2>2, <2>4
  <2>9. e \in Near(f[n], cs[i], text, advance /\ i > 1)
    BY <2>3, <2>6, <2>7, <2>8 DEF Near
  <2>10. f[i] = Near(f[n], cs[i], text, advance /\ i > 1)
    BY <1>2, <2>1, ReachIs
  <2> QED
    BY <2>1, <2>3, <2>9, <2>10
<1> HIDE DEF S
<1>5. N \in S
  <2>1. \A n \in 0..N : n \in S
    BY <1>1, <1>3, <1>4, Induction
  <2> QED
    BY <1>1, <2>1
<1>6. ends[N] \in f[N]
  BY <1>5 DEF S
<1> QED
  BY <1>1, <1>2, <1>6, ReachIs

LEMMA TextReached ==
    ASSUME NEW x \in Texts, NEW s \in Settings, NEW advance \in BOOLEAN,
           AimFor(x, Goal(x, s, FALSE, advance))
    PROVE  Len(TextOf[x]) \in Reached(ChunksOf[x][s], TextOf[x], advance)
<1>1. PICK q : q = Goal(x, s, FALSE, advance) /\ q.more = advance
  <2>1. FALSE \in BOOLEAN
    OBVIOUS
  <2>2. Goal(x, s, FALSE, advance).more = advance
    BY <2>1, GoalIs, Zenon
  <2> QED
    BY <2>2, Zenon
<1>2. PICK cs, ends : cs = ChunksOf[x][s] /\ Cut(cs, ends, TextOf[x], q)
  BY <1>1, ChunksCut
<1>3. PICK text \in Seq(Words) : text = TextOf[x]
  BY TextsAre
<1>4. /\ cs \in Seq(Seq(Piece)) /\ Marks(cs, ends, text, FALSE) /\ ends[Len(cs)] = Len(text)
      /\ advance => \A i \in 2..Len(cs) : ends[i - 1] < ends[i]
  BY <1>1, <1>2, <1>3 DEF Cut
<1>5. ends[Len(cs)] \in Reached(cs, text, advance)
  BY <1>4, AllReached
<1> QED
  BY <1>2, <1>3, <1>4, <1>5

(* Nothing of the text is lost, and each chunk brings something.                *)
LEMMA NoneIsLost == NothingLost
  BY AnyAim, TextReached DEF NothingLost

LEMMA EachDoes == EachBringsMore
  BY MoreAim, TextReached DEF EachBringsMore

(* A document is cut into a sequence of pieces.                               *)
LEMMA ChunksAre ==
    ASSUME NEW x \in Texts, NEW target \in Nat, NEW overlap \in Nat
    PROVE  \E n \in Nat : DOMAIN Chunks(x, target, overlap) = 1..n
<1> DEFINE st == ByParagraph(x, target, overlap)[Len(x)]
           l == Chunks(x, target, overlap)
<1>1. x \in Seq(Seq(Sentence))
  BY ChunkingAssumption DEF Sentence
<1>2. st \in State
  BY <1>1, ByParagraphIs
<1>3. l = IF x = <<>> THEN <<>>
          ELSE IF Length(x) <= target THEN <<Whole(x)>>
          ELSE IF st.cur = <<>> THEN st.chunks
          ELSE Append(st.chunks, st.cur)
  BY DEF Chunks, ByParagraph
<1> HIDE DEF st, l
<1>4. st.chunks \in Seq(Seq(Piece)) /\ Append(st.chunks, st.cur) \in Seq(Seq(Piece))
  <2>1. st.chunks \in Seq(Seq(Piece)) /\ st.cur \in Seq(Piece)
    BY <1>2 DEF State
  <2> QED
    BY <2>1, AppendProperties
<1>5. \A T, s : s \in Seq(T) => \E n \in Nat : DOMAIN s = 1..n
  BY LenProperties
<1>6. DOMAIN <<>> = 1..0 /\ DOMAIN <<Whole(x)>> = 1..1 /\ 0 \in Nat /\ 1 \in Nat
  OBVIOUS
<1>7. \E n \in Nat : DOMAIN l = 1..n
  <2>1. CASE l = <<>>
    BY <1>6, <2>1
  <2>2. CASE l = <<Whole(x)>>
    BY <1>6, <2>2
  <2>3. CASE l = st.chunks
    BY <1>4, <1>5, <2>3
  <2>4. CASE l = Append(st.chunks, st.cur)
    BY <1>4, <1>5, <2>4
  <2> QED
    BY <1>3, <2>1, <2>2, <2>3, <2>4
<1> QED
  BY <1>7 DEF l

-----------------------------------------------------------------------------
(* The invariant                                                            *)

(* What identifies a tag, and the tags that rows and extractions speak of.      *)
Face(r) == <<r.id, r.name, r.agent>>
Rows == {Face(r) : r \in tags}
Faces(j) == {Face(r) : r \in j.fresh} \cup {Face(r) : r \in {j.cur, j.found} \ {NoTag}}
                \cup {<<k[2], k[1], j.agent>> : k \in j.known}
FacesOf(j) == IF j = Idle THEN {} ELSE Faces(j)
Seen == Rows \cup UNION {FacesOf(job[t]) : t \in Tasks}
KnownTo(j) == IF j = Idle THEN {} ELSE {k[2] : k \in j.known}

(* An id stands for one label of one agent, and was made.                      *)
SeenInv ==
    /\ \A x, y \in Seen : x[1] = y[1] => x = y
    /\ \A x \in Seen : x[1] <= minted

(* An extraction is at tags of its own agent, and knows those it is to read.    *)
AtWork(j) ==
    j # Idle =>
      /\ \A x \in Faces(j) : x[3] = j.agent
      /\ j.pc \in {"find", "write"} => j.cur # NoTag
      /\ j.pc = "write" /\ j.found # NoTag => j.found.name = j.cur.name
      /\ j.pc = "get" \/ (j.pc \in {"find", "write"} /\ j.back = "get") => j.todo \subseteq KnownTo(j)
WorkInv == \A t \in Tasks : AtWork(job[t])

(* A known tag has a row, or has lost it.                                     *)
Stored == {r.id : r \in tags} \cup lost
KnownInv == carried \subseteq Stored /\ \A t \in Tasks : KnownTo(job[t]) \subseteq Stored

(* Tags that were recorded together are one agent's.                           *)
PairedInv ==
    \A p \in Pairs : together[p] > 0 =>
        /\ \A i \in p : i <= minted
        /\ \A x, y \in Seen : {x[1], y[1]} \subseteq p => x[3] = y[3]

(* While extractions do not overlap, one works, with the row it has found, and   *)
(* it has found none only if there is none.                                   *)
Matches(r, j) == r.name = j.cur.name /\ r.agent = j.cur.agent
Current(j, rows) ==
    j # Idle /\ j.pc = "write" =>
        IF j.found = NoTag THEN \A r \in rows : ~Matches(r, j) ELSE j.found \in rows
AloneInv ==
    alone => /\ \A t, u \in Tasks : job[t] # Idle /\ job[u] # Idle => t = u
             /\ \A t \in Tasks : Current(job[t], tags)

IInv ==
    /\ TypeOK /\ SeenInv /\ WorkInv /\ KnownInv /\ PairedInv /\ AloneInv
    /\ OneTagPerLabel /\ PairsWithinTotals

-----------------------------------------------------------------------------
(* What a step does                                                         *)

(* Ids made by it, each for one label of one agent.                            *)
Minting(new) ==
    /\ minted' \in minted..MaxTags
    /\ \A x \in new : minted < x[1] /\ x[1] <= minted'
    /\ \A x, y \in new : x[1] = y[1] => x = y

(* Where it leaves an extraction.                                              *)
Sound(j, new) ==
    /\ j \in JobType /\ AtWork(j) /\ FacesOf(j) \subseteq Seen \cup new
    /\ KnownTo(j) \subseteq Stored' /\ (alone => Current(j, tags'))
Turn(t, new) ==
    \E j : /\ job' = [job EXCEPT ![t] = j]
           /\ Sound(j, new)
           /\ alone /\ job[t] = Idle => \A u \in Tasks : job[u] = Idle

(* What it leaves in the tables.                                               *)
RowsStep ==
    /\ tags' \subseteq Tag /\ lost' \subseteq Ids
    /\ Rows' \subseteq Seen /\ Stored \subseteq Stored' /\ carried \subseteq carried'
    /\ carried' \subseteq Stored' /\ carried' \subseteq Ids
    /\ docs' \in 0..MaxDocs /\ alone' = alone
    /\ alone => \A r, s \in tags' : r.name = s.name /\ r.agent = s.agent => r.id = s.id
    /\ alone => \A r \in tags : SingleRow(r) => \A s \in tags' : s.id = r.id => s.freq >= r.freq
CountsStep ==
    /\ total' \in [Ids -> Nat] /\ together' \in [Pairs -> Nat]
    /\ \A p \in Pairs : \A i \in p : together'[p] <= total'[i]
    /\ \A p \in Pairs : together'[p] > 0 =>
          together[p] > 0 \/ \E t \in Tasks : p \subseteq KnownTo(job[t])

(* Nothing changes in the tables.                                             *)
LEMMA TablesStand ==
    ASSUME IInv, UNCHANGED <<tags, carried, lost, alone>>, docs' \in 0..MaxDocs
    PROVE  RowsStep
<1>1. Rows' = Rows /\ Stored' = Stored
  BY DEF Rows, Stored
<1>2. Rows \subseteq Seen
  BY DEF Seen
<1>3. \A r \in tags : r.freq \in Nat
  BY DEF IInv, TypeOK, Tag
<1>4. \A r, s \in tags : SingleRow(r) /\ s.id = r.id => s.freq >= r.freq
  BY <1>3 DEF SingleRow
<1> QED
  BY <1>1, <1>2, <1>4 DEF IInv, TypeOK, KnownInv, RowsStep, OneTagPerLabel

LEMMA CountsStand ==
    ASSUME IInv, UNCHANGED <<total, together>>
    PROVE  CountsStep
BY DEF IInv, TypeOK, PairsWithinTotals, CountsStep

(* An extraction at work.                                                     *)
LEMMA WorkIs ==
    ASSUME IInv, NEW t \in Tasks, job[t].pc # "idle"
    PROVE  /\ job[t] \in Work /\ job[t] # Idle /\ AtWork(job[t])
           /\ FacesOf(job[t]) = Faces(job[t]) /\ Faces(job[t]) \subseteq Seen
           /\ KnownTo(job[t]) = {k[2] : k \in job[t].known} /\ KnownTo(job[t]) \subseteq Stored
<1>1. job[t] \in JobType /\ AtWork(job[t]) /\ KnownTo(job[t]) \subseteq Stored
  BY DEF IInv, TypeOK, WorkInv, KnownInv
<1>2. job[t] # Idle
  BY DEF Idle
<1>3. job[t] \in Work
  BY <1>1, <1>2 DEF JobType
<1>4. FacesOf(job[t]) = Faces(job[t]) /\ KnownTo(job[t]) = {k[2] : k \in job[t].known}
  BY <1>2 DEF FacesOf, KnownTo
<1>5. FacesOf(job[t]) \subseteq Seen
  BY DEF Seen
<1> QED
  BY <1>1, <1>2, <1>3, <1>4, <1>5

LEMMA IdsAre ==
    ASSUME IInv
    PROVE  /\ minted \in Nat /\ MaxTags \in Nat /\ MaxDocs \in Nat /\ Stored \subseteq Ids
           /\ \A t \in Tasks : KnownTo(job[t]) \subseteq Ids
           /\ \A x \in Seen : x[1] \in Ids
<1>1. MaxTags \in Nat /\ MaxDocs \in Nat /\ minted \in Nat
  BY TagAssumption DEF IInv, TypeOK
<1>2. Stored \subseteq Ids
  BY DEF Stored, IInv, TypeOK, Tag
<1>3. \A t \in Tasks : KnownTo(job[t]) \subseteq Ids
  BY <1>2 DEF IInv, KnownInv
<1>4. ASSUME NEW t \in Tasks, NEW x \in FacesOf(job[t])
      PROVE  x[1] \in Ids
  <2>1. job[t] # Idle
    BY <1>4 DEF FacesOf
  <2>2. job[t] \in Work /\ x \in Faces(job[t])
    BY <1>4, <2>1 DEF IInv, TypeOK, JobType, FacesOf
  <2>3. job[t].fresh \subseteq Tag /\ job[t].cur \in Tag \cup {NoTag} /\ job[t].found \in Tag \cup {NoTag}
        /\ job[t].known \subseteq Names \X Ids
    BY <2>2 DEF Work
  <2>4. \A r \in Tag : Face(r)[1] \in Ids
    BY DEF Face, Tag
  <2>5. CASE x \in {<<k[2], k[1], job[t].agent>> : k \in job[t].known}
    BY <2>3, <2>5
  <2>6. CASE x \in {Face(r) : r \in job[t].fresh} \cup {Face(r) : r \in {job[t].cur, job[t].found} \ {NoTag}}
    BY <2>3, <2>4, <2>6
  <2> QED
    BY <2>2, <2>5, <2>6 DEF Faces
<1>5. \A x \in Rows : x[1] \in Ids
  BY DEF Rows, Face, IInv, TypeOK, Tag
<1> QED
  BY <1>1, <1>2, <1>3, <1>4, <1>5 DEF Seen

LEMMA AWorkIs ==
    ASSUME NEW j \in Work
    PROVE  /\ j \in JobType /\ j # Idle /\ FacesOf(j) = Faces(j) /\ KnownTo(j) = {k[2] : k \in j.known}
           /\ j.pc \in Phases /\ j.back \in {"new", "get"} /\ j.agent \in Agents
           /\ j.chunks \in Seq(SUBSET Names) /\ j.next \in Nat
           /\ j.todo \subseteq Names \cup Ids /\ j.known \subseteq Names \X Ids /\ j.fresh \subseteq Tag
           /\ j.cur \in Tag \cup {NoTag} /\ j.found \in Tag \cup {NoTag}
<1>1. j.pc \in Phases
  BY DEF Work
<1>2. j # Idle
  BY <1>1 DEF Idle, Phases
<1> QED
  BY <1>1, <1>2 DEF JobType, Work, FacesOf, KnownTo

(* A step of an extraction at work, from what it leaves.                       *)
LEMMA TurnOf ==
    ASSUME IInv, NEW t \in Tasks, job[t].pc # "idle", NEW new, NEW j, Becomes(t, j), Sound(j, new)
    PROVE  Turn(t, new)
BY WorkIs DEF Turn, Becomes

LEMMA IdleIsSound ==
    ASSUME NEW new
    PROVE  Sound(Idle, new)
BY DEF Sound, JobType, AtWork, FacesOf, KnownTo, Current

LEMMA NoneMade ==
    ASSUME IInv, UNCHANGED minted
    PROVE  Minting({})
BY IdsAre DEF Minting, IInv, TypeOK

-----------------------------------------------------------------------------
(* Each action is such a step                                               *)

LEMMA StandingIs ==
    ASSUME IInv, UNCHANGED tagVars, UNCHANGED <<alone, docs>>
    PROVE  RowsStep /\ CountsStep /\ Minting({}) /\ Stored' = Stored
<1>1. docs' \in 0..MaxDocs
  BY DEF IInv, TypeOK
<1> QED
  BY <1>1, TablesStand, CountsStand, NoneMade DEF tagVars, Stored

LEMMA LookIs ==
    ASSUME IInv, NEW t \in Tasks, Look(t)
    PROVE  RowsStep /\ CountsStep /\ Minting({}) /\ Turn(t, {})
<1> DEFINE o == job[t]
<1>1. o.pc = "look" /\ UNCHANGED tagVars /\ UNCHANGED <<alone, docs>>
  BY DEF Look
<1>2. RowsStep /\ CountsStep /\ Minting({}) /\ Stored' = Stored
  BY <1>1, StandingIs
<1>3. o \in Work /\ AtWork(o) /\ Faces(o) \subseteq Seen /\ KnownTo(o) \subseteq Stored
  BY <1>1, WorkIs
<1>4. PICK n \in o.todo :
        LET hits == LabelHits(o.agent, n)
        IN  \/ \E r \in hits :
                  Becomes(t, [o EXCEPT !.todo = @ \ {n},
                                 !.known = IF r.name = n THEN @ \cup {<<n, r.id>>} ELSE @])
            \/ hits = {} /\ Becomes(t, [o EXCEPT !.todo = @ \ {n}])
            \/ "read" \in Faults /\ Becomes(t, Idle)
  BY DEF Look
<1>5. ASSUME NEW known, known \subseteq Names \X Ids, NEW j, j = [o EXCEPT !.todo = @ \ {n}, !.known = known],
             {<<k[2], k[1], o.agent>> : k \in known} \subseteq Seen, {k[2] : k \in known} \subseteq Stored
      PROVE  Sound(j, {})
  <2> HIDE DEF o
  <2>1. o.todo \ {n} \subseteq Names \cup Ids
    BY <1>3, AWorkIs
  <2>2. j \in Work
    BY <1>3, <1>5, <2>1 DEF Work
  <2>3. j.pc = "look" /\ j.agent = o.agent /\ j.known = known /\ j.fresh = o.fresh /\ j.cur = o.cur
        /\ j.found = o.found
    BY <1>1, <1>3, <1>5 DEF Work
  <2>4. Faces(j) \subseteq Seen
    BY <1>3, <1>5, <2>3 DEF Faces
  <2>5. \A x \in Faces(j) : x[3] = j.agent
    BY <1>3, <2>3, AWorkIs DEF Faces, AtWork
  <2>6. AtWork(j)
    BY <2>3, <2>5 DEF AtWork
  <2>7. KnownTo(j) \subseteq Stored'
    BY <1>2, <1>5, <2>2, <2>3, AWorkIs
  <2>8. Current(j, tags')
    BY <2>3 DEF Current
  <2> QED
    BY <2>2, <2>4, <2>6, <2>7, <2>8, AWorkIs DEF Sound
<1>6. /\ o.known \subseteq Names \X Ids /\ {<<k[2], k[1], o.agent>> : k \in o.known} \subseteq Seen
      /\ {k[2] : k \in o.known} \subseteq Stored
  BY <1>3, AWorkIs DEF Faces
<1>7. ASSUME NEW r \in LabelHits(o.agent, n), r.name = n
      PROVE  <<n, r.id>> \in Names \X Ids /\ <<r.id, n, o.agent>> \in Seen /\ r.id \in Stored
  <2>1. r \in tags /\ r.agent = o.agent /\ r \in Tag
    BY DEF LabelHits, IInv, TypeOK
  <2> HIDE DEF o
  <2> QED
    BY <1>7, <2>1 DEF Seen, Rows, Face, Stored, Tag
<1>8. \E j : Becomes(t, j) /\ Sound(j, {})
  <2>1. ASSUME NEW r \in LabelHits(o.agent, n),
               Becomes(t, [o EXCEPT !.todo = @ \ {n},
                              !.known = IF r.name = n THEN @ \cup {<<n, r.id>>} ELSE @])
        PROVE  \E j : Becomes(t, j) /\ Sound(j, {})
    <3> DEFINE known == IF r.name = n THEN o.known \cup {<<n, r.id>>} ELSE o.known
               j == [o EXCEPT !.todo = @ \ {n}, !.known = known]
    <3>1. known \subseteq Names \X Ids /\ {<<k[2], k[1], o.agent>> : k \in known} \subseteq Seen
          /\ {k[2] : k \in known} \subseteq Stored
      <4>1. ASSUME NEW k \in known
            PROVE  k \in Names \X Ids /\ <<k[2], k[1], o.agent>> \in Seen /\ k[2] \in Stored
        <5>1. CASE k \in o.known
          BY <1>6, <5>1
        <5>2. CASE k \notin o.known
          <6>1. r.name = n /\ k = <<n, r.id>>
            BY <5>2
          <6> QED
            BY <1>7, <6>1
        <5> QED
          BY <5>1, <5>2
      <4> QED
        BY <4>1
    <3>2. Becomes(t, j)
      BY <2>1
    <3> HIDE DEF known
    <3>3. Sound(j, {})
      BY <1>5, <3>1
    <3> QED
      BY <3>2, <3>3
  <2>2. ASSUME Becomes(t, [o EXCEPT !.todo = @ \ {n}])
        PROVE  \E j : Becomes(t, j) /\ Sound(j, {})
    <3> DEFINE known == o.known
               j == [o EXCEPT !.todo = @ \ {n}, !.known = known]
    <3>1. j = [o EXCEPT !.todo = @ \ {n}]
      BY <1>3 DEF Work
    <3>2. Becomes(t, j)
      BY <2>2, <3>1
    <3>3. Sound(j, {})
      BY <1>5, <1>6
    <3> QED
      BY <3>2, <3>3
  <2> QED
    BY <1>4, <2>1, <2>2, IdleIsSound
<1> QED
  BY <1>1, <1>2, <1>8, TurnOf

LEMMA TakeNewIs ==
    ASSUME IInv, NEW t \in Tasks, TakeNew(t)
    PROVE  RowsStep /\ CountsStep /\ Minting({}) /\ Turn(t, {})
<1> DEFINE o == job[t]
           known == {k[2] : k \in o.known}
<1>1. o.pc = "new" /\ UNCHANGED tagVars /\ UNCHANGED <<alone, docs>>
  BY DEF TakeNew
<1>2. RowsStep /\ CountsStep /\ Minting({}) /\ Stored' = Stored
  BY <1>1, StandingIs
<1>3. o \in Work /\ AtWork(o) /\ Faces(o) \subseteq Seen /\ known \subseteq Stored
  BY <1>1, WorkIs
<1>4. \/ \E r \in o.fresh :
            Becomes(t, [o EXCEPT !.pc = "find", !.back = "new", !.cur = r, !.fresh = @ \ {r}])
      \/ Becomes(t, [o EXCEPT !.pc = "get", !.todo = known])
  BY DEF TakeNew
<1>5. /\ o.fresh \subseteq Tag /\ o.known \subseteq Names \X Ids /\ o.found \in Tag \cup {NoTag}
      /\ NoTag \notin Tag
  BY <1>3, AWorkIs, TagAssumption
<1> HIDE DEF o
<1>6. ASSUME NEW r \in o.fresh, NEW j,
             j = [o EXCEPT !.pc = "find", !.back = "new", !.cur = r, !.fresh = @ \ {r}]
      PROVE  Sound(j, {})
  <2>1. j \in Work
    BY <1>3, <1>5, <1>6 DEF Work, Phases
  <2>2. /\ j.pc = "find" /\ j.back = "new" /\ j.agent = o.agent /\ j.known = o.known
        /\ j.fresh \subseteq o.fresh /\ j.cur = r /\ j.found = o.found /\ r # NoTag
    BY <1>3, <1>5, <1>6 DEF Work
  <2>3. Faces(j) \subseteq Faces(o)
    BY <1>6, <2>2 DEF Faces
  <2>4. AtWork(j)
    BY <1>3, <2>2, <2>3, AWorkIs DEF AtWork
  <2>5. KnownTo(j) \subseteq Stored'
    BY <1>2, <1>3, <2>1, <2>2, AWorkIs
  <2> QED
    BY <1>3, <2>1, <2>2, <2>3, <2>4, <2>5, AWorkIs DEF Sound, Current
<1>7. ASSUME NEW j, j = [o EXCEPT !.pc = "get", !.todo = known]
      PROVE  Sound(j, {})
  <2>0. known \subseteq Ids
    BY <1>5
  <2>1. j \in Work
    BY <1>3, <1>7, <2>0 DEF Work, Phases
  <2>2. /\ j.pc = "get" /\ j.agent = o.agent /\ j.known = o.known
        /\ j.fresh = o.fresh /\ j.cur = o.cur /\ j.found = o.found /\ j.todo = known
    BY <1>3, <1>7 DEF Work
  <2>3. Faces(j) = Faces(o)
    BY <2>2 DEF Faces
  <2>4. KnownTo(j) = known
    BY <2>1, <2>2, AWorkIs
  <2>5. AtWork(j)
    BY <1>3, <2>2, <2>3, <2>4, AWorkIs DEF AtWork
  <2> QED
    BY <1>2, <1>3, <2>1, <2>2, <2>3, <2>4, <2>5, AWorkIs DEF Sound, Current
<1>8. \E j : Becomes(t, j) /\ Sound(j, {})
  BY <1>4, <1>6, <1>7
<1> QED
  BY <1>1, <1>2, <1>8, TurnOf DEF o

LEMMA BumpIs ==
    ASSUME IInv, NEW t \in Tasks, Bump(t)
    PROVE  RowsStep /\ CountsStep /\ Minting({}) /\ Turn(t, {})
<1> DEFINE o == job[t]
<1>1. o.pc = "get" /\ UNCHANGED tagVars /\ UNCHANGED <<alone, docs>>
  BY DEF Bump
<1>2. RowsStep /\ CountsStep /\ Minting({}) /\ Stored' = Stored
  BY <1>1, StandingIs
<1>3. o \in Work /\ o # Idle /\ AtWork(o) /\ Faces(o) \subseteq Seen /\ KnownTo(o) \subseteq Stored
  BY <1>1, WorkIs
<1>4. PICK i \in o.todo :
        LET hits == {r \in tags : r.id = i}
        IN  \/ \E r \in hits :
                  Becomes(t, [o EXCEPT !.pc = "find", !.back = "get", !.cur = r, !.todo = @ \ {i}])
            \/ hits = {} /\ Becomes(t, [o EXCEPT !.todo = @ \ {i}])
            \/ "read" \in Faults /\ Becomes(t, Idle)
  BY DEF Bump
<1>5. /\ o.found \in Tag \cup {NoTag} /\ NoTag \notin Tag /\ tags \subseteq Tag
      /\ o.todo \subseteq KnownTo(o) /\ KnownTo(o) = {k[2] : k \in o.known}
      /\ o.todo \subseteq Names \cup Ids
  BY <1>1, <1>3, AWorkIs, TagAssumption DEF AtWork, IInv, TypeOK
<1>6. ASSUME NEW r \in tags, r.id = i
      PROVE  Face(r) \in Seen /\ r.agent = o.agent
  <2>1. Face(r) \in Seen
    BY DEF Seen, Rows
  <2>2. PICK k \in o.known : k[2] = i
    BY <1>5
  <2>3. <<k[2], k[1], o.agent>> \in Seen
    BY <1>3 DEF Faces
  <2> HIDE DEF o
  <2> QED
    BY <1>6, <2>1, <2>2, <2>3 DEF IInv, SeenInv, Face
<1> HIDE DEF o
<1>7. ASSUME NEW r \in tags, r.id = i, NEW j,
             j = [o EXCEPT !.pc = "find", !.back = "get", !.cur = r, !.todo = @ \ {i}]
      PROVE  Sound(j, {})
  <2>1. j \in Work
    BY <1>3, <1>5, <1>7 DEF Work, Phases
  <2>2. /\ j.pc = "find" /\ j.back = "get" /\ j.agent = o.agent /\ j.known = o.known
        /\ j.fresh = o.fresh /\ j.cur = r /\ j.found = o.found /\ r # NoTag /\ j.todo \subseteq o.todo
    BY <1>3, <1>5, <1>7 DEF Work
  <2>3. Faces(j) \subseteq Faces(o) \cup {Face(r)}
    BY <2>2 DEF Faces
  <2>4. KnownTo(j) = KnownTo(o)
    BY <1>5, <2>1, <2>2, AWorkIs
  <2>5. Face(r)[3] = o.agent
    BY <1>6, <1>7 DEF Face
  <2>6. \A x \in Faces(j) : x[3] = o.agent
    BY <1>3, <2>3, <2>5 DEF AtWork
  <2>7. AtWork(j)
    BY <1>5, <2>2, <2>4, <2>6 DEF AtWork
  <2> QED
    BY <1>2, <1>3, <1>6, <1>7, <2>1, <2>2, <2>3, <2>4, <2>7, AWorkIs DEF Sound, Current
<1>8. ASSUME NEW j, j = [o EXCEPT !.todo = @ \ {i}]
      PROVE  Sound(j, {})
  <2>1. j \in Work
    BY <1>3, <1>5, <1>8 DEF Work
  <2>2. /\ j.pc = "get" /\ j.agent = o.agent /\ j.known = o.known
        /\ j.fresh = o.fresh /\ j.cur = o.cur /\ j.found = o.found /\ j.todo \subseteq o.todo
    BY <1>1, <1>3, <1>8 DEF Work
  <2>3. Faces(j) = Faces(o)
    BY <2>2 DEF Faces
  <2>4. KnownTo(j) = KnownTo(o)
    BY <1>5, <2>1, <2>2, AWorkIs
  <2>5. AtWork(j)
    BY <1>3, <1>5, <2>2, <2>3, <2>4 DEF AtWork
  <2> QED
    BY <1>2, <1>3, <2>1, <2>2, <2>3, <2>4, <2>5, AWorkIs DEF Sound, Current
<1>9. \E j : Becomes(t, j) /\ Sound(j, {})
  BY <1>4, <1>7, <1>8, IdleIsSound
<1> QED
  BY <1>1, <1>2, <1>9, TurnOf DEF o

LEMMA FindCanonicalIs ==
    ASSUME IInv, NEW t \in Tasks, FindCanonical(t)
    PROVE  RowsStep /\ CountsStep /\ Minting({}) /\ Turn(t, {})
<1> DEFINE o == job[t]
           hits == {r \in tags : r.name = o.cur.name /\ r.agent = o.cur.agent}
<1>1. o.pc = "find" /\ UNCHANGED tagVars /\ UNCHANGED <<alone, docs>>
  BY DEF FindCanonical
<1>2. RowsStep /\ CountsStep /\ Minting({}) /\ Stored' = Stored
  BY <1>1, StandingIs
<1>3. o \in Work /\ o # Idle /\ AtWork(o) /\ Faces(o) \subseteq Seen /\ KnownTo(o) \subseteq Stored
  BY <1>1, WorkIs
<1>4. \/ \E r \in hits : Becomes(t, [o EXCEPT !.pc = "write", !.found = r])
      \/ hits = {} /\ Becomes(t, [o EXCEPT !.pc = "write", !.found = NoTag])
      \/ Becomes(t, Idle)
  BY DEF FindCanonical
<1>5. /\ NoTag \notin Tag /\ tags \subseteq Tag /\ tags' = tags /\ o.cur # NoTag /\ o.cur.agent = o.agent
      /\ KnownTo(o) = {k[2] : k \in o.known}
  <2>1. o.cur # NoTag /\ KnownTo(o) = {k[2] : k \in o.known}
    BY <1>1, <1>3, AWorkIs DEF AtWork
  <2>2. Face(o.cur) \in Faces(o)
    BY <2>1 DEF Faces
  <2>3. Face(o.cur)[3] = o.agent
    BY <1>3, <2>2 DEF AtWork
  <2> QED
    BY <1>1, <2>1, <2>3, TagAssumption DEF IInv, TypeOK, Face, tagVars
<1>6. \A r \in hits : Face(r) \in Seen /\ r.agent = o.agent /\ r.name = o.cur.name /\ r \in tags
  BY <1>5 DEF Seen, Rows
<1>7. hits = {} => \A r \in tags : ~(r.name = o.cur.name /\ r.agent = o.cur.agent)
  OBVIOUS
<1> HIDE DEF o, hits
<1>8. ASSUME NEW r, r \in hits \/ (r = NoTag /\ hits = {}), NEW j,
             j = [o EXCEPT !.pc = "write", !.found = r]
      PROVE  Sound(j, {})
  <2>0. r \in Tag \cup {NoTag}
    BY <1>5, <1>6, <1>8
  <2>1. j \in Work
    BY <1>3, <1>8, <2>0 DEF Work, Phases
  <2>2. /\ j.pc = "write" /\ j.back = o.back /\ j.agent = o.agent /\ j.known = o.known
        /\ j.fresh = o.fresh /\ j.cur = o.cur /\ j.found = r /\ j.todo = o.todo
    BY <1>3, <1>8 DEF Work
  <2>3. Faces(j) \subseteq Faces(o) \cup {Face(x) : x \in {r} \ {NoTag}}
    BY <2>2 DEF Faces
  <2>4. KnownTo(j) = KnownTo(o)
    BY <1>5, <2>1, <2>2, AWorkIs
  <2>5. r # NoTag => r \in hits /\ Face(r) \in Seen /\ Face(r)[3] = o.agent
    BY <1>6, <1>8 DEF Face
  <2>6. Faces(j) \subseteq Seen /\ \A x \in Faces(j) : x[3] = o.agent
    BY <1>3, <2>3, <2>5 DEF AtWork
  <2>7. AtWork(j)
    BY <1>1, <1>3, <1>5, <1>6, <2>2, <2>4, <2>5, <2>6 DEF AtWork
  <2>8. Current(j, tags')
    BY <1>5, <1>6, <1>7, <1>8, <2>2 DEF Current, Matches
  <2> QED
    BY <1>2, <1>3, <2>1, <2>4, <2>6, <2>7, <2>8, AWorkIs DEF Sound
<1>9. \E j : Becomes(t, j) /\ Sound(j, {})
  BY <1>4, <1>8, IdleIsSound
<1> QED
  BY <1>1, <1>2, <1>9, TurnOf DEF o

(* A finite set is listed without repetition.                                 *)
LEMMA SetToSeqIs ==
    ASSUME NEW S, IsFiniteSet(S)
    PROVE  /\ SetToSeq(S) \in [1..Cardinality(S) -> S] /\ Cardinality(S) \in Nat
           /\ \A k, l \in 1..Cardinality(S) : SetToSeq(S)[k] = SetToSeq(S)[l] => k = l
<1>1. Cardinality(S) \in Nat /\ ExistsBijection(1..Cardinality(S), S)
  BY FS_CardinalityType
<1>2. PICK f \in [1..Cardinality(S) -> S] : IsInjective(f)
  BY <1>1 DEF ExistsBijection, Bijection, Injection
<1>3. SetToSeq(S) \in [1..Cardinality(S) -> S] /\ IsInjective(SetToSeq(S))
  BY <1>2 DEF SetToSeq
<1> QED
  BY <1>1, <1>3 DEF IsInjective

LEMMA EncodeIs ==
    ASSUME IInv, NEW t \in Tasks, Encode(t)
    PROVE  RowsStep /\ CountsStep /\ \E new : Minting(new) /\ Turn(t, new)
<1> DEFINE o == job[t]
           unknown == {n \in Labels(t) : ~Known(t, n)}
           made(kept) == {[id |-> minted + k, name |-> SetToSeq(kept)[k], agent |-> o.agent, freq |-> 1] :
                             k \in DOMAIN SetToSeq(kept)}
<1>1. o.pc = "look" /\ UNCHANGED <<tags, total, together, carried, lost, alone, docs>>
  BY DEF Encode
<1>2. RowsStep /\ CountsStep /\ Stored' = Stored
  <2>1. docs' \in 0..MaxDocs
    BY <1>1 DEF IInv, TypeOK
  <2> QED
    BY <1>1, <2>1, TablesStand, CountsStand DEF Stored
<1>3. o \in Work /\ o # Idle /\ AtWork(o) /\ Faces(o) \subseteq Seen /\ KnownTo(o) \subseteq Stored
  BY <1>1, WorkIs
<1>4. \/ \E kept \in SUBSET unknown :
            /\ minted + Cardinality(kept) <= MaxTags
            /\ minted' = minted + Cardinality(kept)
            /\ Becomes(t, [o EXCEPT !.pc = "new", !.fresh = made(kept)])
      \/ Becomes(t, Idle) /\ UNCHANGED minted
  BY DEF Encode
<1>5. unknown \subseteq Names
  <2>1. o.chunks \in Seq(SUBSET Names)
    BY <1>3, AWorkIs
  <2>2. \A i \in DOMAIN o.chunks : o.chunks[i] \subseteq Names
    BY <2>1, ElementOfSeq, LenProperties
  <2> QED
    BY <2>2 DEF Labels, Range
<1>6. ASSUME NEW kept \in SUBSET unknown, minted + Cardinality(kept) <= MaxTags,
             minted' = minted + Cardinality(kept),
             Becomes(t, [o EXCEPT !.pc = "new", !.fresh = made(kept)])
      PROVE  \E new : Minting(new) /\ Turn(t, new)
  <2> DEFINE N == Cardinality(kept)
             order == SetToSeq(kept)
             j == [o EXCEPT !.pc = "new", !.fresh = made(kept)]
             new == {Face(r) : r \in made(kept)}
  <2>1. IsFiniteSet(kept)
    BY <1>5, TagAssumption, FS_Subset
  <2>2. /\ N \in Nat /\ order \in [1..N -> kept]
        /\ \A k, l \in 1..N : order[k] = order[l] => k = l
    BY <2>1, SetToSeqIs
  <2>3. minted \in Nat /\ MaxTags \in Nat /\ minted' = minted + N /\ minted + N <= MaxTags
    BY <1>6, IdsAre
  <2>4. o.agent \in Agents
    BY <1>3, AWorkIs
  <2>5. DOMAIN order = 1..N /\ \A k \in 1..N : order[k] \in Names
    BY <1>5, <2>2
  <2>6. made(kept) = {[id |-> minted + k, name |-> order[k], agent |-> o.agent, freq |-> 1] : k \in 1..N}
    BY <2>5
  <2> HIDE DEF o, order, N, made
  <2>7. made(kept) \subseteq Tag
    BY <2>2, <2>3, <2>4, <2>5, <2>6 DEF Tag, Ids
  <2>8. new = {<<minted + k, order[k], o.agent>> : k \in 1..N}
    <3> DEFINE item(k) == [id |-> minted + k, name |-> order[k], agent |-> o.agent, freq |-> 1]
               face(k) == <<minted + k, order[k], o.agent>>
    <3>1. \A k : Face(item(k)) = face(k)
      BY DEF Face
    <3>2. made(kept) = {item(k) : k \in 1..N}
      BY <2>6
    <3> HIDE DEF item, face, j
    <3>3. new = {face(k) : k \in 1..N}
      BY <3>1, <3>2
    <3> QED
      BY <3>3 DEF face
  <2> HIDE DEF new
  <2>9. Minting(new)
    <3>1. minted' \in minted..MaxTags
      BY <2>2, <2>3
    <3>2. ASSUME NEW x \in new
          PROVE  minted < x[1] /\ x[1] <= minted' /\ x[3] = o.agent
      BY <2>2, <2>3, <2>8
    <3>3. ASSUME NEW x \in new, NEW y \in new, x[1] = y[1]
          PROVE  x = y
      <4>1. PICK k \in 1..N : x = <<minted + k, order[k], o.agent>>
        BY <2>8
      <4>2. PICK l \in 1..N : y = <<minted + l, order[l], o.agent>>
        BY <2>8
      <4>3. minted + k = minted + l
        BY <3>3, <4>1, <4>2
      <4>4. k = l
        BY <2>2, <2>3, <4>3
      <4> QED
        BY <4>1, <4>2, <4>4
    <3> QED
      BY <3>1, <3>2, <3>3 DEF Minting
  <2>10. j \in Work
    BY <1>3, <2>7 DEF Work, Phases
  <2>11. /\ j.pc = "new" /\ j.agent = o.agent /\ j.known = o.known
         /\ j.fresh = made(kept) /\ j.cur = o.cur /\ j.found = o.found
    BY <1>3 DEF Work
  <2>12. Becomes(t, j)
    BY <1>6
  <2> HIDE DEF j
  <2>13. Faces(j) \subseteq Faces(o) \cup new
    BY <2>11 DEF Faces, new
  <2>14. \A x \in Faces(j) : x[3] = j.agent
    BY <1>3, <2>8, <2>11, <2>13 DEF AtWork
  <2>15. AtWork(j)
    BY <2>11, <2>14 DEF AtWork
  <2>16. KnownTo(j) \subseteq Stored'
    BY <1>2, <1>3, <2>10, <2>11, AWorkIs
  <2>17. Sound(j, new)
    BY <1>3, <2>10, <2>11, <2>13, <2>15, <2>16, AWorkIs DEF Sound, Current
  <2>18. job[t].pc # "idle"
    BY <1>1 DEF o
  <2> QED
    BY <2>9, <2>12, <2>17, <2>18, TurnOf
<1>7. ASSUME Becomes(t, Idle), UNCHANGED minted
      PROVE  \E new : Minting(new) /\ Turn(t, new)
  BY <1>1, <1>7, NoneMade, IdleIsSound, TurnOf
<1> QED
  BY <1>2, <1>4, <1>6, <1>7

(* The row that is written is of the tag that was to be written or found.       *)
LEMMA MergeIs ==
    ASSUME IInv, NEW t \in Tasks, job[t].pc = "write", NEW r, r = Merge(job[t].cur, job[t].found)
    PROVE  /\ r \in Tag /\ Face(r) \in Seen /\ r.agent = job[t].agent
           /\ job[t].cur \in Tag /\ r.name = job[t].cur.name /\ Face(job[t].cur) \in Seen
           /\ job[t].cur.agent = job[t].agent
           /\ job[t].found = NoTag => r = job[t].cur
           /\ job[t].found # NoTag => /\ job[t].found \in Tag /\ Face(r) = Face(job[t].found)
                                      /\ r.freq = job[t].found.freq + 1
<1> DEFINE o == job[t]
<1>1. o \in Work /\ o # Idle /\ AtWork(o) /\ Faces(o) \subseteq Seen
  BY WorkIs
<1>2. /\ o.cur \in Tag /\ o.cur # NoTag /\ o.found \in Tag \cup {NoTag}
      /\ o.found # NoTag => o.found.name = o.cur.name
  BY <1>1, AWorkIs DEF AtWork
<1>3. Face(o.cur) \in Faces(o) /\ (o.found # NoTag => Face(o.found) \in Faces(o))
  BY <1>2 DEF Faces
<1>4. Face(o.cur)[3] = o.agent /\ (o.found # NoTag => Face(o.found)[3] = o.agent)
  BY <1>1, <1>3 DEF AtWork
<1>5. CASE o.found = NoTag
  <2>1. r = o.cur
    BY <1>5 DEF Merge
  <2> HIDE DEF o
  <2> QED
    BY <1>1, <1>2, <1>3, <1>4, <1>5, <2>1 DEF Face, o
<1>6. CASE o.found # NoTag
  <2> DEFINE f == o.found
  <2>1. r = [f EXCEPT !.freq = @ + 1] /\ f \in Tag
    BY <1>2, <1>6 DEF Merge
  <2> HIDE DEF o, f
  <2>2. r \in Tag /\ r.id = f.id /\ r.name = f.name /\ r.agent = f.agent /\ r.freq = f.freq + 1
    BY <2>1 DEF Tag
  <2>3. Face(r) = Face(f)
    BY <2>2 DEF Face
  <2> QED
    BY <1>1, <1>2, <1>3, <1>4, <1>6, <2>2, <2>3 DEF Face, o, f
<1> QED
  BY <1>5, <1>6

LEMMA SameFace ==
    ASSUME IInv, NEW x, NEW y, Face(x) \in Seen, Face(y) \in Seen, x.id = y.id
    PROVE  x.name = y.name /\ x.agent = y.agent
BY DEF IInv, SeenInv, Face

LEMMA WriteTagIs ==
    ASSUME IInv, NEW t \in Tasks, WriteTag(t)
    PROVE  RowsStep /\ CountsStep /\ Minting({}) /\ Turn(t, {})
<1> DEFINE o == job[t]
           r == Merge(o.cur, o.found)
           known == IF o.back = "new" THEN o.known \cup {<<r.name, r.id>>} ELSE o.known
           done == [o EXCEPT !.pc = o.back, !.cur = NoTag, !.found = NoTag, !.known = known]
           kept == {s \in tags : s.id # r.id}
<1>1. o.pc = "write" /\ UNCHANGED <<minted, total, together, carried, alone, docs>>
  BY DEF WriteTag
<1>2. CountsStep /\ Minting({})
  BY <1>1, CountsStand, NoneMade
<1>3. o \in Work /\ o # Idle /\ AtWork(o) /\ Faces(o) \subseteq Seen /\ KnownTo(o) \subseteq Stored
  BY <1>1, WorkIs
<1>4. \/ tags' \in {kept \cup {r}, tags \cup {r}} /\ lost' = lost /\ Becomes(t, done)
      \/ tags' = kept /\ lost' = lost \cup {r.id} /\ Becomes(t, Idle)
  BY DEF WriteTag, Upserted
<1>5. /\ r \in Tag /\ Face(r) \in Seen /\ r.agent = o.agent
      /\ o.cur \in Tag /\ r.name = o.cur.name /\ Face(o.cur) \in Seen /\ o.cur.agent = o.agent
      /\ o.found = NoTag => r = o.cur
      /\ o.found # NoTag => o.found \in Tag /\ Face(r) = Face(o.found) /\ r.freq = o.found.freq + 1
  BY <1>1, MergeIs
<1>6. alone => IF o.found = NoTag THEN \A s \in tags : ~Matches(s, o) ELSE o.found \in tags
  BY <1>1, <1>3 DEF IInv, AloneInv, Current
<1>7. tags \subseteq Tag /\ lost \subseteq Ids /\ r.id \in Ids /\ r.name \in Names
  BY <1>5 DEF IInv, TypeOK, Tag
<1>8. \A s \in tags : Face(s) \in Seen
  BY DEF Seen, Rows
<1> HIDE DEF r
<1>9. tags' \subseteq tags \cup {r} /\ Stored \subseteq Stored'
      /\ (Becomes(t, done) => r.id \in Stored')
  <2>1. Stored' = {s.id : s \in tags'} \cup lost'
    BY DEF Stored
  <2>2. CASE tags' = tags \cup {r} /\ lost' = lost
    BY <2>1, <2>2 DEF Stored
  <2>3. CASE tags' = kept \cup {r} /\ lost' = lost
    BY <2>1, <2>3 DEF Stored
  <2>4. ASSUME tags' = kept, lost' = lost \cup {r.id}
        PROVE  Stored \subseteq Stored' /\ r.id \in Stored'
    BY <2>1, <2>4 DEF Stored
  <2> HIDE DEF done, kept
  <2> QED
    BY <1>4, <2>2, <2>3, <2>4 DEF kept
<1> HIDE DEF kept
<1>10. RowsStep
  <2>1. tags' \subseteq Tag /\ lost' \subseteq Ids
    BY <1>4, <1>5, <1>7, <1>9
  <2>2. Rows' \subseteq Seen
    BY <1>5, <1>8, <1>9 DEF Rows
  <2>3. carried \subseteq carried' /\ carried' \subseteq Stored' /\ carried' \subseteq Ids
    BY <1>1, <1>9 DEF IInv, KnownInv, TypeOK
  <2>4. docs' \in 0..MaxDocs /\ alone' = alone
    BY <1>1 DEF IInv, TypeOK
  <2>5. ASSUME alone, NEW s \in tags, s.name = r.name, s.agent = r.agent
        PROVE  s.id = r.id
    <3>1. o.found # NoTag
      BY <1>5, <1>6, <2>5 DEF Matches
    <3>2. o.found \in tags /\ Face(r) = Face(o.found)
      BY <1>5, <1>6, <2>5, <3>1
    <3> HIDE DEF o
    <3> QED
      BY <2>5, <3>2 DEF IInv, OneTagPerLabel, Face
  <2>6. ASSUME alone, NEW p \in tags', NEW q \in tags', p.name = q.name, p.agent = q.agent
        PROVE  p.id = q.id
    <3>1. p \in tags \/ p = r
      BY <1>9
    <3>2. q \in tags \/ q = r
      BY <1>9
    <3>3. p \in tags /\ q \in tags => p.id = q.id
      BY <2>6 DEF IInv, OneTagPerLabel
    <3> QED
      BY <2>5, <2>6, <3>1, <3>2, <3>3
  <2>7. ASSUME alone, NEW p \in tags, SingleRow(p), NEW q \in tags', q.id = p.id
        PROVE  q.freq >= p.freq
    <3>1. p.freq \in Nat
      BY <1>7 DEF Tag
    <3>2. CASE q \in tags
      BY <2>7, <3>1, <3>2 DEF SingleRow
    <3>3. CASE q = r
      <4>1. o.found # NoTag
        <5>1. ASSUME o.found = NoTag
              PROVE  FALSE
          <6>1. r = o.cur /\ ~Matches(p, o)
            BY <1>5, <1>6, <2>7, <5>1
          <6>2. p.name = r.name /\ p.agent = r.agent
            BY <1>5, <1>8, <2>7, <3>3, SameFace
          <6> QED
            BY <6>1, <6>2 DEF Matches
        <5> QED
          BY <5>1
      <4>2. o.found \in tags /\ Face(r) = Face(o.found) /\ r.freq = o.found.freq + 1
        BY <1>5, <1>6, <2>7, <4>1
      <4> HIDE DEF o
      <4>3. o.found = p
        BY <2>7, <3>3, <4>2 DEF SingleRow, Face
      <4> QED
        BY <3>1, <3>3, <4>2, <4>3
    <3> QED
      BY <1>9, <3>2, <3>3
  <2> QED
    BY <1>9, <2>1, <2>2, <2>3, <2>4, <2>6, <2>7 DEF RowsStep
<1>11. ASSUME Becomes(t, done)
       PROVE  Sound(done, {})
  <2>0. o.known \subseteq Names \X Ids /\ o.back \in {"new", "get"} /\ o.todo \subseteq Names \cup Ids
        /\ KnownTo(o) = {k[2] : k \in o.known}
    BY <1>3, AWorkIs
  <2>1. known \subseteq Names \X Ids
    BY <1>7, <2>0
  <2>2. \A k \in known : k \in o.known \/ k = <<r.name, r.id>>
    OBVIOUS
  <2>3. o.known \subseteq known
    OBVIOUS
  <2> HIDE DEF o, known
  <2>4. done \in Work
    BY <1>3, <2>0, <2>1 DEF Work, Phases
  <2>5. /\ done.pc = o.back /\ done.back = o.back /\ done.agent = o.agent /\ done.known = known
        /\ done.fresh = o.fresh /\ done.cur = NoTag /\ done.found = NoTag /\ done.todo = o.todo
    BY <1>3 DEF Work
  <2> HIDE DEF done
  <2>6. Faces(done) = {Face(s) : s \in o.fresh} \cup {<<k[2], k[1], o.agent>> : k \in known}
    BY <2>5 DEF Faces
  <2>7. ASSUME NEW k \in known
        PROVE  <<k[2], k[1], o.agent>> \in Faces(o) \cup {Face(r)}
    <3>1. CASE k \in o.known
      BY <3>1 DEF Faces
    <3>2. CASE k = <<r.name, r.id>>
      BY <1>5, <3>2 DEF Face
    <3> QED
      BY <2>2, <3>1, <3>2
  <2>8. \A s \in o.fresh : Face(s) \in Faces(o)
    BY DEF Faces
  <2>9. Faces(done) \subseteq Faces(o) \cup {Face(r)}
    BY <2>6, <2>7, <2>8
  <2>10. \A x \in Faces(done) : x[3] = done.agent
    BY <1>3, <1>5, <2>5, <2>9 DEF AtWork, Face
  <2>11. KnownTo(done) = {k[2] : k \in known}
    BY <2>4, <2>5, AWorkIs
  <2>12. AtWork(done)
    BY <1>1, <1>3, <2>0, <2>3, <2>5, <2>10, <2>11 DEF AtWork
  <2>13. KnownTo(done) \subseteq Stored'
    <3>1. ASSUME NEW k \in known
          PROVE  k[2] \in Stored'
      BY <1>3, <1>9, <1>11, <2>0, <2>2
    <3> QED
      BY <2>11, <3>1
  <2>14. Current(done, tags')
    BY <2>0, <2>5 DEF Current
  <2> QED
    BY <1>3, <1>5, <2>4, <2>9, <2>12, <2>13, <2>14, AWorkIs DEF Sound
<1>12. \E j : Becomes(t, j) /\ Sound(j, {})
  BY <1>4, <1>11, IdleIsSound
<1> QED
  BY <1>1, <1>2, <1>10, <1>12, TurnOf

(* Pairs are counted after their tags, which the extraction knows.              *)
LEMMA CountingIs ==
    ASSUME IInv, NEW t \in Tasks, NEW ids, ids \subseteq KnownTo(job[t]), NEW P, P \subseteq PairsOf(ids),
           total' = Counted(ids), together' = Paired(P)
    PROVE  CountsStep
<1>1. total \in [Ids -> Nat] /\ together \in [Pairs -> Nat] /\ \A p \in Pairs : \A i \in p : together[p] <= total[i]
  BY DEF IInv, TypeOK, PairsWithinTotals
<1>2. \A p \in Pairs : p \subseteq Ids
  BY DEF Pairs, kSubset
<1>3. \A p \in P : p \subseteq ids
  BY DEF PairsOf, kSubset
<1>4. \A i \in Ids : total'[i] = IF i \in ids THEN total[i] + 1 ELSE total[i]
  BY DEF Counted
<1>5. \A p \in Pairs : together'[p] = IF p \in P THEN together[p] + 1 ELSE together[p]
  BY DEF Paired
<1>6. total' \in [Ids -> Nat] /\ together' \in [Pairs -> Nat]
  BY <1>1 DEF Counted, Paired
<1>7. ASSUME NEW p \in Pairs, NEW i \in p
      PROVE  together'[p] <= total'[i]
  <2>1. i \in Ids /\ total[i] \in Nat /\ together[p] \in Nat /\ together[p] <= total[i]
    BY <1>1, <1>2
  <2>2. p \in P => i \in ids
    BY <1>3
  <2> QED
    BY <1>4, <1>5, <2>1, <2>2
<1>8. ASSUME NEW p \in Pairs, together'[p] > 0
      PROVE  together[p] > 0 \/ \E u \in Tasks : p \subseteq KnownTo(job[u])
  BY <1>3, <1>5, <1>8
<1> QED
  BY <1>6, <1>7, <1>8 DEF CountsStep

LEMMA TagsOfIs ==
    ASSUME IInv, NEW t \in Tasks, job[t].pc # "idle", NEW k
    PROVE  TagsOf(t, k) \subseteq KnownTo(job[t])
<1>1. KnownTo(job[t]) = {x[2] : x \in job[t].known}
  BY WorkIs
<1> QED
  BY <1>1 DEF TagsOf

(* An extraction that only moves on keeps what it knows.                       *)
LEMMA MovingOnIs ==
    ASSUME IInv, NEW t \in Tasks, job[t].pc # "idle", NEW j, Becomes(t, j), Stored \subseteq Stored',
           NEW n \in Nat, j = [job[t] EXCEPT !.pc = "record", !.next = n]
    PROVE  Turn(t, {})
<1> DEFINE o == job[t]
<1>1. o \in Work /\ AtWork(o) /\ Faces(o) \subseteq Seen /\ KnownTo(o) \subseteq Stored
  BY WorkIs
<1>2. o # Idle
  BY WorkIs
<1> HIDE DEF o
<1>3. j = [o EXCEPT !.pc = "record", !.next = n]
  BY DEF o
<1>4. j \in Work
  BY <1>1, <1>3 DEF Work, Phases
<1>5. /\ j.pc = "record" /\ j.agent = o.agent /\ j.known = o.known /\ j.fresh = o.fresh
      /\ j.cur = o.cur /\ j.found = o.found
  BY <1>1, <1>3 DEF Work
<1>6. Faces(j) = Faces(o)
  BY <1>5 DEF Faces
<1>7. KnownTo(j) = KnownTo(o)
  BY <1>1, <1>4, <1>5, AWorkIs
<1>8. AtWork(j)
  BY <1>1, <1>2, <1>5, <1>6 DEF AtWork
<1>9. Sound(j, {})
  BY <1>1, <1>4, <1>5, <1>6, <1>7, <1>8, AWorkIs DEF Sound, Current
<1> QED
  BY <1>9, TurnOf

LEMMA StartRecordIs ==
    ASSUME IInv, NEW t \in Tasks, StartRecord(t)
    PROVE  RowsStep /\ CountsStep /\ Minting({}) /\ Turn(t, {})
<1> DEFINE o == job[t]
<1>1. /\ o.pc = "get" /\ UNCHANGED tagVars /\ UNCHANGED <<alone, docs>>
      /\ Becomes(t, [o EXCEPT !.pc = "record"])
  BY DEF StartRecord
<1>2. RowsStep /\ CountsStep /\ Minting({}) /\ Stored' = Stored
  BY <1>1, StandingIs
<1>3. o \in Work /\ o.next \in Nat
  BY <1>1, WorkIs, AWorkIs
<1>4. [o EXCEPT !.pc = "record"] = [o EXCEPT !.pc = "record", !.next = o.next]
  BY <1>3 DEF Work
<1> QED
  BY <1>1, <1>2, <1>3, <1>4, MovingOnIs

LEMMA RecordIs ==
    ASSUME IInv, NEW t \in Tasks, Record(t)
    PROVE  RowsStep /\ CountsStep /\ Minting({}) /\ Turn(t, {})
<1> DEFINE o == job[t]
           ids == TagsOf(t, o.next)
<1>1. /\ o.pc = "record" /\ UNCHANGED <<tags, minted, carried, lost, alone, docs>>
      /\ Becomes(t, [o EXCEPT !.next = @ + 1])
  BY DEF Record
<1>2. RowsStep /\ Stored \subseteq Stored' /\ Minting({})
  <2>1. docs' \in 0..MaxDocs
    BY <1>1 DEF IInv, TypeOK
  <2> QED
    BY <1>1, <2>1, TablesStand, NoneMade DEF Stored
<1>3. CountsStep
  <2>1. CASE UNCHANGED <<total, together>>
    BY <2>1, CountsStand
  <2>2. CASE total' = Counted(ids) /\ together' = Paired(PairsOf(ids))
    <3>1. ids \subseteq KnownTo(o)
      BY <1>1, TagsOfIs
    <3> QED
      BY <2>2, <3>1, CountingIs
  <2> QED
    BY <2>1, <2>2 DEF Record
<1>4. o \in Work /\ o.next \in Nat
  BY <1>1, WorkIs, AWorkIs
<1>5. [o EXCEPT !.next = @ + 1] = [o EXCEPT !.pc = "record", !.next = o.next + 1]
  BY <1>1, <1>4 DEF Work
<1>6. o.next + 1 \in Nat
  BY <1>4
<1> QED
  BY <1>1, <1>2, <1>3, <1>5, <1>6, MovingOnIs

LEMMA RecordFailsIs ==
    ASSUME IInv, NEW t \in Tasks, RecordFails(t)
    PROVE  RowsStep /\ CountsStep /\ Minting({}) /\ Turn(t, {})
<1> DEFINE o == job[t]
           ids == TagsOf(t, o.next)
<1>1. /\ o.pc = "record" /\ UNCHANGED <<tags, minted, carried, lost, alone, docs>> /\ Becomes(t, Idle)
      /\ \/ \E S \in SUBSET ids : total' = Counted(S) /\ UNCHANGED together
         \/ \E P \in SUBSET PairsOf(ids) : total' = Counted(ids) /\ together' = Paired(P)
  BY DEF RecordFails
<1>2. RowsStep /\ Minting({})
  <2>1. docs' \in 0..MaxDocs
    BY <1>1 DEF IInv, TypeOK
  <2> QED
    BY <1>1, <2>1, TablesStand, NoneMade
<1>3. ids \subseteq KnownTo(o)
  BY <1>1, TagsOfIs
<1>4. CountsStep
  <2>1. ASSUME NEW S \in SUBSET ids, total' = Counted(S), UNCHANGED together
        PROVE  CountsStep
    <3>1. together = Paired({})
      BY DEF IInv, TypeOK, Paired
    <3>2. S \subseteq KnownTo(o)
      BY <1>3
    <3> QED
      BY <2>1, <3>1, <3>2, CountingIs
  <2>2. ASSUME NEW P \in SUBSET PairsOf(ids), total' = Counted(ids), together' = Paired(P)
        PROVE  CountsStep
    BY <1>3, <2>2, CountingIs
  <2> QED
    BY <1>1, <2>1, <2>2
<1> QED
  BY <1>1, <1>2, <1>4, IdleIsSound, TurnOf

LEMMA ExtractedIs ==
    ASSUME IInv, NEW t \in Tasks, Extracted(t)
    PROVE  RowsStep /\ CountsStep /\ Minting({}) /\ Turn(t, {})
<1> DEFINE o == job[t]
           named == UNION {TagsOf(t, k) : k \in DOMAIN o.chunks}
<1>1. /\ o.pc = "record" /\ UNCHANGED <<tags, minted, total, together, lost, alone, docs>>
      /\ Becomes(t, Idle) /\ carried' = carried \cup named
  BY DEF Extracted
<1>2. CountsStep /\ Minting({}) /\ Stored' = Stored
  BY <1>1, CountsStand, NoneMade DEF Stored
<1>3. named \subseteq Stored /\ Stored \subseteq Ids
  BY <1>1, TagsOfIs, WorkIs, IdsAre
<1> HIDE DEF named
<1>4. RowsStep
  <2>1. carried \subseteq carried' /\ carried' \subseteq Stored' /\ carried' \subseteq Ids
    BY <1>1, <1>2, <1>3 DEF IInv, KnownInv, TypeOK
  <2>2. Rows' = Rows /\ Rows \subseteq Seen
    BY <1>1 DEF Rows, Seen
  <2>3. \A r, s \in tags : SingleRow(r) /\ s.id = r.id => s.freq >= r.freq
    <3>1. \A r \in tags : r.freq \in Nat
      BY DEF IInv, TypeOK, Tag
    <3> QED
      BY <3>1 DEF SingleRow
  <2> QED
    BY <1>1, <1>2, <2>1, <2>2, <2>3 DEF RowsStep, IInv, TypeOK, OneTagPerLabel
<1> QED
  BY <1>1, <1>2, <1>4, IdleIsSound, TurnOf

LEMMA CandidatesAre ==
    ASSUME NEW d \in Documents, NEW skeleton \in SkeletonsFor(d[1])
    PROVE  Candidates(d, skeleton) \in Seq(SUBSET Names)
<1> DEFINE chunks == Chunks(d[1], d[2], d[3])
           l == [i \in DOMAIN chunks |-> skeleton \cup LabelsOf(FirstSentence(chunks[i]))]
<1>1. d[1] \in Texts /\ d[2] \in Nat /\ d[3] \in Nat
  BY TagAssumption
<1>2. skeleton \subseteq Names
  BY TagAssumption DEF SkeletonsFor, Fallback, LabelsOf
<1>3. PICK n \in Nat : DOMAIN chunks = 1..n
  BY <1>1, ChunksAre
<1> HIDE DEF chunks
<1>4. \A i \in 1..n : l[i] \in SUBSET Names
  BY <1>2, <1>3 DEF LabelsOf
<1>5. l \in [1..n -> SUBSET Names]
  BY <1>3, <1>4
<1>6. Candidates(d, skeleton) = l
  BY DEF Candidates, chunks
<1> HIDE DEF l
<1> QED
  BY <1>5, <1>6, SeqDef

LEMMA StartExtractIs ==
    ASSUME IInv, NEW t \in Tasks, NEW a \in Agents, StartExtract(t, a)
    PROVE  RowsStep /\ CountsStep /\ Minting({}) /\ Turn(t, {})
<1>1. /\ job[t] = Idle /\ docs < MaxDocs /\ docs' = docs + 1 /\ UNCHANGED tagVars /\ UNCHANGED alone
      /\ alone => \A u \in Tasks : job[u] = Idle
  BY DEF StartExtract
<1>2. RowsStep /\ CountsStep /\ Minting({})
  <2>1. docs' \in 0..MaxDocs
    BY <1>1, IdsAre DEF IInv, TypeOK
  <2> QED
    BY <1>1, <2>1, TablesStand, CountsStand, NoneMade DEF tagVars
<1>3. PICK labels \in Seq(SUBSET Names) :
        Becomes(t, [pc |-> "look", back |-> "new", agent |-> a, chunks |-> labels, next |-> 1,
                    todo |-> UNION Range(labels), known |-> {}, fresh |-> {}, cur |-> NoTag,
                    found |-> NoTag])
  <2>1. PICK d \in Documents : \E skeleton \in SkeletonsFor(d[1]) :
          LET labels == Candidates(d, skeleton)
          IN  /\ labels # <<>>
              /\ Becomes(t, [pc |-> "look", back |-> "new", agent |-> a, chunks |-> labels, next |-> 1,
                             todo |-> UNION Range(labels), known |-> {}, fresh |-> {}, cur |-> NoTag,
                             found |-> NoTag])
    BY DEF StartExtract
  <2> QED
    BY <2>1, CandidatesAre
<1> DEFINE todo == UNION Range(labels)
           j == [pc |-> "look", back |-> "new", agent |-> a, chunks |-> labels, next |-> 1,
                 todo |-> todo, known |-> {}, fresh |-> {}, cur |-> NoTag, found |-> NoTag]
           E == Seq(SUBSET Names)
<1>4. todo \subseteq Names
  <2>1. \A i \in DOMAIN labels : labels[i] \subseteq Names
    BY ElementOfSeq, LenProperties
  <2> QED
    BY <2>1 DEF Range
<1>5. labels \in E
  OBVIOUS
<1>6. job' = [job EXCEPT ![t] = j]
  BY <1>3 DEF Becomes
<1> HIDE DEF todo, E
<1>7. j \in Work
  <2>1. j \in [pc : Phases, back : {"new", "get"}, agent : Agents, chunks : E, next : Nat,
               todo : SUBSET (Names \cup Ids), known : SUBSET (Names \X Ids), fresh : SUBSET Tag,
               cur : Tag \cup {NoTag}, found : Tag \cup {NoTag}]
    BY <1>4, <1>5 DEF Phases
  <2> QED
    BY <2>1 DEF Work, E
<1>8. /\ j.pc = "look" /\ j.known = {} /\ j.fresh = {} /\ j.cur = NoTag /\ j.found = NoTag
  OBVIOUS
<1> HIDE DEF j
<1>9. Faces(j) = {}
  BY <1>8 DEF Faces
<1>10. KnownTo(j) = {}
  BY <1>7, <1>8, AWorkIs
<1>11. Sound(j, {})
  BY <1>7, <1>8, <1>9, <1>10, AWorkIs DEF Sound, AtWork, Current
<1> QED
  BY <1>1, <1>2, <1>6, <1>11 DEF Turn

-----------------------------------------------------------------------------
(* Every step is one                                                        *)

Moves(new) ==
    /\ job' \in [Tasks -> JobType]
    /\ \A t \in Tasks : Sound(job'[t], new)
    /\ alone => \A t, u \in Tasks : job'[t] # Idle /\ job'[u] # Idle => t = u

(* An extraction that waits stays sound.                                       *)
LEMMA WaitingIs ==
    ASSUME IInv, RowsStep, NEW t \in Tasks, NEW new, alone => Current(job[t], tags')
    PROVE  Sound(job[t], new)
<1>1. job[t] \in JobType /\ AtWork(job[t]) /\ KnownTo(job[t]) \subseteq Stored
  BY DEF IInv, TypeOK, WorkInv, KnownInv
<1>2. FacesOf(job[t]) \subseteq Seen
  BY DEF Seen
<1> QED
  BY <1>1, <1>2 DEF RowsStep, Sound

LEMMA TurnMoves ==
    ASSUME IInv, RowsStep, NEW t \in Tasks, NEW new, Turn(t, new)
    PROVE  Moves(new)
<1>1. PICK j : /\ job' = [job EXCEPT ![t] = j]
               /\ Sound(j, new)
               /\ alone /\ job[t] = Idle => \A u \in Tasks : job[u] = Idle
  BY DEF Turn
<1>2. job \in [Tasks -> JobType] /\ j \in JobType
  BY <1>1 DEF IInv, TypeOK, Sound
<1>3. job' \in [Tasks -> JobType] /\ job'[t] = j /\ \A u \in Tasks : u # t => job'[u] = job[u]
  BY <1>1, <1>2
<1>4. ASSUME alone, NEW u \in Tasks, u # t
      PROVE  job[u] = Idle
  BY <1>1, <1>4 DEF IInv, AloneInv
<1>5. ASSUME NEW u \in Tasks
      PROVE  Sound(job'[u], new)
  <2>1. CASE u = t
    BY <1>1, <1>3, <2>1
  <2>2. CASE u # t
    <3>1. alone => Current(job[u], tags')
      BY <1>4, <2>2 DEF Current
    <3> QED
      BY <1>3, <2>2, <3>1, WaitingIs
  <2> QED
    BY <2>1, <2>2
<1> QED
  BY <1>3, <1>4, <1>5 DEF Moves

LEMMA StepIs ==
    ASSUME IInv, [Next]_vars
    PROVE  RowsStep /\ CountsStep /\ \E new : Minting(new) /\ Moves(new)
<1>1. ASSUME NEW t \in Tasks, RowsStep /\ CountsStep /\ \E new : Minting(new) /\ Turn(t, new)
      PROVE  RowsStep /\ CountsStep /\ \E new : Minting(new) /\ Moves(new)
  BY <1>1, TurnMoves
<1>2. ASSUME NEW t \in Tasks, NEW a \in Agents, StartExtract(t, a)
      PROVE  RowsStep /\ CountsStep /\ \E new : Minting(new) /\ Turn(t, new)
  BY <1>2, StartExtractIs
<1>3. ASSUME NEW t \in Tasks,
             Look(t) \/ Encode(t) \/ TakeNew(t) \/ Bump(t) \/ FindCanonical(t) \/ WriteTag(t)
      PROVE  RowsStep /\ CountsStep /\ \E new : Minting(new) /\ Turn(t, new)
  BY <1>3, LookIs, EncodeIs, TakeNewIs, BumpIs, FindCanonicalIs, WriteTagIs
<1>4. ASSUME NEW t \in Tasks, StartRecord(t) \/ Record(t) \/ RecordFails(t) \/ Extracted(t)
      PROVE  RowsStep /\ CountsStep /\ \E new : Minting(new) /\ Turn(t, new)
  BY <1>4, StartRecordIs, RecordIs, RecordFailsIs, ExtractedIs
<1>5. CASE Restart
  <2>1. job' = [t \in Tasks |-> Idle] /\ UNCHANGED tagVars /\ UNCHANGED <<alone, docs>>
    BY <1>5 DEF Restart
  <2>2. RowsStep /\ CountsStep /\ Minting({})
    BY <2>1, StandingIs
  <2>3. Moves({})
    BY <2>1, IdleIsSound DEF Moves, JobType
  <2> QED
    BY <2>2, <2>3
<1>6. CASE UNCHANGED vars
  <2>1. job' = job /\ tags' = tags /\ UNCHANGED tagVars /\ UNCHANGED <<alone, docs>>
    BY <1>6 DEF vars, tagVars
  <2>2. RowsStep /\ CountsStep /\ Minting({})
    BY <2>1, StandingIs
  <2>3. \A t \in Tasks : Sound(job[t], {})
    BY <2>1, <2>2, WaitingIs DEF IInv, AloneInv
  <2>4. Moves({})
    BY <2>1, <2>3 DEF Moves, IInv, TypeOK, AloneInv
  <2> QED
    BY <2>2, <2>4
<1> QED
  BY <1>1, <1>2, <1>3, <1>4, <1>5, <1>6 DEF Next

LEMMA InitIInv == Init => IInv
<1> SUFFICES ASSUME Init
             PROVE  IInv
  OBVIOUS
<1>1. /\ tags = {} /\ minted = 0 /\ carried = {} /\ lost = {} /\ alone \in BOOLEAN /\ docs = 0
      /\ total = [i \in Ids |-> 0] /\ together = [p \in Pairs |-> 0]
      /\ \A t \in Tasks : job[t] = Idle
      /\ MaxTags \in Nat /\ MaxDocs \in Nat
  BY TagAssumption DEF Init
<1>2. TypeOK
  BY <1>1 DEF TypeOK, Init, JobType
<1>3. Seen = {}
  <2>1. \A t \in Tasks : FacesOf(job[t]) = {}
    BY <1>1 DEF FacesOf
  <2> QED
    BY <1>1, <2>1 DEF Seen, Rows
<1>4. WorkInv /\ KnownInv /\ AloneInv
  BY <1>1 DEF WorkInv, AtWork, KnownInv, KnownTo, AloneInv, Current
<1>5. PairedInv
  BY <1>1 DEF PairedInv
<1>6. PairsWithinTotals
  <2>1. \A p \in Pairs : p \subseteq Ids
    BY DEF Pairs, kSubset
  <2> QED
    BY <1>1, <2>1 DEF PairsWithinTotals
<1> QED
  BY <1>1, <1>2, <1>3, <1>4, <1>5, <1>6 DEF IInv, SeenInv, OneTagPerLabel

-----------------------------------------------------------------------------
(* The invariant is kept                                                    *)

LEMMA SeenGrows ==
    ASSUME RowsStep, NEW new, Moves(new)
    PROVE  Seen' \subseteq Seen \cup new
<1>1. Seen' = Rows' \cup UNION {FacesOf(job'[t]) : t \in Tasks}
  BY DEF Seen, FacesOf
<1>2. \A t \in Tasks : FacesOf(job'[t]) \subseteq Seen \cup new
  BY DEF Moves, Sound
<1> QED
  BY <1>1, <1>2 DEF RowsStep

LEMMA SeenKept ==
    ASSUME IInv, RowsStep, NEW new, Minting(new), Moves(new)
    PROVE  SeenInv'
<1>1. Seen' \subseteq Seen \cup new
  BY SeenGrows
<1>2. /\ minted \in Nat /\ minted' \in Int /\ minted <= minted'
      /\ \A x \in Seen : x[1] \in Int /\ x[1] <= minted
      /\ \A x \in new : minted < x[1] /\ x[1] <= minted'
  BY IdsAre DEF IInv, SeenInv, Minting, Ids
<1>3. ASSUME NEW x \in Seen', NEW y \in Seen', x[1] = y[1]
      PROVE  x = y
  <2>1. CASE x \in Seen /\ y \in Seen
    BY <1>3, <2>1 DEF IInv, SeenInv
  <2>2. CASE x \in new /\ y \in new
    BY <1>3, <2>2 DEF Minting
  <2>3. CASE x \in Seen /\ y \in new
    BY <1>2, <1>3, <2>3
  <2>4. CASE x \in new /\ y \in Seen
    BY <1>2, <1>3, <2>4
  <2> QED
    BY <1>1, <2>1, <2>2, <2>3, <2>4
<1>4. ASSUME NEW x \in Seen'
      PROVE  x[1] <= minted'
  BY <1>1, <1>2
<1> QED
  BY <1>3, <1>4 DEF SeenInv

LEMMA PairedKept ==
    ASSUME IInv, RowsStep, CountsStep, NEW new, Minting(new), Moves(new)
    PROVE  PairedInv'
<1>1. Seen' \subseteq Seen \cup new
  BY SeenGrows
<1>2. /\ minted \in Nat /\ minted' \in Int /\ minted <= minted'
      /\ \A x \in new : minted < x[1]
  BY IdsAre DEF Minting
<1>3. ASSUME NEW p \in Pairs, together'[p] > 0
      PROVE  /\ \A i \in p : i \in Int /\ i <= minted
             /\ \A x, y \in Seen : {x[1], y[1]} \subseteq p => x[3] = y[3]
  <2>0. \A i \in p : i \in Int
    BY DEF Pairs, kSubset, Ids
  <2>1. CASE together[p] > 0
    BY <2>0, <2>1 DEF IInv, PairedInv
  <2>2. ASSUME NEW t \in Tasks, p \subseteq KnownTo(job[t])
        PROVE  /\ \A i \in p : i <= minted
               /\ \A x, y \in Seen : {x[1], y[1]} \subseteq p => x[3] = y[3]
    <3>1. ASSUME NEW i \in p
          PROVE  i <= minted /\ \A x \in Seen : x[1] = i => x[3] = job[t].agent
      <4>1. job[t] # Idle
        BY <2>2, <3>1 DEF KnownTo
      <4>2. PICK k \in job[t].known : k[2] = i
        BY <2>2, <3>1, <4>1 DEF KnownTo
      <4>3. <<k[2], k[1], job[t].agent>> \in Seen
        BY <4>1 DEF Seen, FacesOf, Faces
      <4> QED
        BY <4>2, <4>3 DEF IInv, SeenInv
    <3> QED
      BY <3>1
  <2> QED
    BY <1>3, <2>0, <2>1, <2>2 DEF CountsStep
<1>4. ASSUME NEW p \in Pairs, together'[p] > 0
      PROVE  /\ \A i \in p : i <= minted'
             /\ \A x, y \in Seen' : {x[1], y[1]} \subseteq p => x[3] = y[3]
  <2>1. \A x \in Seen' : x[1] \in p => x \in Seen
    BY <1>1, <1>2, <1>3, <1>4
  <2> QED
    BY <1>2, <1>3, <1>4, <2>1
<1> QED
  BY <1>4 DEF PairedInv, Pairs

LEMMA IInvStep == IInv /\ [Next]_vars => IInv'
<1> SUFFICES ASSUME IInv, [Next]_vars
             PROVE  IInv'
  OBVIOUS
<1>1. PICK new : RowsStep /\ CountsStep /\ Minting(new) /\ Moves(new)
  BY StepIs
<1>2. TypeOK'
  <2>1. minted' \in 0..MaxTags
    BY <1>1, IdsAre DEF Minting
  <2>2. alone' \in BOOLEAN
    BY <1>1 DEF RowsStep, IInv, TypeOK
  <2> QED
    BY <1>1, <2>1, <2>2 DEF RowsStep, CountsStep, Moves, TypeOK, Ids, Pairs, Tag, JobType, Work
<1>3. SeenInv'
  BY <1>1, SeenKept
<1>4. WorkInv'
  BY <1>1 DEF Moves, Sound, WorkInv, AtWork
<1>5. KnownInv'
  BY <1>1 DEF RowsStep, Moves, Sound, KnownInv, KnownTo
<1>6. PairedInv'
  BY <1>1, PairedKept
<1>7. AloneInv'
  BY <1>1 DEF RowsStep, Moves, Sound, AloneInv, Current
<1>8. OneTagPerLabel'
  BY <1>1 DEF RowsStep, OneTagPerLabel
<1>9. PairsWithinTotals'
  BY <1>1 DEF CountsStep, PairsWithinTotals
<1> QED
  BY <1>2, <1>3, <1>4, <1>5, <1>6, <1>7, <1>8, <1>9 DEF IInv

-----------------------------------------------------------------------------
(* Theorems                                                                 *)

(* The inductive invariant holds in every reachable state (what extractions     *)
(* know and write between the locks of LanceTagStore and the co-occurrences).   *)
THEOREM Invariance == Spec => []IInv
<1>1. Init => IInv
  BY InitIInv
<1>2. IInv /\ [Next]_vars => IInv'
  BY IInvStep
<1> QED
  BY <1>1, <1>2, PTL DEF Spec

(* The tables and every extraction keep their types: the pieces that a document *)
(* is cut into are a sequence, whatever its size (chunk_text, TagEntry).        *)
THEOREM TypeCorrect == Spec => []TypeOK
<1>1. IInv => TypeOK
  BY DEF IInv
<1> QED
  BY <1>1, Invariance, PTL

(* While extractions do not overlap, a label has one tag of each agent, and      *)
(* whatever overlaps or fails, a tag that a memory names is found or its row    *)
(* was lost (composite.rs, upsert; lance_tag.rs, upsert_tag).                   *)
THEOREM TagsAreFound == Spec => []TagsResolve
<1>1. IInv => TagsResolve
  BY DEF IInv, KnownInv, Stored, TagsResolve, CarriedTagsResolve
<1> QED
  BY <1>1, Invariance, PTL

LEMMA PairIsPair ==
    ASSUME NEW i \in Ids, NEW j \in Ids, i # j
    PROVE  {i, j} \in Pairs
<1>1. IsFiniteSet({}) /\ Cardinality({}) = 0
  BY FS_EmptySet
<1>2. IsFiniteSet({i}) /\ Cardinality({i}) = 1
  BY FS_Singleton
<1>3. Cardinality({i} \cup {j}) = 2
  BY <1>2, FS_AddElement
<1>4. {i, j} = {i} \cup {j}
  OBVIOUS
<1> QED
  BY <1>3, <1>4 DEF Pairs, kSubset

(* A pair is counted no more often than either of its tags, whichever statement  *)
(* fails, and both tags are one agent's (sqlite_cooc.rs, record_cooccurrence).   *)
THEOREM CountsHold == Spec => []CountsAreSound
<1>1. ASSUME IInv
      PROVE  PartnersAreOwn
  <2>1. ASSUME NEW a \in Agents, NEW q \in tags, q.agent = a, NEW r \in tags, r.id \in Partners(q.id)
        PROVE  r.agent = a
    <3>1. q \in Tag /\ r \in Tag
      BY <1>1 DEF IInv, TypeOK
    <3>2. q.id \in Ids /\ r.id \in Ids /\ r.id # q.id /\ together[{q.id, r.id}] > 0
      BY <2>1, <3>1 DEF Partners, Tag
    <3>3. {q.id, r.id} \in Pairs
      BY <3>2, PairIsPair
    <3>4. Face(q) \in Seen /\ Face(r) \in Seen
      BY DEF Seen, Rows
    <3>5. Face(q)[3] = Face(r)[3]
      <4>1. {Face(q)[1], Face(r)[1]} \subseteq {q.id, r.id}
        BY DEF Face
      <4> QED
        BY <1>1, <3>2, <3>3, <3>4, <4>1 DEF IInv, PairedInv
    <3> QED
      BY <2>1, <3>5 DEF Face
  <2>2. ASSUME NEW a \in Agents, NEW i \in Activated(a), NEW r \in tags, r.id \in Partners(i)
        PROVE  r.agent = a
    BY <2>1, <2>2 DEF Activated, VectorHits
  <2> QED
    BY <2>2 DEF PartnersAreOwn
<1>2. IInv => CountsAreSound
  BY <1>1 DEF IInv, CountsAreSound
<1> QED
  BY <1>2, Invariance, PTL

(* While extractions do not overlap, a tag with a single row never falls in       *)
(* frequency (composite.rs, upsert).                                          *)
THEOREM FrequencyHolds == Spec => FrequencyKept
<1>1. IInv /\ [Next]_vars =>
        [alone => \A r \in tags : SingleRow(r) =>
           \A s \in tags' : s.id = r.id => s.freq >= r.freq]_vars
  <2> SUFFICES ASSUME IInv, [Next]_vars
               PROVE  alone => \A r \in tags : SingleRow(r) =>
                         \A s \in tags' : s.id = r.id => s.freq >= r.freq
    OBVIOUS
  <2> QED
    BY StepIs DEF RowsStep
<1> QED
  BY <1>1, Invariance, PTL DEF FrequencyKept, Spec

(* For every document and setting, the chunks lose no word and are not too long;  *)
(* of a document in which every word is shorter than the overlap and no paragraph *)
(* is a single word, no chunk cuts a region; of one in which every sentence fits   *)
(* beside the overlap, each chunk ends later than the one before.  Nothing is said *)
(* of regions or of progress outside these two cases (chunk_text of chunker.rs). *)
THEOREM ChunksStaySound == Spec => []ChunksAreSound
<1>1. ChunksAreSound
  BY NoneIsLost, ChunksAreBounded, RegionsAreWhole, EachDoes
     DEF ChunksAreSound, ChunksLoseNothing, ChunksStaySmall, RegionsStayWhole, ChunksBringMore
<1> QED
  BY <1>1, PTL

=============================================================================
