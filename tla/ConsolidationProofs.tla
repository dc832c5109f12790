------------------------ MODULE ConsolidationProofs ------------------------
(***************************************************************************)
(* Proofs about Consolidation, for any agents and calls, any facts and any    *)
(* likeness of memories (neither symmetric, nor reflexive, nor transitive),  *)
(* any configuration, any faults and any bounds.                            *)
(***************************************************************************)
EXTENDS Consolidation, FiniteSetTheorems, SequenceTheorems, TLAPS

-----------------------------------------------------------------------------
(* Induction over an interval, as a fact about sets                          *)

LEMMA Least ==
    ASSUME NEW N \in Nat, NEW T \in SUBSET (0..N), T # {}
    PROVE  \E n \in T : \A m \in T : n <= m
<1> DEFINE below == {0..n : n \in T}
<1>1. below # {} /\ below \subseteq FiniteSubsetsOf(0..N)
  <2>1. ASSUME NEW n \in T
        PROVE  0..n \in FiniteSubsetsOf(0..N)
    BY FS_Interval DEF FiniteSubsetsOf
  <2> QED
    BY <2>1
<1>2. IsWellFoundedOn(StrictSubsetOrdering(0..N), FiniteSubsetsOf(0..N))
  BY FS_StrictSubsetOrderingWellFounded
<1>3. \E x \in below : \A y \in below : <<y, x>> \notin StrictSubsetOrdering(0..N)
  <2> HIDE DEF below
  <2> QED
    BY <1>1, <1>2, WFMin
<1>4. PICK n \in T : \A y \in below : <<y, 0..n>> \notin StrictSubsetOrdering(0..N)
  BY <1>3
<1>5. ASSUME NEW m \in T, m < n
      PROVE  FALSE
  <2>1. 0..m \in below /\ m \in Nat /\ n \in Nat /\ n <= N
    OBVIOUS
  <2>2. 0..m \subseteq 0..n /\ n \in 0..n /\ n \notin 0..m /\ 0..n \subseteq 0..N
    BY <1>5, <2>1
  <2>3. <<0..m, 0..n>> \in StrictSubsetOrdering(0..N)
    BY <2>2 DEF StrictSubsetOrdering
  <2> QED
    BY <1>4, <2>1, <2>3
<1> QED
  BY <1>5

LEMMA Induction ==
    ASSUME NEW N \in Nat, NEW S, 0 \in S, \A n \in 0..(N - 1) : n \in S => n + 1 \in S
    PROVE  \A n \in 0..N : n \in S
<1> DEFINE T == {n \in 0..N : n \notin S}
<1>1. CASE T = {}
  BY <1>1
<1>2. CASE T # {}
  <2>1. PICK n \in T : \A m \in T : n <= m
    BY <1>2, Least
  <2>2. n \in Nat /\ n # 0 /\ n - 1 \in 0..(N - 1) /\ n - 1 \in 0..N
    BY <2>1
  <2>3. n - 1 \notin T
    BY <2>1, <2>2
  <2> QED
    BY <2>1, <2>2, <2>3
<1> QED
  BY <1>1, <1>2

(* Of a finite set under a total order, each rank has one element.            *)
Under(c, R, i) == {j \in c : <<j, i>> \in R}

LEMMA Ranks ==
    ASSUME NEW c, IsFiniteSet(c), NEW R, \A i \in c : <<i, i>> \notin R,
           \A i, j \in c : i # j => <<i, j>> \in R \/ <<j, i>> \in R,
           \A i, j, k \in c : <<i, j>> \in R /\ <<j, k>> \in R => <<i, k>> \in R,
           NEW k \in 1..Cardinality(c)
    PROVE  \E i \in c : Cardinality(Under(c, R, i)) = k - 1
<1> DEFINE under(i) == Under(c, R, i)
           f == [i \in c |-> Cardinality(under(i))]
           n == Cardinality(c)
<1>1. n \in Nat /\ n > 0
  BY FS_CardinalityType
<1>2. ASSUME NEW i \in c
      PROVE  IsFiniteSet(under(i)) /\ f[i] \in 0..(n - 1)
  <2>0. under(i) \in SUBSET c
    BY DEF Under
  <2>1. IsFiniteSet(under(i)) /\ Cardinality(under(i)) <= n /\ (n = Cardinality(under(i)) => c = under(i))
    BY <2>0, FS_Subset
  <2>2. Cardinality(under(i)) \in Nat
    BY <2>1, FS_CardinalityType
  <2>3. i \notin under(i)
    BY DEF Under
  <2> QED
    BY <1>1, <2>1, <2>2, <2>3
<1>3. ASSUME NEW i \in c, NEW j \in c, <<i, j>> \in R
      PROVE  f[i] # f[j]
  <2>1. under(i) \subseteq under(j) /\ i \in under(j) /\ i \notin under(i)
    BY <1>3 DEF Under
  <2>2. Cardinality(under(i)) = Cardinality(under(j)) => under(i) = under(j)
    BY <1>2, <2>1, FS_Subset
  <2> QED
    BY <2>1, <2>2
<1>4. f \in Injection(c, 0..(n - 1))
  BY <1>2, <1>3 DEF Injection, IsInjective
<1>5. IsFiniteSet(0..(n - 1)) /\ Cardinality(0..(n - 1)) = n
  <2> HIDE DEF n
  <2>1. n - 1 \in Int /\ n - 1 >= 0
    BY <1>1
  <2>2. IsFiniteSet(0..(n - 1)) /\ Cardinality(0..(n - 1)) = IF 0 > n - 1 THEN 0 ELSE n - 1 - 0 + 1
    BY <2>1, FS_Interval
  <2> QED
    BY <1>1, <2>2
<1>6. f \in Surjection(c, 0..(n - 1))
  BY <1>4, <1>5, FS_Injection
<1>7. k - 1 \in 0..(n - 1)
  BY <1>1
<1>8. PICK i \in c : f[i] = k - 1
  BY <1>6, <1>7 DEF Surjection
<1> QED
  BY <1>8

-----------------------------------------------------------------------------
(* Pages *)

LEMMA NewestFirstIs ==
    ASSUME NEW ids \in SUBSET Nat, IsFiniteSet(ids)
    PROVE  /\ NewestFirst(ids) \in [1..Cardinality(ids) -> ids]
           /\ \A k, l \in 1..Cardinality(ids) : NewestFirst(ids)[k] = NewestFirst(ids)[l] => k = l
<1> DEFINE R == {p \in Nat \X Nat : p[1] > p[2]}
           n == Cardinality(ids)
           pick(k) == CHOOSE i \in ids : Cardinality({j \in ids : j > i}) = k - 1
<1>1. n \in Nat
  BY FS_CardinalityType
<1>2. ASSUME NEW k \in 1..n
      PROVE  \E i \in ids : Cardinality({j \in ids : j > i}) = k - 1
  <2>1. \A i \in ids : <<i, i>> \notin R
    OBVIOUS
  <2>2. \A i, j \in ids : i # j => <<i, j>> \in R \/ <<j, i>> \in R
    OBVIOUS
  <2>3. \A i, j, l \in ids : <<i, j>> \in R /\ <<j, l>> \in R => <<i, l>> \in R
    OBVIOUS
  <2>4. \A i \in ids : Under(ids, R, i) = {j \in ids : j > i}
    BY DEF Under
  <2> HIDE DEF R
  <2>5. \E i \in ids : Cardinality(Under(ids, R, i)) = k - 1
    BY <2>1, <2>2, <2>3, Ranks
  <2> QED
    BY <2>4, <2>5
<1>3. ASSUME NEW k \in 1..n
      PROVE  pick(k) \in ids /\ Cardinality({j \in ids : j > pick(k)}) = k - 1
  BY <1>2
<1>4. NewestFirst(ids) = [k \in 1..n |-> pick(k)]
  BY DEF NewestFirst
<1> HIDE DEF pick
<1>5. \A k, l \in 1..n : pick(k) = pick(l) => k = l
  <2>1. \A k, l \in 1..n : pick(k) = pick(l) => k - 1 = l - 1
    BY <1>3
  <2> QED
    BY <1>1, <2>1
<1> QED
  BY <1>3, <1>4, <1>5

(* A page has rows of the table, each once.                                  *)
LEMMA ListIs ==
    ASSUME StoreTypeOK, NEW a, NEW offset \in Nat, NEW limit \in Nat \ {0}
    PROVE  /\ List(a, offset, limit) \in Seq(Row)
           /\ \A e \in Range(List(a, offset, limit)) : \E i \in Stored : e = rows[i]
           /\ (\A i \in Stored : rows[i].id = i) =>
              \A k, l \in DOMAIN List(a, offset, limit) :
                 List(a, offset, limit)[k].id = List(a, offset, limit)[l].id => k = l
<1> DEFINE sel == Selected(a, FALSE)
           ids == NewestFirst(sel)
           all == [k \in DOMAIN ids |-> rows[ids[k]]]
           n == Cardinality(sel)
           to == IF offset + limit > Len(all) THEN Len(all) ELSE offset + limit
           page == SubSeq(all, offset + 1, to)
<1>1. sel \subseteq Stored /\ sel \in SUBSET Nat /\ IsFiniteSet(sel)
  <2>1. sel \subseteq Stored /\ sel \subseteq 1..MaxRows
    BY DEF Selected, Stored, Ids
  <2>2. IsFiniteSet(1..MaxRows) /\ 1..MaxRows \subseteq Nat
    BY MemoryStoreAssumption, FS_Interval
  <2> HIDE DEF sel
  <2>3. IsFiniteSet(sel)
    BY <2>1, <2>2, FS_Subset
  <2> QED
    BY <2>1, <2>2, <2>3
<1>2. /\ ids \in [1..n -> sel] /\ n \in Nat
      /\ \A k, l \in 1..n : ids[k] = ids[l] => k = l
  BY <1>1, NewestFirstIs, FS_CardinalityType
<1> HIDE DEF ids, n, sel
<1>3. all \in [1..n -> Row] /\ Len(all) = n /\ \A k \in 1..n : all[k] = rows[ids[k]] /\ ids[k] \in Stored
  <2>1. \A k \in 1..n : ids[k] \in Stored /\ rows[ids[k]] \in Row
    BY <1>1, <1>2 DEF StoreTypeOK, Stored
  <2>2. all = [k \in 1..n |-> rows[ids[k]]]
    BY <1>2
  <2>3. all \in Seq(Row)
    BY <1>2, <2>1, <2>2, SeqDef
  <2> QED
    BY <1>2, <2>1, <2>2, <2>3, LenProperties
<1> HIDE DEF all
<1>4. to \in Nat /\ to <= n
  BY <1>2, <1>3
<1> HIDE DEF to
<1>5. /\ page \in Seq(Row) /\ Len(page) = IF offset + 1 <= to THEN to - offset ELSE 0
      /\ \A k \in 1..(to - offset) : page[k] = all[offset + k]
  <2>1. \A i \in (offset + 1)..to : all[i] \in Row
    BY <1>2, <1>3, <1>4
  <2>2. offset + 1 \in Int /\ to \in Int
    BY <1>4
  <2>3. /\ page \in Seq(Row) /\ Len(page) = IF offset + 1 <= to THEN to - (offset + 1) + 1 ELSE 0
        /\ \A k \in 1..(to - (offset + 1) + 1) : page[k] = all[offset + 1 + k - 1]
    BY <2>1, <2>2, SubSeqProperties
  <2> QED
    BY <1>4, <2>3
<1> HIDE DEF page
<1>6. ASSUME NEW k \in DOMAIN page
      PROVE  k \in Nat /\ offset + k \in 1..n /\ page[k] = rows[ids[offset + k]] /\ ids[offset + k] \in Stored
  <2>1. DOMAIN page = 1..Len(page) /\ Len(page) \in Nat
    BY <1>5, LenProperties
  <2>2. k \in Nat /\ 1 <= k /\ k <= Len(page) /\ offset + 1 <= to
    BY <1>4, <1>5, <2>1
  <2>3. k <= to - offset
    BY <1>4, <1>5, <2>2
  <2> QED
    BY <1>2, <1>3, <1>4, <1>5, <2>2, <2>3
<1>7. \A e \in Range(page) : \E i \in Stored : e = rows[i]
  BY <1>6 DEF Range
<1>8. ASSUME \A i \in Stored : rows[i].id = i, NEW k \in DOMAIN page, NEW l \in DOMAIN page,
             page[k].id = page[l].id
      PROVE  k = l
  <2>1. ids[offset + k] = ids[offset + l]
    BY <1>6, <1>8
  <2> QED
    BY <1>2, <1>6, <2>1
<1>9. List(a, offset, limit) = page
  BY DEF List, page, to, all, ids, sel
<1> QED
  BY <1>5, <1>7, <1>8, <1>9

-----------------------------------------------------------------------------
(* Clusters *)

NoSeeds == [visited |-> {}, found |-> <<>>]
NextSeed(s, before, n) == IF n = 0 THEN NoSeeds ELSE Seed(s, before, n)

(* The positions up to m can be seeded one after the other.                   *)
SeededUpTo(s, m, f) == f = [n \in 0..m |-> NextSeed(s, f[n - 1], n)]

LEMMA SeedingExists ==
    ASSUME NEW s, NEW N \in Nat
    PROVE  \E f : SeededUpTo(s, N, f)
<1> DEFINE S == {m \in Nat : \E f : SeededUpTo(s, m, f)}
<1>1. 0 \in S
  <2> DEFINE f == [n \in 0..0 |-> NoSeeds]
  <2>1. f = [n \in 0..0 |-> NextSeed(s, f[n - 1], n)]
    BY DEF NextSeed
  <2> QED
    BY <2>1 DEF SeededUpTo
<1>2. ASSUME NEW m \in 0..(N - 1), m \in S
      PROVE  m + 1 \in S
  <2>1. PICK f : SeededUpTo(s, m, f)
    BY <1>2
  <2> DEFINE g == [n \in 0..(m + 1) |-> IF n = m + 1 THEN NextSeed(s, f[m], m + 1) ELSE f[n]]
  <2>2. ASSUME NEW n \in 0..(m + 1)
        PROVE  g[n] = NextSeed(s, g[n - 1], n)
    <3>1. CASE n = m + 1
      BY <3>1
    <3>2. CASE n # m + 1
      <4>1. n \in 0..m /\ g[n] = f[n] /\ f[n] = NextSeed(s, f[n - 1], n)
        BY <2>1, <3>2 DEF SeededUpTo
      <4>2. n # 0 => g[n - 1] = f[n - 1]
        BY <4>1
      <4> QED
        BY <4>1, <4>2 DEF NextSeed
    <3> QED
      BY <3>1, <3>2
  <2>3. g = [n \in 0..(m + 1) |-> NextSeed(s, g[n - 1], n)]
    BY <2>2
  <2> HIDE DEF g
  <2> QED
    BY <2>3 DEF SeededUpTo
<1> HIDE DEF S
<1>3. N \in S
  BY <1>1, <1>2, Induction
<1> QED
  BY <1>3 DEF S

LEMMA SeedingIs ==
    ASSUME NEW s, Len(s) \in Nat
    PROVE  \A n \in 0..Len(s) : Seeding(s)[n] = NextSeed(s, Seeding(s)[n - 1], n)
<1> DEFINE N == Len(s)
           Steps(f) == [n \in 0..N |->
               IF n = 0 THEN [visited |-> {}, found |-> <<>>]
               ELSE CHOOSE next \in {Seed(s, before, n) : before \in {f[n - 1]}} : TRUE]
<1>1. \A f : Steps(f) = [n \in 0..N |-> NextSeed(s, f[n - 1], n)]
  <2>1. \A f, n : (CHOOSE next \in {Seed(s, before, n) : before \in {f[n - 1]}} : TRUE)
                  = Seed(s, f[n - 1], n)
    OBVIOUS
  <2> QED
    BY <2>1 DEF NextSeed, NoSeeds
<1>2. \E f : f = Steps(f)
  <2>1. \E f : SeededUpTo(s, N, f)
    BY SeedingExists
  <2> HIDE DEF Steps
  <2> QED
    BY <1>1, <2>1 DEF SeededUpTo
<1>3. Seeding(s) = CHOOSE f : f = Steps(f)
  BY DEF Seeding
<1>4. Seeding(s) = Steps(Seeding(s))
  <2> HIDE DEF Steps
  <2> QED
    BY <1>2, <1>3
<1>5. Seeding(s) = [n \in 0..N |-> NextSeed(s, Seeding(s)[n - 1], n)]
  <2> HIDE DEF Steps
  <2> QED
    BY <1>1, <1>4
<1> QED
  BY <1>5

(* What the seeds find are non-empty sets of positions.                       *)
Groups(s) == {c \in SUBSET (1..Len(s)) : c # {}}

LEMMA SeedsFind ==
    ASSUME NEW s, Len(s) \in Nat
    PROVE  Seeding(s)[Len(s)].found \in Seq(Groups(s))
<1> DEFINE N == Len(s)
           f == Seeding(s)
           S == {n \in 0..N : f[n].found \in Seq(Groups(s))}
<1>1. 0 \in S
  <2>1. f[0].found = <<>>
    BY SeedingIs DEF NextSeed, NoSeeds
  <2>2. <<>> \in Seq(Groups(s))
    BY EmptySeq
  <2> HIDE DEF f
  <2>3. f[0].found \in Seq(Groups(s))
    BY <2>1, <2>2, Zenon
  <2>4. 0 \in 0..N
    OBVIOUS
  <2> QED
    BY <2>3, <2>4, Zenon
<1>2. ASSUME NEW n \in 0..(N - 1), n \in S
      PROVE  n + 1 \in S
  <2> DEFINE c == Cluster(s, n + 1, f[n].visited)
  <2>1. n + 1 \in 0..N /\ n + 1 # 0 /\ (n + 1) - 1 = n
    OBVIOUS
  <2>2. f[n + 1] = Seed(s, f[n], n + 1)
    BY <2>1, SeedingIs DEF NextSeed
  <2>3. c \in Groups(s)
    <3>1. n + 1 \in 1..N /\ (n + 1 + 1)..N \subseteq 1..N
      OBVIOUS
    <3>2. c \subseteq {n + 1} \cup ((n + 1 + 1)..N) /\ n + 1 \in c
      BY DEF Cluster
    <3> HIDE DEF c
    <3> QED
      BY <3>1, <3>2 DEF Groups
  <2>4. f[n].found \in Seq(Groups(s))
    BY <1>2
  <2> HIDE DEF f
  <2>5. Seed(s, f[n], n + 1).found \in Seq(Groups(s))
    <3>1. Append(f[n].found, c) \in Seq(Groups(s))
      BY <2>3, <2>4, AppendProperties
    <3> DEFINE v == f[n]
    <3>2. Seed(s, v, n + 1).found \in {v.found, Append(v.found, c)}
      BY DEF Seed
    <3> QED
      BY <2>4, <3>1, <3>2
  <2> QED
    BY <2>1, <2>2, <2>5
<1> HIDE DEF S
<1>3. N \in S
  <2> HIDE DEF N
  <2>1. N \in Nat
    BY DEF N
  <2>2. \A n \in 0..N : n \in S
    BY <1>1, <1>2, <2>1, Induction
  <2> QED
    BY <2>1, <2>2
<1> QED
  BY <1>3 DEF S

LEMMA InListOrderIs ==
    ASSUME NEW T, NEW s \in Seq(T), NEW c \in Groups(s)
    PROVE  /\ InListOrder(s, c) \in Seq(T) \ {<<>>}
           /\ Range(InListOrder(s, c)) \subseteq Range(s)
<1> DEFINE R == {p \in Nat \X Nat : p[1] < p[2]}
           n == Cardinality(c)
           pick(k) == CHOOSE i \in c : Cardinality({j \in c : j < i}) = k - 1
<1>1. c \in SUBSET (1..Len(s)) /\ c # {} /\ Len(s) \in Nat /\ DOMAIN s = 1..Len(s)
  BY LenProperties DEF Groups
<1>2. IsFiniteSet(c) /\ c \in SUBSET Nat
  <2>1. IsFiniteSet(1..Len(s)) /\ 1..Len(s) \subseteq Nat
    BY <1>1, FS_Interval
  <2> QED
    BY <1>1, <2>1, FS_Subset
<1>3. n \in Nat /\ n > 0
  BY <1>1, <1>2, FS_CardinalityType, FS_EmptySet
<1>4. ASSUME NEW k \in 1..n
      PROVE  \E i \in c : Cardinality({j \in c : j < i}) = k - 1
  <2>1. \A i \in c : <<i, i>> \notin R
    BY <1>2
  <2>2. \A i, j \in c : i # j => <<i, j>> \in R \/ <<j, i>> \in R
    BY <1>2
  <2>3. \A i, j, l \in c : <<i, j>> \in R /\ <<j, l>> \in R => <<i, l>> \in R
    BY <1>2
  <2>4. \A i \in c : Under(c, R, i) = {j \in c : j < i}
    BY <1>2 DEF Under
  <2> HIDE DEF R
  <2>5. \E i \in c : Cardinality(Under(c, R, i)) = k - 1
    BY <1>2, <2>1, <2>2, <2>3, Ranks
  <2> QED
    BY <2>4, <2>5
<1>5. \A k \in 1..n : pick(k) \in DOMAIN s
  BY <1>1, <1>4
<1>6. InListOrder(s, c) = [k \in 1..n |-> s[pick(k)]]
  BY DEF InListOrder
<1> HIDE DEF pick, n
<1> DEFINE l == [k \in 1..n |-> s[pick(k)]]
<1>7. \A k \in 1..n : s[pick(k)] \in T
  BY <1>1, <1>5, ElementOfSeq
<1>8. l \in Seq(T) /\ DOMAIN l = 1..n /\ 1 \in DOMAIN l
  BY <1>3, <1>7, SeqDef
<1>9. l # <<>>
  BY <1>8
<1> QED
  BY <1>5, <1>6, <1>8, <1>9 DEF Range

(* A cluster is a non-empty list of rows that were read.                       *)
LEMMA FindClustersIs ==
    ASSUME NEW T, NEW s \in Seq(T)
    PROVE  /\ FindClusters(s) \in Seq(Seq(T))
           /\ \A c \in Range(FindClusters(s)) : c # <<>> /\ Range(c) \subseteq Range(s)
           /\ Len(FindClusters(s)) <= MaxMerges
<1> DEFINE found == Seeding(s)[Len(s)].found
           to == IF Len(found) < MaxMerges THEN Len(found) ELSE MaxMerges
           taken == SubSeq(found, 1, to)
           l == [n \in DOMAIN taken |-> InListOrder(s, taken[n])]
<1>1. found \in Seq(Groups(s)) /\ Len(found) \in Nat
  BY SeedsFind, LenProperties
<1> HIDE DEF found
<1>2. to \in 0..Len(found) /\ to <= MaxMerges
  BY <1>1, ConsolidationAssumption
<1> HIDE DEF to
<1>3. taken \in Seq(Groups(s)) /\ Len(taken) = to
  <2>1. \A i \in 1..to : found[i] \in Groups(s)
    BY <1>1, <1>2, ElementOfSeq
  <2>2. 1 \in Int /\ to \in Int /\ to \in Nat
    BY <1>1, <1>2
  <2>3. taken \in Seq(Groups(s)) /\ Len(taken) = IF 1 <= to THEN to - 1 + 1 ELSE 0
    BY <2>1, <2>2, SubSeqProperties
  <2> QED
    BY <2>2, <2>3
<1> HIDE DEF taken
<1>4. DOMAIN taken = 1..to /\ to \in Nat /\ \A n \in 1..to : taken[n] \in Groups(s)
  BY <1>3, LenProperties, ElementOfSeq
<1>5. \A n \in 1..to : /\ InListOrder(s, taken[n]) \in Seq(T) \ {<<>>}
                       /\ Range(InListOrder(s, taken[n])) \subseteq Range(s)
  BY <1>4, InListOrderIs
<1>6. l \in Seq(Seq(T)) /\ DOMAIN l = 1..to /\ Len(l) = to
  <2>1. l \in Seq(Seq(T)) /\ DOMAIN l = 1..to
    BY <1>4, <1>5, SeqDef
  <2> QED
    BY <1>4, <2>1, LenProperties
<1>7. FindClusters(s) = l
  BY DEF FindClusters, l, taken, to, found
<1>8. \A c \in Range(l) : c # <<>> /\ Range(c) \subseteq Range(s)
  <2>1. ASSUME NEW c \in Range(l)
        PROVE  c # <<>> /\ Range(c) \subseteq Range(s)
    <3>1. PICK n \in 1..to : c = InListOrder(s, taken[n])
      BY <1>6 DEF Range
    <3> QED
      BY <1>5, <3>1
  <2> QED
    BY <2>1
<1> HIDE DEF l
<1> QED
  BY <1>2, <1>6, <1>7, <1>8

(* A cluster has a highest importance.                                        *)
LEMMA MaxImpIs ==
    ASSUME NEW c \in Seq(Row), c # <<>>
    PROVE  MaxImpOf(c) \in Levels
<1> DEFINE has == {n \in Levels : \E k \in DOMAIN c : c[k].imp = n}
           T == {m \in 0..MaxImp : \A n \in has : n <= m}
<1>0. MaxImp \in Nat /\ MaxImp > 1
  BY MemoryStoreAssumption
<1>1. \A k \in DOMAIN c : c[k] \in Row /\ c[k].imp \in has
  <2>1. \A k \in DOMAIN c : c[k] \in Row
    BY ElementOfSeq, LenProperties
  <2>2. \A e \in Row : e.imp \in Levels
    BY DEF Row
  <2> QED
    BY <2>1, <2>2
<1>2. MaxImp \in T
  BY <1>0 DEF Levels
<1>3. PICK m \in T : \A p \in T : m <= p
  BY <1>0, <1>2, Least
<1>4. m \in has
  <2>1. SUFFICES ASSUME m \notin has
                 PROVE  FALSE
    OBVIOUS
  <2>2. \A n \in has : n \in Nat /\ n < m
    BY <1>0, <1>3, <2>1 DEF Levels
  <2>3. PICK n \in has : TRUE
    <3>1. 1 \in DOMAIN c
      BY LenProperties, EmptySeq
    <3> QED
      BY <1>1, <3>1
  <2>4. m - 1 \in 0..MaxImp /\ m - 1 < m
    BY <1>0, <1>3, <2>2, <2>3
  <2>5. \A p \in has : p <= m - 1
    BY <1>3, <2>2
  <2> HIDE DEF has
  <2> QED
    BY <1>3, <2>4, <2>5
<1>5. \E n \in Levels : (\E k \in DOMAIN c : c[k].imp = n) /\ \A k \in DOMAIN c : c[k].imp <= n
  BY <1>1, <1>3, <1>4
<1> QED
  BY <1>5 DEF MaxImpOf

-----------------------------------------------------------------------------
(* The invariant                                                            *)

(* The rows a call has read and still holds.                                 *)
Copies(r) == Range(r.page) \cup Range(r.all) \cup UNION {Range(c) : c \in Range(r.clusters)}

(* A row lies under its id, and no id is used again.                          *)
IdsInv == \A i \in Stored : rows[i].id = i /\ i <= last

(* A copy has what no update touches.                                        *)
CopyOf(e) ==
    /\ e.id <= last
    /\ e.id \in Stored => /\ rows[e.id].facts = e.facts /\ rows[e.id].born = e.born
                          /\ "distilled" \in rows[e.id].tags <=> "distilled" \in e.tags
CopiesInv == \A t \in Tasks : \A e \in Copies(task[t]) : CopyOf(e)

(* What a call has to work with is there.                                    *)
Equipped(r) ==
    /\ \A c \in Range(r.clusters) : c # <<>>
    /\ r.pc = "archive" => r.clusters # <<>>
    /\ r.pc \in {"explicit", "demote"} => r.id \in Ids
    /\ r.pc = "demote" => r.agent \in Agents
    /\ r.pc = "promoteWrite" => r.page # <<>> /\ Meets(Head(r.page), r.now)
    /\ r.now <= day
EquippedInv == \A t \in Tasks : Equipped(task[t])

(* Unless clients delete: every row is there, and what is being archived has   *)
(* its distilled memory.                                                     *)
NothingPurged == \A i \in Ids : i <= last => rows[i] # NoRow
DistilledFirst ==
    \A t \in Tasks : task[t].pc = "archive" =>
        \E d \in Stored : /\ "distilled" \in rows[d].tags
                          /\ \A e \in Range(task[t].page) : e.facts \subseteq rows[d].facts
KeptInv == "purge" \notin Clients => NothingPurged /\ DistilledFirst /\ ArchivedAreDistilled

(* Unless cycles overlap: one runs, and the importance it has read is that of   *)
(* the rows it has yet to work through.                                      *)
OneCycle == \A t, u \in Tasks : InCycle(t) /\ InCycle(u) => t = u
UpToDate(r) ==
    r.pc \in {"decay", "promote", "promoteWrite"} =>
        /\ \A e \in Range(r.page) : e.id \in Stored => rows[e.id].imp = e.imp
        /\ \A k, l \in DOMAIN r.page : r.page[k].id = r.page[l].id => k = l
AloneInv == ~Overlap => OneCycle /\ \A t \in Tasks : UpToDate(task[t])

IInv == TypeOK /\ IdsInv /\ CopiesInv /\ EquippedInv /\ KeptInv /\ AloneInv

-----------------------------------------------------------------------------
(* What every step does to the table                                        *)

(* Of a row that stays, the identity and what was said.                       *)
Same(e, new) ==
    /\ new.id = e.id /\ new.facts = e.facts /\ new.born = e.born
    /\ "distilled" \in new.tags <=> "distilled" \in e.tags

(* Rows are appended one at a time, keep what Same says, are archived only by   *)
(* a cycle that is at them, and vanish only when clients delete.               *)
Kept(i) ==
    rows[i] # NoRow =>
      /\ "purge" \notin Clients => rows'[i] # NoRow
      /\ rows'[i] # NoRow =>
           /\ Same(rows[i], rows'[i])
           /\ "archived" \in rows'[i].tags =>
                \/ "archived" \in rows[i].tags
                \/ \E t \in Tasks : /\ task[t].pc = "archive" /\ task[t].page # <<>>
                                    /\ Head(task[t].page).id = i

Appended(i) ==
    rows[i] = NoRow /\ rows'[i] # NoRow =>
        /\ last < i /\ i = last' /\ rows'[i].id = i
        /\ "archived" \in rows'[i].tags => "distilled" \in rows'[i].tags

StoreStep ==
    /\ StoreTypeOK'
    /\ last' = last \/ (last' = last + 1 /\ rows'[last'] # NoRow)
    /\ \A i \in Ids : Kept(i) /\ Appended(i)

ImpKept == \A i \in Stored : rows'[i] # NoRow => rows'[i].imp = rows[i].imp

LEMMA RowIs ==
    ASSUME NEW e \in Row
    PROVE  /\ e.id \in Ids /\ e.id \in Nat /\ e.agent \in Agents /\ e.scope \in Scopes
           /\ e.imp \in Levels /\ e.imp \in Nat /\ e.facts \in SUBSET Facts
           /\ e.tags \in SUBSET Marks /\ e.born \in Nat
           /\ e # NoRow
           /\ \A x \in Levels : [e EXCEPT !.imp = x] \in Row
           /\ \A x \in SUBSET Marks : [e EXCEPT !.tags = x] \in Row
           /\ \A x \in Scopes : [e EXCEPT !.scope = x] \in Row
           /\ \A x \in Agents : [e EXCEPT !.agent = x] \in Row
<1>1. MaxRows \in Nat /\ MaxImp \in Nat /\ NoRow \notin Row
  BY MemoryStoreAssumption
<1>2. /\ e.id \in Ids /\ e.agent \in Agents /\ e.scope \in Scopes
      /\ e.imp \in Levels /\ e.facts \in SUBSET Facts
      /\ e.tags \in SUBSET Marks /\ e.born \in Nat
  BY DEF Row
<1>3. Ids \subseteq Nat /\ Levels \subseteq Nat
  BY <1>1 DEF Ids, Levels
<1>4. /\ \A x \in Levels : [e EXCEPT !.imp = x] \in Row
      /\ \A x \in SUBSET Marks : [e EXCEPT !.tags = x] \in Row
      /\ \A x \in Scopes : [e EXCEPT !.scope = x] \in Row
      /\ \A x \in Agents : [e EXCEPT !.agent = x] \in Row
  BY DEF Row
<1> QED
  BY <1>1, <1>2, <1>3, <1>4

LEMMA StandsStill ==
    ASSUME TypeOK, UNCHANGED storeVars
    PROVE  StoreStep /\ ImpKept
BY DEF TypeOK, StoreStep, StoreTypeOK, storeVars, Kept, Appended, Same, ImpKept, Stored

(* An update of a row that is still there.                                   *)
LEMMA UpdateKeeps ==
    ASSUME TypeOK, NEW i \in Ids, NEW new, Update(i, new),
           rows[i] # NoRow => new \in Row /\ Same(rows[i], new),
           \/ rows[i] # NoRow /\ "archived" \in new.tags => "archived" \in rows[i].tags
           \/ \E t \in Tasks : /\ task[t].pc = "archive" /\ task[t].page # <<>>
                               /\ Head(task[t].page).id = i
    PROVE  /\ StoreStep /\ \A j \in Ids : j # i => rows'[j] = rows[j]
           /\ rows[i] # NoRow => rows'[i] = new
           /\ rows[i] = NoRow => rows'[i] = NoRow
           /\ (rows[i] # NoRow => new.imp = rows[i].imp) => ImpKept
<1>1. StoreTypeOK /\ last' = last
  BY DEF TypeOK, Update
<1>2. CASE rows[i] = NoRow
  <2>1. UNCHANGED storeVars
    BY <1>1, <1>2 DEF Update, storeVars
  <2> QED
    BY <1>2, <2>1, StandsStill DEF storeVars
<1>3. CASE rows[i] # NoRow
  <2>1. rows' = [rows EXCEPT ![i] = new] /\ rows \in [Ids -> Row \cup {NoRow}]
    BY <1>1, <1>3 DEF Update, StoreTypeOK
  <2>2. rows'[i] = new /\ \A j \in Ids : j # i => rows'[j] = rows[j]
    BY <2>1
  <2>3. StoreTypeOK'
    BY <1>1, <1>3, <2>1 DEF StoreTypeOK
  <2>4. \A j \in Ids : Kept(j) /\ Appended(j)
    <3>1. Kept(i) /\ Appended(i)
      BY <1>3, <2>2, RowIs DEF Kept, Appended
    <3>2. \A j \in Ids : j # i => Kept(j) /\ Appended(j)
      BY <2>2 DEF Kept, Appended, Same
    <3> QED
      BY <3>1, <3>2
  <2>5. (rows[i] # NoRow => new.imp = rows[i].imp) => ImpKept
    BY <2>2 DEF ImpKept, Stored
  <2> QED
    BY <1>1, <1>3, <2>2, <2>3, <2>4, <2>5 DEF StoreStep
<1> QED
  BY <1>2, <1>3

LEMMA InsertKeeps ==
    ASSUME TypeOK, IdsInv, NEW a \in Agents, NEW scope \in Scopes, NEW imp \in Levels,
           NEW facts \in SUBSET Facts, NEW tags \in SUBSET Marks,
           "archived" \in tags => "distilled" \in tags,
           Insert(a, scope, imp, facts, tags, day)
    PROVE  /\ StoreStep /\ ImpKept
           /\ last + 1 \in Ids /\ last' = last + 1
           /\ rows'[last + 1] # NoRow
           /\ rows'[last + 1].facts = facts /\ rows'[last + 1].tags = tags
<1> DEFINE e == [id |-> last + 1, agent |-> a, scope |-> scope, imp |-> imp, facts |-> facts,
                 tags |-> tags, born |-> day]
<1>1. StoreTypeOK /\ last < MaxRows /\ last' = last + 1 /\ rows' = [rows EXCEPT ![last + 1] = e]
  BY DEF TypeOK, Insert
<1>2. last \in Nat /\ last + 1 \in Ids /\ last' \in 0..MaxRows
  BY <1>1, MemoryStoreAssumption DEF StoreTypeOK, Ids
<1>3. e \in Row
  <2>1. day \in Nat
    BY DEF TypeOK
  <2> QED
    BY <1>2, <2>1 DEF Row
<1>4. e.id = last + 1 /\ e.facts = facts /\ e.tags = tags
  OBVIOUS
<1> HIDE DEF e
<1>5. e # NoRow /\ rows \in [Ids -> Row \cup {NoRow}]
  BY <1>1, <1>3, RowIs DEF StoreTypeOK
<1>6. rows'[last + 1] = e /\ \A j \in Ids : j # last + 1 => rows'[j] = rows[j]
  BY <1>1, <1>2, <1>5
<1>7. rows[last + 1] = NoRow
  BY <1>2 DEF IdsInv, Stored
<1>8. StoreTypeOK'
  BY <1>1, <1>2, <1>3, <1>5 DEF StoreTypeOK
<1>9. Kept(last + 1) /\ Appended(last + 1)
  BY <1>1, <1>2, <1>4, <1>6, <1>7 DEF Kept, Appended
<1>10. \A j \in Ids : j # last + 1 => Kept(j) /\ Appended(j)
  BY <1>6 DEF Kept, Appended, Same
<1>11. ImpKept
  BY <1>6, <1>7 DEF ImpKept, Stored
<1>12. StoreStep
  BY <1>1, <1>5, <1>6, <1>8, <1>9, <1>10 DEF StoreStep
<1> QED
  BY <1>1, <1>2, <1>4, <1>5, <1>6, <1>11, <1>12

LEMMA PurgeKeeps ==
    ASSUME TypeOK, NEW a \in Agents, NEW shared \in BOOLEAN, Purge(a, shared)
    PROVE  StoreStep /\ ImpKept
<1>1. /\ "purge" \in Clients /\ last' = last /\ StoreTypeOK
      /\ rows' = [i \in Ids |-> IF i \in Selected(a, shared) THEN NoRow ELSE rows[i]]
  BY DEF TypeOK, Purge, DeleteAll
<1>2. \A i \in Ids : rows'[i] = rows[i] \/ rows'[i] = NoRow
  BY <1>1
<1>3. StoreTypeOK'
  BY <1>1 DEF StoreTypeOK
<1> QED
  BY <1>1, <1>2, <1>3 DEF StoreStep, Kept, Appended, Same, ImpKept, Stored

-----------------------------------------------------------------------------
(* What every step does to a call                                           *)

Working == {"decay", "promote", "promoteWrite"}

StoredRows == {rows[i] : i \in Stored}

(* A call works on a page it has just read, or goes on with the one it has;     *)
(* of the rows of the latter it writes at most the first.                      *)
FreshPage(t, r) == UNCHANGED rows /\ r.page = List(task[t].agent, task[t].offset, PageSize)
SamePage(t, r) == UNCHANGED rows /\ task[t].pc \in Working /\ r.page = task[t].page
RowDone(t, r) ==
    /\ task[t].pc \in Working /\ task[t].page # <<>> /\ r.page = Tail(task[t].page)
    /\ \A i \in Ids : i # Head(task[t].page).id => rows'[i] = rows[i]

(* Originals are archived once what they say is in the table.                  *)
Distilled(r) ==
    \E d \in Ids : /\ rows'[d] # NoRow /\ "distilled" \in rows'[d].tags
                   /\ \A e \in Range(r.page) : e.facts \subseteq rows'[d].facts

TaskStep(t, r) ==
    /\ task' = [task EXCEPT ![t] = r] /\ UNCHANGED day
    /\ r \in TaskType /\ (r.pc \in CyclePhases => r.agent \in Agents) /\ Equipped(r)
    /\ Copies(r) \subseteq Copies(task[t]) \cup StoredRows
    /\ r.pc \in CyclePhases => InCycle(t) \/ Overlap \/ \A u \in Tasks : ~InCycle(u)
    /\ InCycle(t) \/ ImpKept
    /\ r.pc \in Working => FreshPage(t, r) \/ SamePage(t, r) \/ RowDone(t, r)
    /\ r.pc = "archive" =>
          Distilled(r) \/ (task[t].pc = "archive" /\ Range(r.page) \subseteq Range(task[t].page))

LEMMA CopiesAreRows ==
    ASSUME TypeOK, NEW t \in Tasks
    PROVE  /\ task[t] \in TaskType
           /\ Copies(task[t]) \subseteq Row
           /\ Range(task[t].page) \subseteq Copies(task[t])
<1>1. task[t] \in TaskType
  BY DEF TypeOK
<1> DEFINE r == task[t]
<1>2. r.page \in Seq(Row) /\ r.all \in Seq(Row) /\ r.clusters \in Seq(Seq(Row))
  BY <1>1 DEF TaskType
<1>3. Range(r.page) \subseteq Row /\ Range(r.all) \subseteq Row /\ Range(r.clusters) \subseteq Seq(Row)
  BY <1>2, RangeOfSeq
<1>4. \A c \in Range(r.clusters) : Range(c) \subseteq Row
  BY <1>3, RangeOfSeq
<1> HIDE DEF r
<1> QED
  BY <1>1, <1>3, <1>4 DEF Copies, r

LEMMA HeadAndTail ==
    ASSUME NEW T, NEW s \in Seq(T), s # <<>>
    PROVE  /\ Head(s) \in T /\ Head(s) \in Range(s) /\ Head(s) = s[1] /\ 1 \in DOMAIN s
           /\ Tail(s) \in Seq(T) /\ Range(Tail(s)) \subseteq Range(s)
           /\ \A k \in DOMAIN Tail(s) : k \in Nat /\ k # 0 /\ k + 1 \in DOMAIN s /\ Tail(s)[k] = s[k + 1]
<1>1. /\ Len(s) \in Nat /\ DOMAIN s = 1..Len(s) /\ Len(s) # 0
      /\ Head(s) \in T /\ Head(s) = s[1]
  BY LenProperties, EmptySeq, HeadTailProperties
<1>2. /\ Tail(s) \in Seq(T) /\ Len(Tail(s)) = Len(s) - 1
      /\ \A i \in 1..Len(Tail(s)) : Tail(s)[i] = s[i + 1]
  BY HeadTailProperties
<1>3. DOMAIN Tail(s) = 1..Len(Tail(s))
  BY <1>2, LenProperties
<1>4. 1 \in DOMAIN s
  BY <1>1
<1>5. \A k \in DOMAIN Tail(s) : k \in Nat /\ k # 0 /\ k + 1 \in DOMAIN s /\ Tail(s)[k] = s[k + 1]
  BY <1>1, <1>2, <1>3
<1>6. Range(Tail(s)) \subseteq Range(s)
  BY <1>5 DEF Range
<1> QED
  BY <1>1, <1>2, <1>4, <1>5, <1>6 DEF Range

(* A call that only moves on, with what it has read or nothing.                 *)
LEMMA MovesOn ==
    ASSUME TypeOK, EquippedInv, NEW t \in Tasks, UNCHANGED day, InCycle(t) \/ ImpKept,
           NEW r \in TaskType, task' = [task EXCEPT ![t] = r],
           r.page \in {<<>>, task[t].page}, r.all \in {<<>>, task[t].all},
           Range(r.clusters) \subseteq Range(task[t].clusters),
           r.pc \in CyclePhases =>
              r.agent \in Agents /\ (InCycle(t) \/ Overlap \/ \A u \in Tasks : ~InCycle(u)),
           r.pc \in {"explicit", "demote"} => r.id \in Ids,
           r.pc = "demote" => r.agent \in Agents,
           r.pc \notin Working \cup {"archive"}, r.now \in {0, task[t].now}
    PROVE  TaskStep(t, r)
<1>2. Range(<<>>) = {}
  BY DEF Range
<1>3. Copies(r) \subseteq Copies(task[t])
  BY <1>2 DEF Copies
<1>4. Equipped(r)
  <2>1. \A c \in Range(r.clusters) : c # <<>>
    BY <1>2 DEF EquippedInv, Equipped
  <2>2. r.now <= day
    BY DEF EquippedInv, Equipped, TypeOK
  <2> QED
    BY <2>1, <2>2 DEF Equipped, Working
<1> QED
  BY <1>3, <1>4 DEF TaskStep

LEMMA OffIs ==
    ASSUME TRUE
    PROVE  /\ Off \in TaskType /\ Off.pc = "off" /\ Off.page = <<>> /\ Off.all = <<>>
           /\ Off.clusters = <<>> /\ Off.now = 0 /\ Off.agent = NoAgent
<1>1. 0 \in 0..MaxRows /\ 0 \in 0..MaxDay /\ 0 \in Nat
  BY MemoryStoreAssumption, ConsolidationAssumption
<1>2. <<>> \in Seq(Row) /\ <<>> \in Seq(Seq(Row))
  BY EmptySeq
<1> DEFINE e == <<>>
           d == 0
           f == 0
<1>3. e \in Seq(Row) /\ e \in Seq(Seq(Row)) /\ d \in 0..MaxRows /\ f \in 0..MaxDay
  BY <1>1, <1>2
<1>4. Off = [pc |-> "off", agent |-> NoAgent, id |-> d, now |-> f, offset |-> 0, full |-> FALSE,
             page |-> e, all |-> e, clusters |-> e]
  BY DEF Off
<1> HIDE DEF e, d, f
<1>5. Off \in TaskType
  BY <1>3, <1>4 DEF TaskType
<1> QED
  BY <1>5 DEF Off

(* A call at the start of a part of the cycle.                                 *)
At(a, pc) == [Off EXCEPT !.agent = a, !.pc = pc]

LEMMA AtIs ==
    ASSUME NEW a \in Agents, NEW pc \in CyclePhases \cup {"off"}
    PROVE  /\ At(a, pc) \in TaskType /\ At(a, pc).pc = pc
           /\ At(a, pc).page = <<>> /\ At(a, pc).all = <<>> /\ At(a, pc).clusters = <<>>
           /\ At(a, pc).now = 0 /\ At(a, pc).agent = a
<1>1. At(a, pc) \in TaskType
  BY OffIs DEF TaskType, At
<1>2. /\ At(a, pc).pc = pc /\ At(a, pc).page = Off.page /\ At(a, pc).all = Off.all
      /\ At(a, pc).clusters = Off.clusters /\ At(a, pc).now = Off.now /\ At(a, pc).agent = a
  BY OffIs DEF TaskType, At
<1> QED
  BY <1>1, <1>2, OffIs

LEMMA ConstantsAre ==
    ASSUME TRUE
    PROVE  /\ PageSize \in Nat \ {0} /\ PageSize \in Nat
           /\ MaxDay \in Nat /\ MaxRuns \in Nat /\ ArchiveAfter \in Nat /\ MaxMerges \in Nat
           /\ MaxRows \in Nat /\ MaxImp \in Nat /\ MaxImp > 1
BY MemoryStoreAssumption, ConsolidationAssumption

LEMMA StartCycleIs ==
    ASSUME TypeOK, EquippedInv, NEW t \in Tasks, NEW a \in Agents, StartCycle(t, a)
    PROVE  StoreStep /\ \E r : TaskStep(t, r)
<1> DEFINE pc == IF DecayOn THEN "decayList" ELSE IF WkdOn THEN "wkdList" ELSE "evolve"
           r == At(a, pc)
<1>1. pc \in CyclePhases /\ pc \notin Working \cup {"archive"}
  BY DEF CyclePhases, Working
<1>2. r \in TaskType /\ r.pc = pc /\ r.page = <<>> /\ r.all = <<>> /\ r.clusters = <<>>
      /\ r.now = 0 /\ r.agent = a
  <2> HIDE DEF pc
  <2> QED
    BY <1>1, AtIs
<1>3. task' = [task EXCEPT ![t] = r] /\ UNCHANGED <<storeVars, day>>
      /\ (Overlap \/ \A u \in Tasks : ~InCycle(u))
  BY DEF StartCycle, At
<1>4. r.pc \notin {"explicit", "demote"}
  BY <1>1, <1>2 DEF CyclePhases
<1> HIDE DEF r, pc
<1>5. StoreStep /\ ImpKept
  BY <1>3, StandsStill
<1>6. Range(r.clusters) = {}
  BY <1>2 DEF Range
<1>7. TaskStep(t, r)
  BY <1>1, <1>2, <1>3, <1>4, <1>5, <1>6, MovesOn
<1> QED
  BY <1>5, <1>7

LEMMA TurnPageIs ==
    ASSUME TypeOK, EquippedInv, NEW t \in Tasks, InCycle(t),
           NEW again \in CyclePhases, NEW done \in CyclePhases \cup {"off"},
           {again, done} \cap (Working \cup {"archive"}) = {}, TurnPage(t, again, done)
    PROVE  StoreStep /\ \E r : TaskStep(t, r)
<1> DEFINE p == [task[t] EXCEPT !.pc = again, !.offset = @ + PageSize]
           q == At(task[t].agent, done)
           r == IF task[t].full THEN p ELSE q
<1>1. task[t] \in TaskType /\ task[t].agent \in Agents
  BY DEF TypeOK, InCycle
<1>2. task' = [task EXCEPT ![t] = r] /\ UNCHANGED <<storeVars, day>>
  BY DEF TurnPage, At
<1>3. /\ p \in TaskType /\ p.pc = again /\ p.page = task[t].page /\ p.all = task[t].all
      /\ p.clusters = task[t].clusters /\ p.now = task[t].now /\ p.agent = task[t].agent
  <2>1. task[t].offset + PageSize \in Nat
    BY <1>1, ConstantsAre DEF TaskType
  <2> DEFINE o == task[t].offset + PageSize
  <2> HIDE DEF o
  <2>2. p = [task[t] EXCEPT !.pc = again, !.offset = o]
    BY DEF o
  <2>3. o \in Nat
    BY <2>1 DEF o
  <2>4. p \in TaskType
    BY <1>1, <2>2, <2>3 DEF TaskType
  <2>5. p.pc = again
    BY <1>1 DEF TaskType
  <2> QED
    BY <1>1, <2>4, <2>5 DEF TaskType
<1>4. /\ q \in TaskType /\ q.pc = done /\ q.page = <<>> /\ q.all = <<>> /\ q.clusters = <<>>
      /\ q.now = 0 /\ q.agent = task[t].agent
  BY <1>1, AtIs
<1>5. {again, done} \cap {"explicit", "demote"} = {}
  BY DEF CyclePhases
<1> HIDE DEF p, q
<1>6. r \in {p, q}
  OBVIOUS
<1> HIDE DEF r
<1>7. StoreStep /\ TaskStep(t, r)
  <2>0. StoreStep
    BY <1>2, StandsStill
  <2>1. CASE r = p
    BY <1>1, <1>2, <1>3, <1>5, <2>0, <2>1, MovesOn
  <2>2. CASE r = q
    <3>1. Range(q.clusters) = {}
      BY <1>4 DEF Range
    <3> QED
      BY <1>1, <1>2, <1>4, <1>5, <2>0, <2>2, <3>1, MovesOn
  <2> QED
    BY <1>6, <2>1, <2>2
<1> QED
  BY <1>7

LEMMA ReadPageIs ==
    ASSUME TypeOK, EquippedInv, NEW t \in Tasks, InCycle(t), NEW next \in {"decay", "promote"},
           ReadPage(t, next), UNCHANGED <<storeVars, day>>
    PROVE  StoreStep /\ \E r : TaskStep(t, r)
<1> DEFINE o == task[t]
           page == List(o.agent, o.offset, PageSize)
           full == Len(page) = PageSize
           now == IF o.offset = 0 THEN day ELSE o.now
           r == [o EXCEPT !.page = page, !.full = full, !.pc = next, !.now = now]
<1>1. /\ o \in TaskType /\ o.agent \in Agents /\ o.offset \in Nat /\ o.now \in 0..MaxDay
      /\ day \in 0..MaxDay /\ o.now <= day
  BY DEF TypeOK, InCycle, TaskType, EquippedInv, Equipped
<1>2. page \in Seq(Row) /\ Range(page) \subseteq StoredRows
  <2>1. page \in Seq(Row) /\ \A e \in Range(page) : \E i \in Stored : e = rows[i]
    BY <1>1, ListIs, ConstantsAre DEF TypeOK
  <2> HIDE DEF page
  <2> QED
    BY <2>1 DEF StoredRows
<1>3. now \in 0..MaxDay /\ now <= day /\ full \in BOOLEAN
  BY <1>1, ConstantsAre
<1>4. task' = [task EXCEPT ![t] = r]
  BY DEF ReadPage, TypeOK
<1> HIDE DEF page, full, now, o
<1>5. r \in TaskType
  BY <1>1, <1>2, <1>3 DEF TaskType, CyclePhases
<1>6. /\ r.page = page /\ r.pc = next /\ r.now = now /\ r.all = o.all /\ r.clusters = o.clusters
      /\ r.agent = o.agent
  BY <1>1 DEF TaskType
<1> HIDE DEF r
<1>7. StoreStep /\ UNCHANGED rows
  BY StandsStill DEF storeVars
<1>8. Copies(r) \subseteq Copies(o) \cup StoredRows
  BY <1>2, <1>6 DEF Copies
<1>9. Equipped(r)
  <2>1. \A c \in Range(r.clusters) : c # <<>>
    BY <1>6 DEF EquippedInv, Equipped, o
  <2> QED
    BY <1>3, <1>6, <2>1 DEF Equipped
<1>10. FreshPage(t, r)
  BY <1>6, <1>7 DEF FreshPage, page, o
<1> QED
  BY <1>1, <1>4, <1>5, <1>6, <1>7, <1>8, <1>9, <1>10 DEF TaskStep, o

(* A row of the page is done, with an update of it or without.                  *)
LEMMA RowDoneIs ==
    ASSUME TypeOK, EquippedInv, NEW t \in Tasks, task[t].pc \in Working, task[t].page # <<>>,
           NEW next \in {"decay", "promote"},
           task' = [task EXCEPT ![t].page = Tail(@), ![t].pc = next], UNCHANGED day,
           \A i \in Ids : i # Head(task[t].page).id => rows'[i] = rows[i]
    PROVE  \E r : TaskStep(t, r)
<1> DEFINE o == task[t]
           page == Tail(o.page)
           r == [o EXCEPT !.page = page, !.pc = next]
<1>1. o \in TaskType /\ o.page \in Seq(Row) /\ o.page # <<>> /\ InCycle(t) /\ o.agent \in Agents
  BY DEF TypeOK, TaskType, InCycle, Working, CyclePhases
<1>2. page \in Seq(Row) /\ Range(page) \subseteq Range(o.page)
  BY <1>1, HeadAndTail
<1>3. task' = [task EXCEPT ![t] = r]
  BY DEF TypeOK
<1>4. page = Tail(task[t].page)
  OBVIOUS
<1> HIDE DEF page, o
<1>5. r \in TaskType
  BY <1>1, <1>2 DEF TaskType, CyclePhases
<1>6. /\ r.page = page /\ r.pc = next /\ r.now = o.now /\ r.all = o.all /\ r.clusters = o.clusters
      /\ r.agent = o.agent
  BY <1>1 DEF TaskType
<1> HIDE DEF r
<1>7. Copies(r) \subseteq Copies(o)
  BY <1>2, <1>6 DEF Copies
<1>8. Equipped(r)
  BY <1>6 DEF EquippedInv, Equipped, o
<1>9. RowDone(t, r)
  BY <1>1, <1>4, <1>6 DEF RowDone
<1> QED
  BY <1>1, <1>3, <1>5, <1>6, <1>7, <1>8, <1>9 DEF TaskStep, o

LEMMA WritesAre ==
    ASSUME TypeOK, NEW i \in Ids, rows[i] # NoRow
    PROVE  /\ rows[i] \in Row
           /\ \A x \in Levels : /\ WithImp(i, x) \in Row /\ Same(rows[i], WithImp(i, x))
                                /\ WithImp(i, x).imp = x /\ WithImp(i, x).tags = rows[i].tags
                                /\ WithImp(i, x).scope = rows[i].scope
           /\ \A x \in Scopes : /\ WithScope(i, x) \in Row /\ Same(rows[i], WithScope(i, x))
                                /\ WithScope(i, x).imp = rows[i].imp
                                /\ WithScope(i, x).tags = rows[i].tags
                                /\ WithScope(i, x).scope = x
           /\ \A x \in SUBSET Marks :
                 LET new == [WithTags(i, x) EXCEPT !.imp = Floor]
                 IN  /\ new \in Row
                     /\ new.id = rows[i].id /\ new.facts = rows[i].facts /\ new.born = rows[i].born
                     /\ new.tags = x /\ new.imp = Floor /\ new.scope = rows[i].scope
           /\ \A a \in Agents :
                 LET new == [WithOwner(i, a) EXCEPT !.scope = "private"]
                 IN  /\ new \in Row /\ Same(rows[i], new)
                     /\ new.tags = rows[i].tags /\ new.imp = rows[i].imp /\ new.scope = "private"
<1>1. rows[i] \in Row
  BY DEF TypeOK, StoreTypeOK
<1> DEFINE e == rows[i]
<1>2. Floor \in Levels /\ "private" \in Scopes
  BY ConstantsAre DEF Floor, Levels, Scopes
<1> HIDE DEF e
<1>3. e \in Row
  BY <1>1 DEF e
<1>4. \A x \in Levels : LET new == [e EXCEPT !.imp = x] IN
          new \in Row /\ Same(e, new) /\ new.imp = x /\ new.tags = e.tags /\ new.scope = e.scope
  BY <1>3 DEF Row, Same
<1>5. \A x \in Scopes : LET new == [e EXCEPT !.scope = x] IN
          new \in Row /\ Same(e, new) /\ new.imp = e.imp /\ new.tags = e.tags /\ new.scope = x
  BY <1>3 DEF Row, Same
<1>6. \A x \in SUBSET Marks : LET new == [e EXCEPT !.tags = x, !.imp = Floor] IN
          /\ new \in Row /\ new.id = e.id /\ new.facts = e.facts /\ new.born = e.born
          /\ new.tags = x /\ new.imp = Floor /\ new.scope = e.scope
  <2> HIDE DEF Floor
  <2> QED
    BY <1>2, <1>3 DEF Row
<1>7. \A a \in Agents : LET new == [e EXCEPT !.agent = a, !.scope = "private"] IN
          new \in Row /\ Same(e, new) /\ new.tags = e.tags /\ new.imp = e.imp /\ new.scope = "private"
  BY <1>2, <1>3 DEF Row, Same
<1> QED
  BY <1>1, <1>4, <1>5, <1>6, <1>7 DEF WithImp, WithScope, WithTags, WithOwner, e

LEMMA AfterDecayIs ==
    ASSUME NEW e \in Row, NEW now \in Nat
    PROVE  /\ AfterDecay(e, now) \in Levels
           /\ AfterDecay(e, now) <= IF e.imp < Floor THEN Floor ELSE e.imp
<1> DEFINE days == now - e.born
           imp == e.imp
<1>1. imp \in 0..MaxImp /\ days \in Int /\ MaxImp \in Nat /\ MaxImp > 1
  BY RowIs, ConstantsAre DEF Levels
<1> HIDE DEF days, imp
<1>2. Decayed(imp, days) \in 0..MaxImp /\ Decayed(imp, days) <= IF imp < Floor THEN Floor ELSE imp
  BY <1>1 DEF Decayed, Floor
<1>3. AfterDecay(e, now) \in {0, Decayed(imp, days)}
  BY DEF AfterDecay, Archives, imp, days
<1> HIDE DEF Decayed
<1> QED
  BY <1>1, <1>2, <1>3 DEF Levels, imp, Floor

LEMMA DecayRowIs ==
    ASSUME TypeOK, EquippedInv, NEW t \in Tasks, DecayRow(t)
    PROVE  /\ StoreStep /\ \E r : TaskStep(t, r)
           /\ \A i \in Ids : rows'[i] # rows[i] =>
                 /\ i = Head(task[t].page).id
                 /\ rows'[i].imp = AfterDecay(Head(task[t].page), task[t].now)
                 /\ rows'[i].scope = rows[i].scope
<1> DEFINE e == Head(task[t].page)
           new == AfterDecay(e, task[t].now)
<1>1. /\ task[t].pc = "decay" /\ task[t].pc \in Working /\ task[t].page # <<>>
      /\ task[t].page \in Seq(Row) /\ task[t] \in TaskType
      /\ task' = [task EXCEPT ![t].page = Tail(@)] /\ UNCHANGED day
  BY DEF DecayRow, TypeOK, TaskType, Working
<1>2. e \in Row /\ e.id \in Ids
  BY <1>1, HeadAndTail, RowIs
<1>3. task[t].now \in Nat /\ new \in Levels
  <2>1. task[t].now \in Nat
    BY <1>1, ConstantsAre DEF TaskType
  <2> QED
    BY <1>2, <2>1, AfterDecayIs
<1>4. UNCHANGED storeVars \/ Update(e.id, WithImp(e.id, new))
  BY DEF DecayRow
<1> HIDE DEF e, new
<1>5. /\ StoreStep /\ \A i \in Ids : i # e.id => rows'[i] = rows[i]
      /\ rows'[e.id] # rows[e.id] => rows'[e.id].imp = new /\ rows'[e.id].scope = rows[e.id].scope
  <2>1. CASE UNCHANGED storeVars
    BY <2>1, StandsStill DEF storeVars
  <2>2. CASE Update(e.id, WithImp(e.id, new))
    <3>1. Update(e.id, WithImp(e.id, new))
      BY <2>2
    <3>2. rows[e.id] # NoRow =>
             /\ WithImp(e.id, new) \in Row /\ Same(rows[e.id], WithImp(e.id, new))
             /\ WithImp(e.id, new).tags = rows[e.id].tags
             /\ WithImp(e.id, new).imp = new /\ WithImp(e.id, new).scope = rows[e.id].scope
      BY <1>2, <1>3, WritesAre
    <3> DEFINE w == WithImp(e.id, new)
    <3> HIDE DEF w
    <3>3. StoreStep /\ (\A j \in Ids : j # e.id => rows'[j] = rows[j])
          /\ (rows[e.id] # NoRow => rows'[e.id] = w) /\ (rows[e.id] = NoRow => rows'[e.id] = NoRow)
      BY <1>2, <3>1, <3>2, UpdateKeeps DEF w
    <3> QED
      BY <3>2, <3>3 DEF w
  <2> QED
    BY <1>4, <2>1, <2>2
<1>6. task' = [task EXCEPT ![t].page = Tail(@), ![t].pc = "decay"]
  BY <1>1 DEF TypeOK, TaskType
<1>7. \E r : TaskStep(t, r)
  BY <1>1, <1>5, <1>6, RowDoneIs DEF e
<1> QED
  BY <1>5, <1>7 DEF e, new

LEMMA PromoteGetIs ==
    ASSUME TypeOK, EquippedInv, NEW t \in Tasks, PromoteGet(t)
    PROVE  /\ StoreStep /\ ImpKept /\ UNCHANGED storeVars
           /\ \E r : TaskStep(t, r)
<1> DEFINE o == task[t]
           e == Head(o.page)
           good == Meets(e, o.now) /\ Promotable(e.id)
           p == [o EXCEPT !.pc = "promoteWrite"]
<1>1. /\ o.pc = "promote" /\ o.pc \in Working /\ o.page # <<>> /\ o.page \in Seq(Row)
      /\ o \in TaskType /\ InCycle(t) /\ o.agent \in Agents
      /\ UNCHANGED storeVars /\ UNCHANGED day
      /\ task' = IF good THEN [task EXCEPT ![t] = p] ELSE [task EXCEPT ![t].page = Tail(@)]
  BY DEF PromoteGet, TypeOK, TaskType, Working, InCycle, CyclePhases
<1>2. StoreStep /\ ImpKept /\ UNCHANGED rows
  BY <1>1, StandsStill DEF storeVars
<1>3. CASE good
  <2>1. task' = [task EXCEPT ![t] = p]
    BY <1>1, <1>3
  <2>2. p \in TaskType
    BY <1>1 DEF TaskType, CyclePhases
  <2>3. /\ p.pc = "promoteWrite" /\ p.page = o.page /\ p.all = o.all /\ p.clusters = o.clusters
        /\ p.now = o.now /\ p.agent = o.agent
    BY <1>1 DEF TaskType
  <2>4. Meets(Head(o.page), o.now)
    BY <1>3
  <2> HIDE DEF p, good, e
  <2>5. Equipped(o)
    BY DEF EquippedInv
  <2> HIDE DEF o
  <2>6. Equipped(p)
    BY <1>1, <2>3, <2>4, <2>5 DEF Equipped
  <2>7. Copies(p) = Copies(o)
    BY <2>3 DEF Copies
  <2>8. SamePage(t, p)
    BY <1>1, <1>2, <2>3 DEF SamePage, o
  <2>9. TaskStep(t, p)
    BY <1>1, <1>2, <2>1, <2>2, <2>3, <2>6, <2>7, <2>8 DEF TaskStep, o
  <2> QED
    BY <1>1, <1>2, <2>9
<1>4. CASE ~good
  <2>1. task' = [task EXCEPT ![t].page = Tail(@)]
    BY <1>1, <1>4
  <2>2. task' = [task EXCEPT ![t].page = Tail(@), ![t].pc = "promote"]
    BY <1>1, <2>1 DEF TypeOK, TaskType
  <2> QED
    BY <1>1, <1>2, <2>2, RowDoneIs
<1> QED
  BY <1>3, <1>4

LEMMA ShareKeeps ==
    ASSUME TypeOK, NEW i \in Ids, NEW scope \in Scopes, Update(i, WithScope(i, scope))
    PROVE  /\ StoreStep /\ ImpKept
           /\ \A j \in Ids : j # i => rows'[j] = rows[j]
           /\ rows[i] # NoRow => rows'[i].scope = scope
<1> DEFINE new == WithScope(i, scope)
<1>1. rows[i] # NoRow => /\ new \in Row /\ Same(rows[i], new)
                         /\ new.imp = rows[i].imp /\ new.tags = rows[i].tags /\ new.scope = scope
  BY WritesAre
<1>2. Update(i, new)
  OBVIOUS
<1> HIDE DEF new
<1> QED
  BY <1>1, <1>2, UpdateKeeps

LEMMA PromoteWriteIs ==
    ASSUME TypeOK, EquippedInv, NEW t \in Tasks, PromoteWrite(t) \/ PromoteFails(t)
    PROVE  /\ StoreStep /\ ImpKept /\ \E r : TaskStep(t, r)
           /\ task[t].pc = "promoteWrite" /\ task[t].page # <<>>
           /\ \A i \in Ids : i # Head(task[t].page).id => rows'[i] = rows[i]
<1> DEFINE i == Head(task[t].page).id
<1>1. /\ task[t].pc = "promoteWrite" /\ task[t].pc \in Working /\ task[t].page # <<>>
      /\ task[t].page \in Seq(Row) /\ UNCHANGED day
      /\ task' = [task EXCEPT ![t].page = Tail(@), ![t].pc = "promote"]
  BY DEF PromoteWrite, PromoteFails, TypeOK, TaskType, EquippedInv, Equipped, Working
<1>2. i \in Ids
  BY <1>1, HeadAndTail, RowIs
<1>3. Update(i, WithScope(i, "shared")) \/ UNCHANGED storeVars
  BY DEF PromoteWrite, PromoteFails
<1> HIDE DEF i
<1>4. StoreStep /\ ImpKept /\ \A j \in Ids : j # i => rows'[j] = rows[j]
  <2>1. "shared" \in Scopes
    BY DEF Scopes
  <2>2. CASE UNCHANGED storeVars
    BY <2>2, StandsStill DEF storeVars
  <2> QED
    BY <1>2, <1>3, <2>1, <2>2, ShareKeeps
<1> QED
  BY <1>1, <1>4, RowDoneIs DEF i

(* Calls that users ask for.                                                 *)
LEMMA ExplicitIs ==
    ASSUME TypeOK, EquippedInv, NEW t \in Tasks, Explicit(t)
    PROVE  /\ StoreStep /\ ImpKept /\ \E r : TaskStep(t, r)
           /\ \A i \in Ids : rows'[i] # rows[i] =>
                 rows'[i] # NoRow /\ rows[i] # NoRow
                 /\ (rows'[i].scope = "private" \/ (task[t].pc = "explicit" /\ task[t].id = i))
<1> DEFINE i == task[t].id
           written ==
              /\ StoreStep /\ ImpKept
              /\ \A j \in Ids : rows'[j] # rows[j] =>
                    rows'[j] # NoRow /\ rows[j] # NoRow
                    /\ (rows'[j].scope = "private" \/ (task[t].pc = "explicit" /\ i = j))
<1>1. i \in Ids /\ task' = [task EXCEPT ![t] = Off] /\ UNCHANGED day
  BY DEF Explicit, ExplicitWrite, DemoteWrite, EquippedInv, Equipped
<1>2. "shared" \in Scopes /\ "private" \in Scopes
  BY DEF Scopes
<1>3. ASSUME ExplicitWrite(t)
      PROVE  written
  <2>1. Update(i, WithScope(i, "shared")) /\ task[t].pc = "explicit"
    BY <1>3 DEF ExplicitWrite
  <2>2. rows[i] = NoRow => UNCHANGED rows
    BY <2>1 DEF Update
  <2>3. StoreStep /\ ImpKept /\ \A j \in Ids : j # i => rows'[j] = rows[j]
    BY <1>1, <1>2, <2>1, ShareKeeps
  <2>4. rows[i] # NoRow => rows'[i] # NoRow
    <3>1. rows[i] # NoRow => rows' = [rows EXCEPT ![i] = WithScope(i, "shared")]
      BY <2>1 DEF Update
    <3>2. rows[i] # NoRow => WithScope(i, "shared") # NoRow
      BY <1>1, <1>2, WritesAre, RowIs
    <3> QED
      BY <1>1, <3>1, <3>2 DEF TypeOK, StoreTypeOK
  <2> QED
    BY <2>1, <2>2, <2>3, <2>4
<1>4. ASSUME DemoteWrite(t)
      PROVE  written
  <2> DEFINE whole == [WithOwner(i, task[t].agent) EXCEPT !.scope = "private"]
             part == WithScope(i, "private")
  <2>1. task[t].pc = "demote" /\ task[t].agent \in Agents /\ (Update(i, whole) \/ Update(i, part))
    BY <1>4 DEF DemoteWrite, EquippedInv, Equipped
  <2>2. rows[i] # NoRow =>
           /\ whole \in Row /\ Same(rows[i], whole) /\ whole.tags = rows[i].tags
           /\ whole.imp = rows[i].imp /\ whole.scope = "private"
           /\ part \in Row /\ Same(rows[i], part) /\ part.tags = rows[i].tags
           /\ part.imp = rows[i].imp /\ part.scope = "private"
    BY <1>1, <1>2, <2>1, WritesAre
  <2> HIDE DEF whole, part
  <2>3. PICK new \in {whole, part} : Update(i, new)
    BY <2>1
  <2>4. rows[i] # NoRow => /\ new \in Row /\ Same(rows[i], new) /\ new.tags = rows[i].tags
                           /\ new.imp = rows[i].imp /\ new.scope = "private"
    BY <2>2
  <2>5. /\ StoreStep /\ ImpKept /\ \A j \in Ids : j # i => rows'[j] = rows[j]
        /\ rows[i] # NoRow => rows'[i] = new
        /\ rows[i] = NoRow => rows'[i] = NoRow
    BY <1>1, <2>3, <2>4, UpdateKeeps
  <2> QED
    BY <2>4, <2>5, RowIs
<1>5. \E r : TaskStep(t, r)
  <2>1. /\ Off \in TaskType /\ Off.pc = "off" /\ Off.page = <<>> /\ Off.all = <<>> /\ Off.now = 0
        /\ Range(Off.clusters) = {}
    BY OffIs DEF Range
  <2>2. "off" \notin CyclePhases \cup Working \cup {"archive", "explicit", "demote"}
    BY DEF CyclePhases, Working
  <2>3. ImpKept
    BY <1>3, <1>4 DEF Explicit
  <2>4. TaskStep(t, Off)
    BY <1>1, <2>1, <2>2, <2>3, MovesOn
  <2> QED
    BY <2>4
<1> QED
  BY <1>3, <1>4, <1>5 DEF Explicit

LEMMA BeginIs ==
    ASSUME TypeOK, EquippedInv, NEW t \in Tasks, NEW i \in Ids,
           BeginPromote(t, i) \/ \E a \in Agents : BeginDemote(t, i, a)
    PROVE  StoreStep /\ ImpKept /\ UNCHANGED storeVars /\ \E r : TaskStep(t, r)
<1> DEFINE o == task[t]
<1>1. o \in TaskType /\ UNCHANGED <<storeVars, day>> /\ i \in 0..MaxRows
  BY DEF TypeOK, BeginPromote, BeginDemote, Ids
<1>2. PICK a \in Agents \cup {NoAgent}, pc \in {"explicit", "demote"} :
         /\ pc = "demote" => a \in Agents
         /\ task' = [task EXCEPT ![t] = [o EXCEPT !.pc = pc, !.id = i, !.agent = a]]
  <2>1. CASE BeginPromote(t, i)
    <3>1. task' = [task EXCEPT ![t].pc = "explicit", ![t].id = i]
      BY <2>1 DEF BeginPromote
    <3>2. o.agent \in Agents \cup {NoAgent}
      BY <1>1 DEF TaskType
    <3>3. [o EXCEPT !.pc = "explicit", !.id = i]
             = [o EXCEPT !.pc = "explicit", !.id = i, !.agent = o.agent]
      BY <1>1 DEF TaskType
    <3>4. task' = [task EXCEPT ![t] = [o EXCEPT !.pc = "explicit", !.id = i]]
      BY <3>1 DEF TypeOK
    <3> QED
      BY <3>2, <3>3, <3>4
  <2>2. CASE \E a \in Agents : BeginDemote(t, i, a)
    <3>1. PICK a \in Agents :
             task' = [task EXCEPT ![t].pc = "demote", ![t].id = i, ![t].agent = a]
      BY <2>2 DEF BeginDemote
    <3>2. task' = [task EXCEPT ![t] = [o EXCEPT !.pc = "demote", !.id = i, !.agent = a]]
      BY <3>1 DEF TypeOK
    <3> QED
      BY <3>2
  <2> QED
    BY <2>1, <2>2
<1> DEFINE r == [o EXCEPT !.pc = pc, !.id = i, !.agent = a]
<1>3. r \in TaskType
  BY <1>1 DEF TaskType
<1>4. /\ r.pc = pc /\ r.page = o.page /\ r.all = o.all /\ r.clusters = o.clusters
      /\ r.now = o.now /\ r.agent = a /\ r.id = i
  BY <1>1 DEF TaskType
<1>5. pc \notin CyclePhases \cup Working \cup {"archive"}
  BY DEF CyclePhases, Working
<1>6. StoreStep /\ ImpKept
  BY <1>1, StandsStill
<1>7. TaskStep(t, r)
  <2>1. task' = [task EXCEPT ![t] = r]
    BY <1>2
  <2> HIDE DEF r
  <2> QED
    BY <1>1, <1>2, <1>3, <1>4, <1>5, <1>6, <2>1, MovesOn
<1> QED
  BY <1>1, <1>6, <1>7

LEMMA NextClusterIs ==
    ASSUME TypeOK, EquippedInv, NEW t \in Tasks, task[t].pc \in {"merge", "archive"},
           task[t].clusters # <<>>, NextCluster(t), UNCHANGED day
    PROVE  \E r : TaskStep(t, r)
<1> DEFINE o == task[t]
           clusters == Tail(o.clusters)
           r == [o EXCEPT !.clusters = clusters, !.page = <<>>, !.pc = "merge"]
<1>1. /\ o \in TaskType /\ o.clusters \in Seq(Seq(Row)) /\ InCycle(t) /\ o.agent \in Agents
      /\ <<>> \in Seq(Row)
  BY EmptySeq DEF TypeOK, TaskType, InCycle, CyclePhases
<1>2. clusters \in Seq(Seq(Row)) /\ Range(clusters) \subseteq Range(o.clusters)
  BY <1>1, HeadAndTail
<1>3. task' = [task EXCEPT ![t] = r]
  BY DEF TypeOK, NextCluster
<1> HIDE DEF clusters
<1>4. r \in TaskType
  BY <1>1, <1>2 DEF TaskType, CyclePhases
<1>5. /\ r.page = <<>> /\ r.pc = "merge" /\ r.now = o.now /\ r.all = o.all /\ r.clusters = clusters
      /\ r.agent = o.agent
  BY <1>1 DEF TaskType
<1>6. "merge" \notin Working \cup {"archive", "explicit", "demote"}
  BY DEF Working
<1> HIDE DEF r
<1>7. TaskStep(t, r)
  BY <1>1, <1>2, <1>3, <1>4, <1>5, <1>6, MovesOn
<1> QED
  BY <1>7

(* Steps that change neither rows nor pages.                                 *)
LEMMA PhaseIs ==
    ASSUME TypeOK, EquippedInv, NEW t \in Tasks, NEW next \in {"evolve", "promoteList"}, InCycle(t),
           task' = [task EXCEPT ![t].pc = next], UNCHANGED <<storeVars, day>>
    PROVE  StoreStep /\ \E r : TaskStep(t, r)
<1> DEFINE o == task[t]
           r == [o EXCEPT !.pc = next]
<1>1. o \in TaskType /\ o.agent \in Agents /\ task' = [task EXCEPT ![t] = r]
  BY DEF TypeOK, InCycle
<1>2. r \in TaskType
  BY <1>1 DEF TaskType, CyclePhases
<1>3. /\ r.page = o.page /\ r.pc = next /\ r.now = o.now /\ r.all = o.all
      /\ r.clusters = o.clusters /\ r.agent = o.agent
  BY <1>1 DEF TaskType
<1>4. next \notin Working \cup {"archive", "explicit", "demote"}
  BY DEF Working
<1> HIDE DEF r
<1>5. StoreStep /\ ImpKept
  BY StandsStill
<1>6. TaskStep(t, r)
  BY <1>1, <1>2, <1>3, <1>4, <1>5, MovesOn
<1> QED
  BY <1>5, <1>6

LEMMA CycleFailsIs ==
    ASSUME TypeOK, EquippedInv, NEW t \in Tasks, CycleFails(t)
    PROVE  StoreStep /\ \E r : TaskStep(t, r)
<1>1. task' = [task EXCEPT ![t] = Off] /\ UNCHANGED <<storeVars, day>> /\ InCycle(t)
  BY DEF CycleFails, InCycle, CyclePhases
<1>2. /\ Off \in TaskType /\ Off.pc = "off" /\ Off.page = <<>> /\ Off.all = <<>> /\ Off.now = 0
      /\ Range(Off.clusters) = {}
  BY OffIs DEF Range
<1>3. "off" \notin CyclePhases \cup Working \cup {"archive", "explicit", "demote"}
  BY DEF CyclePhases, Working
<1>4. StoreStep /\ ImpKept
  BY <1>1, StandsStill
<1>5. TaskStep(t, Off)
  BY <1>1, <1>2, <1>3, <1>4, MovesOn
<1> QED
  BY <1>4, <1>5

LEMMA WkdListIs ==
    ASSUME TypeOK, EquippedInv, NEW t \in Tasks, WkdList(t)
    PROVE  StoreStep /\ \E r : TaskStep(t, r)
<1> DEFINE o == task[t]
           page == List(o.agent, o.offset, PageSize)
           all == o.all \o page
           found == FindClusters(all)
           onward == o.offset + PageSize
           more == [o EXCEPT !.all = all, !.offset = onward]
           done == [o EXCEPT !.all = <<>>, !.offset = 0, !.pc = "merge", !.clusters = found]
           r == IF Len(page) = PageSize THEN more ELSE done
<1>1. /\ o \in TaskType /\ o.agent \in Agents /\ o.offset \in Nat /\ o.pc = "wkdList"
      /\ o.all \in Seq(Row) /\ <<>> \in Seq(Row)
      /\ InCycle(t) /\ UNCHANGED <<storeVars, day>>
  BY EmptySeq DEF WkdList, TypeOK, InCycle, CyclePhases, TaskType
<1>2. task' = [task EXCEPT ![t] = r]
  <2>1. task' = IF Len(page) = PageSize
                THEN [task EXCEPT ![t].all = all, ![t].offset = @ + PageSize]
                ELSE [task EXCEPT ![t].all = <<>>, ![t].offset = 0, ![t].pc = "merge",
                                  ![t].clusters = found]
    BY DEF WkdList
  <2> HIDE DEF all, found, page
  <2> QED
    BY <2>1 DEF TypeOK
<1>3. page \in Seq(Row) /\ Range(page) \subseteq StoredRows
  <2>1. page \in Seq(Row) /\ \A e \in Range(page) : \E i \in Stored : e = rows[i]
    <3>1. StoreTypeOK /\ PageSize \in Nat \ {0} /\ o.offset \in Nat
      BY <1>1, ConstantsAre DEF TypeOK
    <3> HIDE DEF o, all, found, onward, more, done, r
    <3> QED
      BY <3>1, ListIs
  <2> HIDE DEF page
  <2> QED
    BY <2>1 DEF StoredRows
<1> HIDE DEF page
<1>4. all \in Seq(Row) /\ Range(all) = Range(o.all) \cup Range(page)
  BY <1>1, <1>3, ConcatProperties, RangeConcatenation
<1> HIDE DEF all
<1>5. /\ found \in Seq(Seq(Row))
      /\ \A c \in Range(found) : c # <<>> /\ Range(c) \subseteq Range(all)
  BY <1>4, FindClustersIs
<1>6. onward \in Nat /\ 0 \in Nat
  BY <1>1, ConstantsAre
<1> HIDE DEF found, onward
<1>7. /\ more \in TaskType /\ more.page = o.page /\ more.pc = "wkdList" /\ more.now = o.now
      /\ more.all = all /\ more.clusters = o.clusters /\ more.agent = o.agent
  BY <1>1, <1>4, <1>6 DEF TaskType
<1>8. /\ done \in TaskType /\ done.page = o.page /\ done.pc = "merge" /\ done.now = o.now
      /\ done.all = <<>> /\ done.clusters = found /\ done.agent = o.agent
  <2>1. done \in TaskType
    BY <1>1, <1>5, <1>6 DEF TaskType, CyclePhases
  <2> QED
    BY <1>1, <2>1 DEF TaskType
<1> HIDE DEF more, done
<1>9. r \in {more, done}
  OBVIOUS
<1> HIDE DEF r
<1>10. Range(<<>>) = {}
  BY DEF Range
<1>11. Copies(r) \subseteq Copies(o) \cup StoredRows
  <2>1. Copies(more) \subseteq Copies(o) \cup StoredRows
    BY <1>3, <1>4, <1>7 DEF Copies
  <2>2. Copies(done) \subseteq Copies(o) \cup StoredRows
    BY <1>3, <1>4, <1>5, <1>8, <1>10 DEF Copies
  <2> QED
    BY <1>9, <2>1, <2>2
<1>12. Equipped(r)
  <2>1. Equipped(o)
    BY DEF EquippedInv
  <2> HIDE DEF o
  <2>2. Equipped(more) /\ Equipped(done)
    BY <1>5, <1>7, <1>8, <2>1 DEF Equipped
  <2> QED
    BY <1>9, <2>2
<1>13. StoreStep /\ ImpKept
  BY <1>1, StandsStill
<1>14. r \in TaskType /\ r.pc \in {"wkdList", "merge"} /\ r.agent = o.agent
  BY <1>7, <1>8, <1>9
<1>15. TaskStep(t, r)
  BY <1>1, <1>2, <1>11, <1>12, <1>13, <1>14 DEF TaskStep, Working
<1> QED
  BY <1>13, <1>15

LEMMA MergeInsertIs ==
    ASSUME TypeOK, IdsInv, EquippedInv, NEW t \in Tasks, MergeInsert(t)
    PROVE  StoreStep /\ ImpKept /\ \E r : TaskStep(t, r)
<1> DEFINE o == task[t]
           c == Head(o.clusters)
           facts == UNION {c[k].facts : k \in DOMAIN c}
           tags == (UNION {c[k].tags : k \in DOMAIN c}) \cup {"distilled"}
           r == [o EXCEPT !.page = c, !.pc = "archive"]
<1>1. /\ o \in TaskType /\ o.agent \in Agents /\ o.clusters \in Seq(Seq(Row)) /\ o.pc = "merge"
      /\ o.clusters # <<>> /\ InCycle(t) /\ UNCHANGED day
      /\ Insert(o.agent, c[1].scope, MaxImpOf(c), facts, tags, day)
      /\ task' = [task EXCEPT ![t] = r]
  BY DEF MergeInsert, TypeOK, InCycle, CyclePhases, TaskType
<1>2. c \in Seq(Row) /\ c \in Range(o.clusters) /\ c # <<>>
  <2>1. c \in Seq(Row) /\ c \in Range(o.clusters)
    BY <1>1, HeadAndTail
  <2> QED
    BY <2>1 DEF EquippedInv, Equipped
<1> HIDE DEF c
<1>3. 1 \in DOMAIN c /\ \A k \in DOMAIN c : c[k] \in Row
  BY <1>2, HeadAndTail, ElementOfSeq, LenProperties
<1>4. c[1].scope \in Scopes /\ MaxImpOf(c) \in Levels /\ facts \in SUBSET Facts /\ tags \in SUBSET Marks
  <2>1. c[1].scope \in Scopes /\ MaxImpOf(c) \in Levels
    BY <1>2, <1>3, RowIs, MaxImpIs
  <2>2. \A k \in DOMAIN c : c[k].facts \subseteq Facts /\ c[k].tags \subseteq Marks
    BY <1>3, RowIs
  <2>3. facts \in SUBSET Facts
    BY <2>2
  <2>4. tags \in SUBSET Marks
    BY <2>2 DEF Marks
  <2> QED
    BY <2>1, <2>3, <2>4
<1>5. "distilled" \in tags /\ \A e \in Range(c) : e.facts \subseteq facts
  BY DEF Range
<1> HIDE DEF facts, tags
<1>6. /\ StoreStep /\ ImpKept /\ last + 1 \in Ids /\ rows'[last + 1] # NoRow
      /\ rows'[last + 1].facts = facts /\ rows'[last + 1].tags = tags
  BY <1>1, <1>4, <1>5, InsertKeeps
<1>7. /\ r \in TaskType /\ r.page = c /\ r.pc = "archive" /\ r.now = o.now
      /\ r.all = o.all /\ r.clusters = o.clusters /\ r.agent = o.agent
  <2>1. r \in TaskType
    BY <1>1, <1>2 DEF TaskType, CyclePhases
  <2> QED
    BY <1>1, <2>1 DEF TaskType
<1> HIDE DEF r
<1>8. Distilled(r)
  BY <1>5, <1>6, <1>7 DEF Distilled
<1>9. Copies(r) \subseteq Copies(o)
  BY <1>2, <1>7 DEF Copies
<1>10. Equipped(r)
  <2>1. Equipped(o)
    BY DEF EquippedInv
  <2> HIDE DEF o
  <2> QED
    BY <1>1, <1>7, <2>1 DEF Equipped
<1>11. TaskStep(t, r)
  BY <1>1, <1>7, <1>8, <1>9, <1>10 DEF TaskStep, Working
<1> QED
  BY <1>6, <1>11

LEMMA ArchiveOriginalIs ==
    ASSUME TypeOK, EquippedInv, NEW t \in Tasks, ArchiveOriginal(t),
           \A e \in Copies(task[t]) : CopyOf(e)
    PROVE  /\ StoreStep /\ \E r : TaskStep(t, r)
           /\ \A i \in Ids : rows'[i] # rows[i] =>
                 rows'[i].imp = Floor /\ rows'[i].scope = rows[i].scope
<1> DEFINE o == task[t]
           e == Head(o.page)
           page == Tail(o.page)
           tags == e.tags \cup {"archived"}
           new == [WithTags(e.id, tags) EXCEPT !.imp = Floor]
           r == [o EXCEPT !.page = page]
<1>1. /\ o \in TaskType /\ o.agent \in Agents /\ o.page \in Seq(Row) /\ o.pc = "archive"
      /\ o.page # <<>> /\ InCycle(t) /\ UNCHANGED day /\ Update(e.id, new)
      /\ task' = [task EXCEPT ![t] = r]
  BY DEF ArchiveOriginal, TypeOK, InCycle, CyclePhases, TaskType
<1>2. /\ e \in Row /\ e \in Range(o.page) /\ page \in Seq(Row)
      /\ Range(page) \subseteq Range(o.page)
  BY <1>1, HeadAndTail
<1>3. e.id \in Ids /\ tags \in SUBSET Marks /\ CopyOf(e)
  <2>1. e.id \in Ids /\ e.tags \in SUBSET Marks
    BY <1>2, RowIs
  <2>2. e \in Copies(o)
    BY <1>2 DEF Copies
  <2> QED
    BY <2>1, <2>2 DEF Marks
<1>4. e.id = Head(task[t].page).id /\ ("distilled" \in tags <=> "distilled" \in e.tags)
  OBVIOUS
<1> HIDE DEF e, page, tags
<1>5. rows[e.id] # NoRow =>
         /\ new \in Row /\ Same(rows[e.id], new) /\ new.imp = Floor
         /\ new.scope = rows[e.id].scope
  <2>1. SUFFICES ASSUME rows[e.id] # NoRow
                 PROVE  /\ new \in Row /\ Same(rows[e.id], new) /\ new.imp = Floor
                        /\ new.scope = rows[e.id].scope
    OBVIOUS
  <2>2. /\ new \in Row /\ new.id = rows[e.id].id /\ new.facts = rows[e.id].facts
        /\ new.born = rows[e.id].born
        /\ new.tags = tags /\ new.imp = Floor /\ new.scope = rows[e.id].scope
    BY <1>3, <2>1, WritesAre
  <2>3. "distilled" \in rows[e.id].tags <=> "distilled" \in e.tags
    BY <1>3, <2>1 DEF CopyOf, Stored
  <2> HIDE DEF new
  <2> QED
    BY <1>4, <2>2, <2>3 DEF Same
<1> HIDE DEF new
<1>6. /\ StoreStep /\ \A j \in Ids : j # e.id => rows'[j] = rows[j]
      /\ rows[e.id] # NoRow => rows'[e.id] = new
      /\ rows[e.id] = NoRow => rows'[e.id] = NoRow
  BY <1>1, <1>3, <1>4, <1>5, UpdateKeeps
<1>7. /\ r \in TaskType /\ r.page = page /\ r.pc = "archive" /\ r.now = o.now
      /\ r.all = o.all /\ r.clusters = o.clusters /\ r.agent = o.agent
  BY <1>1, <1>2 DEF TaskType
<1> HIDE DEF r
<1>8. Copies(r) \subseteq Copies(o)
  BY <1>2, <1>7 DEF Copies
<1>9. Equipped(r)
  <2>1. Equipped(o)
    BY DEF EquippedInv
  <2> HIDE DEF o
  <2> QED
    BY <1>1, <1>7, <2>1 DEF Equipped
<1>10. TaskStep(t, r)
  BY <1>1, <1>2, <1>7, <1>8, <1>9 DEF TaskStep, Working
<1> QED
  BY <1>5, <1>6, <1>10

LEMMA MergeFailsIs ==
    ASSUME TypeOK, EquippedInv, NEW t \in Tasks, MergeFails(t)
    PROVE  /\ StoreStep /\ \E r : TaskStep(t, r)
           /\ \A i \in Ids : rows'[i] # rows[i] =>
                 rows'[i].imp = Floor /\ rows'[i].scope = rows[i].scope
<1> DEFINE o == task[t]
           i == Head(o.page).id
<1>1. /\ o \in TaskType /\ o.page \in Seq(Row) /\ o.pc \in {"merge", "archive"}
      /\ o.clusters # <<>> /\ UNCHANGED day /\ NextCluster(t)
  BY DEF MergeFails, TypeOK, TaskType, EquippedInv, Equipped
<1>2. \E r : TaskStep(t, r)
  BY <1>1, NextClusterIs
<1>3. \/ UNCHANGED storeVars
      \/ o.page # <<>> /\ Update(i, WithImp(i, Floor))
  BY DEF MergeFails
<1>4. ASSUME o.page # <<>>, Update(i, WithImp(i, Floor))
      PROVE  /\ StoreStep
             /\ \A j \in Ids : rows'[j] # rows[j] =>
                   rows'[j].imp = Floor /\ rows'[j].scope = rows[j].scope
  <2> DEFINE new == WithImp(i, Floor)
  <2>1. i \in Ids /\ Floor \in Levels
    <3>1. Floor \in Levels
      BY ConstantsAre DEF Floor, Levels
    <3> QED
      BY <1>1, <1>4, <3>1, HeadAndTail, RowIs
  <2> HIDE DEF i
  <2>2. rows[i] # NoRow => /\ new \in Row /\ Same(rows[i], new) /\ new.imp = Floor
                           /\ new.tags = rows[i].tags /\ new.scope = rows[i].scope
    BY <2>1, WritesAre
  <2>3. Update(i, new)
    BY <1>4
  <2> HIDE DEF new
  <2>4. /\ StoreStep /\ \A j \in Ids : j # i => rows'[j] = rows[j]
        /\ rows[i] # NoRow => rows'[i] = new
        /\ rows[i] = NoRow => rows'[i] = NoRow
    BY <2>1, <2>2, <2>3, UpdateKeeps
  <2> QED
    BY <2>2, <2>4
<1>5. ASSUME UNCHANGED storeVars
      PROVE  StoreStep /\ rows' = rows
  BY <1>5, StandsStill DEF storeVars
<1> QED
  BY <1>2, <1>3, <1>4, <1>5

LEMMA CycleIs ==
    ASSUME TypeOK, IdsInv, CopiesInv, EquippedInv, NEW t \in Tasks, Cycle(t)
    PROVE  StoreStep /\ (\E r : TaskStep(t, r)) /\ UNCHANGED runs
<1>1. UNCHANGED runs
  BY DEF Cycle, DecayList, DecayRow, DecayPage, TurnPage, WkdList, MergeInsert, ArchiveOriginal,
         ArchiveDone, MergeFails, MergeDone, Evolve, PromoteList, PromoteGet, PromoteWrite,
         PromoteFails, PromotePage, CycleFails
<1> DEFINE done == StoreStep /\ \E r : TaskStep(t, r)
<1>2. CASE DecayList(t) \/ PromoteList(t)
  <2>1. InCycle(t) /\ (ReadPage(t, "decay") \/ ReadPage(t, "promote")) /\ UNCHANGED <<storeVars, day>>
    BY <1>2 DEF DecayList, PromoteList, InCycle, CyclePhases
  <2>2. done
    BY <2>1, ReadPageIs
  <2> QED
    BY <1>1, <2>2
<1>3. CASE DecayRow(t)
  BY <1>1, <1>3, DecayRowIs
<1>4. CASE DecayPage(t) \/ PromotePage(t)
  <2> DEFINE next == IF WkdOn THEN "wkdList" ELSE "evolve"
  <2>1. InCycle(t) /\ (TurnPage(t, "decayList", next) \/ TurnPage(t, "promoteList", "off"))
    BY <1>4 DEF DecayPage, PromotePage, InCycle, CyclePhases
  <2>2. /\ next \in {"wkdList", "evolve"}
        /\ \A s \in {"decayList", "wkdList", "evolve", "promoteList"} :
              s \in CyclePhases /\ s \notin Working \cup {"archive"}
        /\ "off" \notin Working \cup {"archive"}
    BY DEF CyclePhases, Working
  <2> HIDE DEF next
  <2>3. CASE TurnPage(t, "decayList", next)
    <3>1. "decayList" \in CyclePhases /\ next \in CyclePhases \cup {"off"}
          /\ {"decayList", next} \cap (Working \cup {"archive"}) = {}
      BY <2>2
    <3>2. done
      BY <2>1, <2>3, <3>1, TurnPageIs
    <3> QED
      BY <1>1, <3>2
  <2>4. CASE TurnPage(t, "promoteList", "off")
    <3>1. "promoteList" \in CyclePhases /\ "off" \in CyclePhases \cup {"off"}
          /\ {"promoteList", "off"} \cap (Working \cup {"archive"}) = {}
      BY <2>2
    <3>2. done
      BY <2>1, <2>4, <3>1, TurnPageIs
    <3> QED
      BY <1>1, <3>2
  <2> QED
    BY <2>1, <2>3, <2>4
<1>5. CASE WkdList(t)
  BY <1>1, <1>5, WkdListIs
<1>6. CASE MergeInsert(t)
  BY <1>1, <1>6, MergeInsertIs
<1>7. CASE ArchiveOriginal(t)
  BY <1>1, <1>7, ArchiveOriginalIs DEF CopiesInv
<1>8. CASE ArchiveDone(t)
  <2>1. task[t].pc = "archive" /\ task[t].clusters # <<>> /\ NextCluster(t)
        /\ UNCHANGED <<storeVars, day>>
    BY <1>8 DEF ArchiveDone, EquippedInv, Equipped
  <2>2. StoreStep
    BY <2>1, StandsStill
  <2>3. \E r : TaskStep(t, r)
    BY <2>1, NextClusterIs
  <2> QED
    BY <1>1, <2>2, <2>3
<1>9. CASE MergeFails(t)
  BY <1>1, <1>9, MergeFailsIs
<1>10. CASE MergeDone(t) \/ Evolve(t)
  <2>1. /\ InCycle(t) /\ UNCHANGED <<storeVars, day>>
        /\ \E next \in {"evolve", "promoteList"} : task' = [task EXCEPT ![t].pc = next]
    BY <1>10 DEF MergeDone, Evolve, InCycle, CyclePhases
  <2>2. done
    BY <2>1, PhaseIs
  <2> QED
    BY <1>1, <2>2
<1>11. CASE PromoteGet(t)
  BY <1>1, <1>11, PromoteGetIs
<1>12. CASE PromoteWrite(t) \/ PromoteFails(t)
  BY <1>1, <1>12, PromoteWriteIs
<1>13. CASE CycleFails(t)
  BY <1>1, <1>13, CycleFailsIs
<1> QED
  BY <1>2, <1>3, <1>4, <1>5, <1>6, <1>7, <1>8, <1>9, <1>10, <1>11, <1>12, <1>13 DEF Cycle

LEMMA IngestIs ==
    ASSUME TypeOK, IdsInv, NEW a \in Agents, NEW s \in Scopes, NEW f \in Facts,
           NEW imp \in {Floor, MaxImp}, Ingest(a, s, f, imp)
    PROVE  StoreStep /\ ImpKept /\ UNCHANGED <<task, day, runs>>
<1>1. imp \in Levels
  BY ConstantsAre DEF Levels, Floor
<1>2. Insert(a, s, imp, {f}, {}, day) /\ UNCHANGED <<task, day, runs>>
  BY DEF Ingest
<1> DEFINE facts == {f}
           tags == {}
<1>3. facts \in SUBSET Facts /\ tags \in SUBSET Marks /\ "archived" \notin tags
      /\ Insert(a, s, imp, facts, tags, day)
  BY <1>2
<1> HIDE DEF facts, tags
<1> QED
  BY <1>1, <1>2, <1>3, InsertKeeps

(* The clients' and the clock's steps leave the calls alone.                   *)
Elsewhere == UNCHANGED task /\ day' >= day /\ ImpKept

LEMMA StepIs ==
    ASSUME TypeOK, IdsInv, CopiesInv, EquippedInv, [Next]_vars
    PROVE  /\ StoreStep /\ day' \in 0..MaxDay /\ runs' \in 0..MaxRuns
           /\ Elsewhere \/ \E t \in Tasks : \E r : TaskStep(t, r)
<1>1. day \in Nat /\ day \in 0..MaxDay /\ runs \in 0..MaxRuns /\ runs \in Nat
  BY ConstantsAre DEF TypeOK
<1>2. ASSUME NEW t \in Tasks, NEW r, TaskStep(t, r)
      PROVE  UNCHANGED day
  BY <1>2 DEF TaskStep
<1>3. CASE \E a \in Agents, s \in Scopes, f \in Facts, imp \in {Floor, MaxImp} : Ingest(a, s, f, imp)
  BY <1>1, <1>3, IngestIs DEF Elsewhere
<1>4. CASE \E t \in Tasks, a \in Agents : StartCycle(t, a)
  <2>1. PICK t \in Tasks, a \in Agents : StartCycle(t, a)
    BY <1>4
  <2>2. runs' \in 0..MaxRuns
    BY <1>1, <2>1, ConstantsAre DEF StartCycle
  <2>3. StoreStep /\ \E r : TaskStep(t, r)
    BY <2>1, StartCycleIs
  <2> QED
    BY <1>1, <1>2, <2>2, <2>3
<1>5. CASE \E t \in Tasks : Cycle(t)
  BY <1>1, <1>2, <1>5, CycleIs
<1>6. CASE \E t \in Tasks, i \in Ids : BeginPromote(t, i) \/ \E a \in Agents : BeginDemote(t, i, a)
  <2>1. UNCHANGED runs
    BY <1>6 DEF BeginPromote, BeginDemote
  <2> QED
    BY <1>1, <1>2, <1>6, <2>1, BeginIs
<1>7. CASE \E t \in Tasks : Explicit(t)
  <2>1. UNCHANGED runs
    BY <1>7 DEF Explicit, ExplicitWrite, DemoteWrite
  <2> QED
    BY <1>1, <1>2, <1>7, <2>1, ExplicitIs
<1>8. CASE \E a \in Agents, shared \in BOOLEAN : Purge(a, shared)
  <2>1. UNCHANGED <<task, day, runs>>
    BY <1>8 DEF Purge
  <2> QED
    BY <1>1, <1>8, <2>1, PurgeKeeps DEF Elsewhere
<1>9. CASE Tick
  <2>1. day' = day + 1 /\ day < MaxDay /\ UNCHANGED <<storeVars, task, runs>>
    BY <1>9 DEF Tick
  <2> QED
    BY <1>1, <2>1, ConstantsAre, StandsStill DEF Elsewhere
<1>10. CASE UNCHANGED vars
  BY <1>1, <1>10, StandsStill DEF vars, Elsewhere
<1> QED
  BY <1>3, <1>4, <1>5, <1>6, <1>7, <1>8, <1>9, <1>10 DEF Next

-----------------------------------------------------------------------------
(* The invariant is kept                                                    *)

LEMMA TaskStepOnly ==
    ASSUME TypeOK, NEW t \in Tasks, NEW r, TaskStep(t, r)
    PROVE  task'[t] = r /\ \A u \in Tasks : u # t => task'[u] = task[u]
BY DEF TypeOK, TaskStep

LEMMA InitIInv == Init => IInv
<1> SUFFICES ASSUME Init
             PROVE  IInv
  OBVIOUS
<1>1. /\ rows = [i \in Ids |-> NoRow] /\ last = 0 /\ day = 0 /\ runs = 0
      /\ \A t \in Tasks : task[t] = Off
      /\ task \in [Tasks -> {Off}]
  BY DEF Init, StoreInit
<1>2. Stored = {} /\ last \in Nat
  BY <1>1 DEF Stored
<1>3. /\ Off \in TaskType /\ Off.pc = "off" /\ Off.now = 0
      /\ Range(Off.page) = {} /\ Range(Off.all) = {} /\ Range(Off.clusters) = {}
  BY OffIs DEF Range
<1>4. "off" \notin CyclePhases \cup Working \cup {"archive", "explicit", "demote", "promoteWrite"}
  BY DEF CyclePhases, Working
<1>5. TypeOK
  BY <1>1, <1>3, <1>4, ConstantsAre DEF TypeOK, StoreTypeOK
<1>6. IdsInv
  BY <1>2 DEF IdsInv
<1>7. Copies(Off) = {}
  BY <1>3 DEF Copies
<1>8. CopiesInv
  BY <1>1, <1>7 DEF CopiesInv
<1>9. Equipped(Off)
  BY <1>1, <1>3, <1>4 DEF Equipped
<1>10. EquippedInv
  BY <1>1, <1>9 DEF EquippedInv
<1>11. KeptInv
  <2>1. NothingPurged
    BY <1>1, ConstantsAre DEF NothingPurged, Ids
  <2> QED
    BY <1>1, <1>2, <1>3, <2>1 DEF KeptInv, DistilledFirst, ArchivedAreDistilled
<1>12. AloneInv
  BY <1>1, <1>3, <1>4 DEF AloneInv, OneCycle, InCycle, UpToDate, Working
<1> QED
  BY <1>5, <1>6, <1>8, <1>10, <1>11, <1>12 DEF IInv

LEMMA TypesKept ==
    ASSUME TypeOK, IdsInv, CopiesInv, EquippedInv, [Next]_vars
    PROVE  TypeOK'
<1>1. StoreTypeOK' /\ day' \in 0..MaxDay /\ runs' \in 0..MaxRuns
  BY StepIs DEF StoreStep
<1>2. CASE Elsewhere
  BY <1>1, <1>2 DEF TypeOK, Elsewhere
<1>3. ASSUME NEW t \in Tasks, NEW r, TaskStep(t, r)
      PROVE  TypeOK'
  <2>1. /\ task' = [task EXCEPT ![t] = r] /\ r \in TaskType
        /\ r.pc \in CyclePhases => r.agent \in Agents
    BY <1>3 DEF TaskStep
  <2>2. task'[t] = r /\ \A u \in Tasks : u # t => task'[u] = task[u]
    BY <1>3, TaskStepOnly
  <2>3. task' \in [Tasks -> TaskType]
    BY <2>1 DEF TypeOK
  <2>4. \A u \in Tasks : task'[u].pc \in CyclePhases => task'[u].agent \in Agents
    BY <2>1, <2>2 DEF TypeOK
  <2> QED
    BY <1>1, <2>3, <2>4 DEF TypeOK
<1> QED
  BY <1>2, <1>3, StepIs

LEMMA IdsKept ==
    ASSUME TypeOK, IdsInv, StoreStep
    PROVE  IdsInv' /\ last' >= last /\ last \in Nat /\ last' \in Nat
<1>1. last \in Nat /\ last' \in Nat /\ last' >= last /\ Ids \subseteq Nat
  BY ConstantsAre DEF TypeOK, StoreTypeOK, StoreStep, Ids
<1>2. ASSUME NEW i \in Ids, rows'[i] # NoRow
      PROVE  rows'[i].id = i /\ i <= last'
  <2>1. Kept(i) /\ Appended(i)
    BY DEF StoreStep
  <2>2. CASE rows[i] # NoRow
    BY <1>1, <1>2, <2>1, <2>2 DEF Kept, Same, IdsInv, Stored
  <2>3. CASE rows[i] = NoRow
    BY <1>1, <1>2, <2>1, <2>3 DEF Appended
  <2> QED
    BY <2>2, <2>3
<1> QED
  BY <1>1, <1>2 DEF IdsInv, Stored

(* A copy stays a copy.                                                      *)
LEMMA CopyKept ==
    ASSUME TypeOK, IdsInv, StoreStep, NEW e \in Row, CopyOf(e)
    PROVE  CopyOf(e)'
<1>1. last \in Nat /\ last' >= last /\ last' \in Nat /\ e.id \in Ids /\ e.id \in Nat /\ e.id <= last
  BY IdsKept, RowIs DEF CopyOf
<1> DEFINE i == e.id
<1>2. Kept(i) /\ Appended(i)
  BY <1>1 DEF StoreStep
<1>3. ASSUME rows'[i] # NoRow
      PROVE  rows[i] # NoRow
  BY <1>1, <1>2, <1>3 DEF Appended
<1>4. ASSUME rows'[i] # NoRow
      PROVE  /\ rows'[i].facts = e.facts /\ rows'[i].born = e.born
             /\ "distilled" \in rows'[i].tags <=> "distilled" \in e.tags
  BY <1>1, <1>2, <1>3, <1>4 DEF Kept, Same, CopyOf, Stored
<1>5. e.id <= last'
  BY <1>1
<1> QED
  BY <1>4, <1>5 DEF CopyOf, Stored

LEMMA CopiesKept ==
    ASSUME TypeOK, IdsInv, CopiesInv, EquippedInv, [Next]_vars
    PROVE  CopiesInv'
<1>1. StoreStep
  BY StepIs
<1>2. \A t \in Tasks : \A e \in Copies(task[t]) : e \in Row /\ CopyOf(e)
  BY CopiesAreRows DEF CopiesInv
<1>3. \A e \in StoredRows : e \in Row /\ CopyOf(e)
  <2>1. \A i \in Stored : rows[i] \in Row /\ rows[i].id = i /\ i <= last
    BY DEF IdsInv, Stored, TypeOK, StoreTypeOK
  <2> QED
    BY <2>1 DEF StoredRows, CopyOf
<1>4. \A e \in Row : CopyOf(e) => CopyOf(e)'
  BY <1>1, CopyKept
<1>5. CASE Elsewhere
  BY <1>2, <1>4, <1>5 DEF CopiesInv, Elsewhere, Copies
<1>6. ASSUME NEW t \in Tasks, NEW r, TaskStep(t, r)
      PROVE  CopiesInv'
  <2>1. Copies(r) \subseteq Copies(task[t]) \cup StoredRows
    BY <1>6 DEF TaskStep
  <2>2. task'[t] = r /\ \A u \in Tasks : u # t => task'[u] = task[u]
    BY <1>6, TaskStepOnly
  <2>3. ASSUME NEW u \in Tasks, NEW e \in Copies(task'[u])
        PROVE  CopyOf(e)'
    <3>1. e \in Row /\ CopyOf(e)
      <4>1. CASE u = t
        BY <1>2, <1>3, <2>1, <2>2, <4>1
      <4>2. CASE u # t
        BY <1>2, <2>2, <4>2
      <4> QED
        BY <4>1, <4>2
    <3> QED
      BY <1>4, <3>1
  <2>4. \A u \in Tasks : Copies(task[u])' = Copies(task'[u])
    BY DEF Copies
  <2> QED
    BY <2>3, <2>4 DEF CopiesInv
<1> QED
  BY <1>5, <1>6, StepIs

LEMMA EquippedKept ==
    ASSUME TypeOK, IdsInv, CopiesInv, EquippedInv, [Next]_vars
    PROVE  EquippedInv'
<1>1. TypeOK'
  BY TypesKept
<1>2. \A u \in Tasks : task[u].now \in Nat /\ day \in Nat /\ day' \in Nat
  BY <1>1, ConstantsAre DEF TypeOK, TaskType
<1>3. CASE Elsewhere
  BY <1>2, <1>3 DEF EquippedInv, Equipped, Elsewhere
<1>4. ASSUME NEW t \in Tasks, NEW r, TaskStep(t, r)
      PROVE  EquippedInv'
  <2>1. Equipped(r) /\ UNCHANGED day
    BY <1>4 DEF TaskStep
  <2>2. task'[t] = r /\ \A u \in Tasks : u # t => task'[u] = task[u]
    BY <1>4, TaskStepOnly
  <2>3. \A u \in Tasks : Equipped(task'[u])
    BY <2>1, <2>2 DEF EquippedInv
  <2> QED
    BY <2>1, <2>3 DEF EquippedInv, Equipped
<1> QED
  BY <1>3, <1>4, StepIs

LEMMA KeptKept ==
    ASSUME IInv, [Next]_vars
    PROVE  KeptInv'
<1> SUFFICES ASSUME "purge" \notin Clients
             PROVE  NothingPurged' /\ DistilledFirst' /\ ArchivedAreDistilled'
  BY DEF KeptInv
<1>1. /\ TypeOK /\ IdsInv /\ CopiesInv /\ EquippedInv
      /\ NothingPurged /\ DistilledFirst /\ ArchivedAreDistilled
  BY DEF IInv, KeptInv
<1>2. /\ StoreStep /\ last \in Nat
      /\ Elsewhere \/ \E t \in Tasks : \E r : TaskStep(t, r)
  BY <1>1, StepIs, IdsKept
<1>3. \A i \in Ids : Kept(i) /\ Appended(i)
  BY <1>2 DEF StoreStep
<1>4. NothingPurged'
  <2>1. ASSUME NEW i \in Ids, i <= last'
        PROVE  rows'[i] # NoRow
    <3>1. CASE i <= last
      BY <1>1, <1>3, <3>1 DEF NothingPurged, Kept
    <3>2. CASE i > last
      <4>1. last' = last + 1 /\ rows'[last'] # NoRow /\ i \in Nat
        BY <1>2, <2>1, <3>2, ConstantsAre DEF StoreStep, Ids
      <4> QED
        BY <1>2, <2>1, <3>2, <4>1
    <3> QED
      BY <1>2, <3>1, <3>2, ConstantsAre DEF Ids
  <2> QED
    BY <2>1 DEF NothingPurged
<1>5. ASSUME NEW d \in Ids, rows[d] # NoRow, "distilled" \in rows[d].tags
      PROVE  rows'[d] # NoRow /\ "distilled" \in rows'[d].tags /\ rows'[d].facts = rows[d].facts
  BY <1>3, <1>5 DEF Kept, Same
<1>6. ASSUME NEW t \in Tasks, task[t].pc = "archive"
      PROVE  Distilled(task[t])
  <2>1. PICK d \in Stored : /\ "distilled" \in rows[d].tags
                            /\ \A e \in Range(task[t].page) : e.facts \subseteq rows[d].facts
    BY <1>1, <1>6 DEF DistilledFirst
  <2>2. d \in Ids /\ rows[d] # NoRow
    BY DEF Stored
  <2> QED
    BY <1>5, <2>1, <2>2 DEF Distilled
<1>7. DistilledFirst'
  <2>1. ASSUME NEW u \in Tasks, task'[u].pc = "archive"
        PROVE  Distilled(task'[u])
    <3>1. CASE task'[u] = task[u]
      BY <1>6, <2>1, <3>1
    <3>2. CASE task'[u] # task[u]
      <4>1. PICK r : TaskStep(u, r)
        <5>1. PICK t \in Tasks : \E r : TaskStep(t, r)
          BY <1>2, <3>2 DEF Elsewhere
        <5> QED
          BY <1>1, <3>2, <5>1, TaskStepOnly
      <4>2. task'[u] = r
        BY <1>1, <4>1, TaskStepOnly
      <4>3. Distilled(r) \/ (task[u].pc = "archive" /\ Range(r.page) \subseteq Range(task[u].page))
        BY <2>1, <4>1, <4>2 DEF TaskStep
      <4>4. CASE task[u].pc = "archive" /\ Range(r.page) \subseteq Range(task[u].page)
        BY <1>6, <4>2, <4>4 DEF Distilled
      <4> QED
        BY <4>2, <4>3, <4>4
    <3> QED
      BY <3>1, <3>2
  <2> QED
    BY <2>1 DEF DistilledFirst, Distilled, Stored
<1>8. ArchivedAreDistilled'
  <2>1. ASSUME NEW i \in Ids, rows'[i] # NoRow, "archived" \in rows'[i].tags
        PROVE  \E d \in Ids : /\ rows'[d] # NoRow /\ "distilled" \in rows'[d].tags
                              /\ rows'[i].facts \subseteq rows'[d].facts
    <3>1. CASE rows[i] = NoRow
      BY <1>3, <2>1, <3>1 DEF Appended
    <3>2. CASE rows[i] # NoRow
      <4>1. rows'[i].facts = rows[i].facts
        BY <1>3, <2>1, <3>2 DEF Kept, Same
      <4>2. CASE "archived" \in rows[i].tags
        <5>1. PICK d \in Stored : "distilled" \in rows[d].tags /\ rows[i].facts \subseteq rows[d].facts
          BY <1>1, <3>2, <4>2 DEF ArchivedAreDistilled, Stored
        <5>2. d \in Ids /\ rows[d] # NoRow
          BY DEF Stored
        <5> QED
          BY <1>5, <4>1, <5>1, <5>2
      <4>3. CASE "archived" \notin rows[i].tags
        <5>1. PICK t \in Tasks : /\ task[t].pc = "archive" /\ task[t].page # <<>>
                                 /\ Head(task[t].page).id = i
          BY <1>3, <2>1, <3>2, <4>3 DEF Kept
        <5> DEFINE e == Head(task[t].page)
        <5>2. e \in Range(task[t].page) /\ CopyOf(e)
          <6>1. task[t].page \in Seq(Row)
            BY <1>1 DEF TypeOK, TaskType
          <6>2. e \in Range(task[t].page)
            BY <5>1, <6>1, HeadAndTail
          <6> QED
            BY <1>1, <6>2, CopiesAreRows DEF CopiesInv
        <5>3. rows[i].facts = e.facts
          BY <3>2, <5>1, <5>2 DEF CopyOf, Stored
        <5> HIDE DEF e
        <5>4. Distilled(task[t])
          BY <1>6, <5>1
        <5> QED
          BY <4>1, <5>2, <5>3, <5>4 DEF Distilled
      <4> QED
        BY <4>2, <4>3
    <3> QED
      BY <3>1, <3>2
  <2> QED
    BY <2>1 DEF ArchivedAreDistilled, Stored
<1> QED
  BY <1>4, <1>7, <1>8

(* What was up to date stays so while importance does.                        *)
LEMMA StaysUpToDate ==
    ASSUME TypeOK, IdsInv, CopiesInv, StoreStep, NEW u \in Tasks, UpToDate(task[u]), ImpKept,
           UNCHANGED task[u]
    PROVE  UpToDate(task[u])'
<1>1. ASSUME NEW e \in Range(task[u].page), rows'[e.id] # NoRow, task[u].pc \in Working
      PROVE  rows'[e.id].imp = e.imp
  <2>1. e \in Row /\ CopyOf(e) /\ e.id \in Ids /\ e.id \in Nat
    BY CopiesAreRows, RowIs DEF CopiesInv
  <2>2. last \in Nat /\ e.id <= last
    BY <2>1, IdsKept DEF CopyOf
  <2>3. e.id \in Stored
    BY <1>1, <2>1, <2>2 DEF StoreStep, Appended, Stored
  <2> QED
    BY <1>1, <2>3 DEF ImpKept, UpToDate, Working
<1> QED
  BY <1>1 DEF UpToDate, Working, Stored

LEMMA WorksUpToDate ==
    ASSUME TypeOK, IdsInv, CopiesInv, NEW t \in Tasks, NEW r, TaskStep(t, r), UpToDate(task[t])
    PROVE  UpToDate(task[t])'
<1>0. task'[t] = r
  BY TaskStepOnly
<1> SUFFICES ASSUME r.pc \in Working
             PROVE  /\ \A e \in Range(r.page) : e.id \in Ids /\ rows'[e.id] # NoRow =>
                                                   rows'[e.id].imp = e.imp
                    /\ \A k, l \in DOMAIN r.page : r.page[k].id = r.page[l].id => k = l
  BY <1>0 DEF UpToDate, Working, Stored
<1>1. FreshPage(t, r) \/ SamePage(t, r) \/ RowDone(t, r)
  BY DEF TaskStep
<1>2. CASE FreshPage(t, r)
  <2>1. StoreTypeOK /\ PageSize \in Nat \ {0} /\ task[t].offset \in Nat
    BY ConstantsAre DEF TypeOK, TaskType
  <2> DEFINE offset == task[t].offset
             a == task[t].agent
             page == List(a, offset, PageSize)
  <2>2. r.page = page /\ \A i \in Stored : rows[i].id = i
    BY <1>2 DEF FreshPage, IdsInv
  <2>3. /\ \A e \in Range(page) : \E i \in Stored : e = rows[i]
        /\ \A k, l \in DOMAIN page : page[k].id = page[l].id => k = l
    <3> HIDE DEF offset, a
    <3>1. offset \in Nat
      BY <2>1 DEF offset
    <3>2. \A e \in Range(page) : \E i \in Stored : e = rows[i]
      BY <2>1, <3>1, ListIs
    <3>3. \A i \in Stored : rows[i].id = i
      BY <2>2
    <3> QED
      BY <2>1, <3>1, <3>2, <3>3, ListIs
  <2> QED
    BY <1>2, <2>2, <2>3 DEF FreshPage
<1>3. CASE SamePage(t, r)
  BY <1>3 DEF SamePage, UpToDate, Working, Stored
<1>4. CASE RowDone(t, r)
  <2> DEFINE s == task[t].page
  <2>1. /\ s \in Seq(Row) /\ s # <<>> /\ r.page = Tail(s)
        /\ \A i \in Ids : i # Head(s).id => rows'[i] = rows[i]
    BY <1>4 DEF RowDone, TypeOK, TaskType
  <2>2. /\ Head(s) = s[1] /\ 1 \in DOMAIN s
        /\ \A k \in DOMAIN Tail(s) : k \in Nat /\ k # 0 /\ k + 1 \in DOMAIN s /\ Tail(s)[k] = s[k + 1]
    BY <2>1, HeadAndTail
  <2>3. /\ \A e \in Range(s) : e.id \in Stored => rows[e.id].imp = e.imp
        /\ \A k, l \in DOMAIN s : s[k].id = s[l].id => k = l
    BY <1>4 DEF RowDone, UpToDate, Working
  <2> HIDE DEF s
  <2>4. \A k \in DOMAIN Tail(s) : Tail(s)[k].id # Head(s).id /\ Tail(s)[k] \in Range(s)
    BY <2>2, <2>3 DEF Range
  <2>5. \A k, l \in DOMAIN Tail(s) : Tail(s)[k].id = Tail(s)[l].id => k = l
    <3>1. \A k, l \in DOMAIN Tail(s) : Tail(s)[k].id = Tail(s)[l].id => k + 1 = l + 1
      BY <2>2, <2>3
    <3> QED
      BY <2>2, <3>1
  <2>6. ASSUME NEW e \in Range(Tail(s)), e.id \in Ids, rows'[e.id] # NoRow
        PROVE  rows'[e.id].imp = e.imp
    BY <2>1, <2>3, <2>4, <2>6 DEF Range, Stored
  <2> QED
    BY <2>1, <2>5, <2>6
<1> QED
  BY <1>1, <1>2, <1>3, <1>4

LEMMA AloneKept ==
    ASSUME IInv, [Next]_vars
    PROVE  AloneInv'
<1> SUFFICES ASSUME ~Overlap
             PROVE  OneCycle' /\ \A u \in Tasks : UpToDate(task[u])'
  BY DEF AloneInv
<1>1. /\ TypeOK /\ IdsInv /\ CopiesInv /\ EquippedInv
      /\ OneCycle /\ \A t \in Tasks : UpToDate(task[t])
  BY DEF IInv, AloneInv
<1>2. StoreStep /\ (Elsewhere \/ \E t \in Tasks : \E r : TaskStep(t, r))
  BY <1>1, StepIs
<1>3. CASE Elsewhere
  <2>1. OneCycle'
    BY <1>1, <1>3 DEF OneCycle, InCycle, Elsewhere
  <2>2. \A u \in Tasks : UpToDate(task[u])'
    BY <1>1, <1>2, <1>3, StaysUpToDate DEF Elsewhere
  <2> QED
    BY <2>1, <2>2
<1>4. ASSUME NEW t \in Tasks, NEW r, TaskStep(t, r)
      PROVE  OneCycle' /\ \A u \in Tasks : UpToDate(task[u])'
  <2>1. task'[t] = r /\ \A u \in Tasks : u # t => task'[u] = task[u]
    BY <1>1, <1>4, TaskStepOnly
  <2>2. /\ r.pc \in CyclePhases => InCycle(t) \/ \A u \in Tasks : ~InCycle(u)
        /\ InCycle(t) \/ ImpKept
    BY <1>4 DEF TaskStep
  <2>3. OneCycle'
    BY <1>1, <2>1, <2>2 DEF OneCycle, InCycle
  <2>4. ASSUME NEW u \in Tasks
        PROVE  UpToDate(task[u])'
    <3>1. CASE u = t
      BY <1>1, <1>4, <3>1, WorksUpToDate
    <3>2. CASE u # t /\ ImpKept
      BY <1>1, <1>2, <2>1, <3>2, StaysUpToDate
    <3>3. CASE u # t /\ InCycle(t)
      <4>1. task'[u].pc \notin Working
        BY <1>1, <2>1, <3>3 DEF OneCycle, InCycle, Working, CyclePhases
      <4> QED
        BY <4>1 DEF UpToDate, Working
    <3> QED
      BY <2>2, <3>1, <3>2, <3>3
  <2> QED
    BY <2>3, <2>4
<1> QED
  BY <1>2, <1>3, <1>4

LEMMA IInvStep == IInv /\ [Next]_vars => IInv'
<1> SUFFICES ASSUME IInv, [Next]_vars
             PROVE  IInv'
  OBVIOUS
<1>1. TypeOK /\ IdsInv /\ CopiesInv /\ EquippedInv
  BY DEF IInv
<1>2. StoreStep
  BY <1>1, StepIs
<1>3. TypeOK' /\ IdsInv' /\ CopiesInv' /\ EquippedInv'
  BY <1>1, <1>2, TypesKept, IdsKept, CopiesKept, EquippedKept
<1> QED
  BY <1>3, KeptKept, AloneKept DEF IInv

-----------------------------------------------------------------------------
(* Theorems                                                                 *)

(* Five actions change what a row that stays says of importance and scope.      *)
Settled == \A i \in Stored : rows'[i] # NoRow =>
               rows'[i].imp = rows[i].imp /\ rows'[i].scope = rows[i].scope

LEMMA Settles ==
    ASSUME TypeOK, IdsInv, CopiesInv, EquippedInv, [Next]_vars
    PROVE  \/ Settled
           \/ \E t \in Tasks : \/ DecayRow(t) \/ ArchiveOriginal(t) \/ MergeFails(t)
                               \/ PromoteWrite(t) \/ Explicit(t)
<1>1. ASSUME UNCHANGED rows
      PROVE  Settled
  BY <1>1 DEF Settled
<1>2. ASSUME NEW a, NEW scope, NEW imp, NEW facts, NEW tags, Insert(a, scope, imp, facts, tags, day)
      PROVE  Settled
  <2>1. \A i \in Stored : i # last + 1
    BY ConstantsAre DEF IdsInv, Stored, Ids, TypeOK, StoreTypeOK
  <2>2. \A i \in Stored : rows'[i] = rows[i]
    BY <1>2, <2>1 DEF Insert, Stored, TypeOK, StoreTypeOK
  <2> QED
    BY <2>2 DEF Settled
<1>3. CASE \E a \in Agents, s \in Scopes, f \in Facts, imp \in {Floor, MaxImp} : Ingest(a, s, f, imp)
  BY <1>2, <1>3 DEF Ingest
<1>4. CASE \E t \in Tasks, a \in Agents : StartCycle(t, a)
  BY <1>1, <1>4 DEF StartCycle, storeVars
<1>5. CASE \E t \in Tasks : Cycle(t)
  <2>1. PICK t \in Tasks : Cycle(t)
    BY <1>5
  <2>2. ASSUME MergeInsert(t)
        PROVE  Settled
    BY <1>2, <2>2 DEF MergeInsert
  <2>3. ASSUME \/ DecayList(t) \/ DecayPage(t) \/ WkdList(t) \/ ArchiveDone(t) \/ MergeDone(t)
               \/ Evolve(t) \/ PromoteList(t) \/ PromoteGet(t) \/ PromoteFails(t)
               \/ PromotePage(t) \/ CycleFails(t)
        PROVE  Settled
    <3>1. UNCHANGED storeVars
      BY <2>3 DEF DecayList, DecayPage, TurnPage, WkdList, ArchiveDone, MergeDone, Evolve,
                  PromoteList, PromoteGet, PromoteFails, PromotePage, CycleFails
    <3> QED
      BY <1>1, <3>1 DEF storeVars
  <2> QED
    BY <2>1, <2>2, <2>3 DEF Cycle
<1>6. CASE \E t \in Tasks, i \in Ids : BeginPromote(t, i) \/ \E a \in Agents : BeginDemote(t, i, a)
  BY <1>1, <1>6 DEF BeginPromote, BeginDemote, storeVars
<1>7. CASE \E t \in Tasks : Explicit(t)
  BY <1>7
<1>8. CASE \E a \in Agents, shared \in BOOLEAN : Purge(a, shared)
  BY <1>8 DEF Purge, DeleteAll, Settled, Stored
<1>9. CASE Tick
  BY <1>1, <1>9 DEF Tick, storeVars
<1>10. CASE UNCHANGED vars
  BY <1>1, <1>10 DEF vars, storeVars
<1> QED
  BY <1>3, <1>4, <1>5, <1>6, <1>7, <1>8, <1>9, <1>10 DEF Next

(* A row with a call at work on it has the importance that was read.            *)
LEMMA HeadUpToDate ==
    ASSUME IInv, ~Overlap, NEW t \in Tasks, task[t].pc \in Working, task[t].page # <<>>,
           Head(task[t].page).id \in Stored
    PROVE  LET e == Head(task[t].page) IN
           /\ e \in Row /\ rows[e.id].imp = e.imp /\ rows[e.id].born = e.born
<1> DEFINE e == Head(task[t].page)
<1>1. TypeOK /\ CopiesInv /\ UpToDate(task[t])
  BY DEF IInv, AloneInv
<1>2. task[t].page \in Seq(Row)
  BY <1>1 DEF TypeOK, TaskType
<1>3. e \in Row /\ e \in Range(task[t].page)
  BY <1>2, HeadAndTail
<1>4. CopyOf(e)
  BY <1>1, <1>3, CopiesAreRows DEF CopiesInv
<1> HIDE DEF e
<1>5. e.id \in Stored
  BY DEF e
<1>6. rows[e.id].imp = e.imp /\ rows[e.id].born = e.born
  BY <1>1, <1>3, <1>4, <1>5 DEF UpToDate, Working, CopyOf
<1> QED
  BY <1>3, <1>6 DEF e

LEMMA ImportanceStep ==
    ASSUME IInv, ~Overlap, [Next]_vars, NEW i \in Ids, i \in Stored, rows'[i] # NoRow
    PROVE  rows'[i].imp <= IF rows[i].imp < Floor THEN Floor ELSE rows[i].imp
<1>1. TypeOK /\ IdsInv /\ CopiesInv /\ EquippedInv
  BY DEF IInv
<1>2. rows[i].imp \in Nat /\ rows[i].imp \in Levels
  <2>1. rows[i] \in Row
    BY <1>1 DEF TypeOK, StoreTypeOK, Stored
  <2> QED
    BY <2>1, RowIs
<1>3. CASE rows'[i].imp = rows[i].imp \/ rows'[i].imp = Floor
  BY <1>2, <1>3 DEF Floor
<1>4. CASE Settled
  BY <1>3, <1>4 DEF Settled
<1>5. ASSUME NEW t \in Tasks, DecayRow(t)
      PROVE  rows'[i].imp <= IF rows[i].imp < Floor THEN Floor ELSE rows[i].imp
  <2> DEFINE e == Head(task[t].page)
  <2>1. CASE rows'[i] = rows[i]
    BY <1>3, <2>1
  <2>2. CASE rows'[i] # rows[i]
    <3>1. i = e.id /\ rows'[i].imp = AfterDecay(e, task[t].now)
      BY <1>1, <1>5, <2>2, DecayRowIs
    <3>2. task[t].pc \in Working /\ task[t].page # <<>> /\ task[t].now \in Nat
      BY <1>1, <1>5, ConstantsAre DEF DecayRow, Working, TypeOK, TaskType
    <3>3. e \in Row /\ rows[e.id].imp = e.imp
      BY <3>1, <3>2, HeadUpToDate
    <3> QED
      BY <3>1, <3>2, <3>3, AfterDecayIs
  <2> QED
    BY <2>1, <2>2
<1>6. ASSUME NEW t \in Tasks, ArchiveOriginal(t) \/ MergeFails(t)
      PROVE  rows'[i].imp = rows[i].imp \/ rows'[i].imp = Floor
  BY <1>1, <1>6, ArchiveOriginalIs, MergeFailsIs DEF CopiesInv
<1>7. ASSUME NEW t \in Tasks, PromoteWrite(t) \/ Explicit(t)
      PROVE  rows'[i].imp = rows[i].imp
  BY <1>1, <1>7, PromoteWriteIs, ExplicitIs DEF ImpKept
<1> QED
  BY <1>1, <1>3, <1>4, <1>5, <1>6, <1>7, Settles

LEMMA PromotionStep ==
    ASSUME IInv, ~Overlap, [Next]_vars, NEW i \in Ids, i \in Stored, rows[i].scope = "private",
           rows'[i] # NoRow, rows'[i].scope = "shared"
    PROVE  Meets(rows[i], day) \/ \E t \in Tasks : task[t].pc = "explicit" /\ task[t].id = i
<1>1. TypeOK /\ IdsInv /\ CopiesInv /\ EquippedInv
  BY DEF IInv
<1>2. ~Settled /\ rows'[i].scope # rows[i].scope /\ rows'[i] # rows[i]
  BY DEF Settled
<1>3. ASSUME NEW t \in Tasks, DecayRow(t) \/ ArchiveOriginal(t) \/ MergeFails(t)
      PROVE  FALSE
  BY <1>1, <1>2, <1>3, DecayRowIs, ArchiveOriginalIs, MergeFailsIs DEF CopiesInv
<1>4. ASSUME NEW t \in Tasks, Explicit(t)
      PROVE  task[t].pc = "explicit" /\ task[t].id = i
  <2>1. rows'[i].scope # "private"
    OBVIOUS
  <2> QED
    BY <1>1, <1>2, <1>4, <2>1, ExplicitIs
<1>5. ASSUME NEW t \in Tasks, PromoteWrite(t)
      PROVE  Meets(rows[i], day)
  <2> DEFINE e == Head(task[t].page)
  <2>1. /\ task[t].pc = "promoteWrite" /\ task[t].pc \in Working /\ task[t].page # <<>>
        /\ i = e.id
    BY <1>1, <1>2, <1>5, PromoteWriteIs DEF Working
  <2>2. e \in Row /\ rows[i].imp = e.imp /\ rows[i].born = e.born
    BY <2>1, HeadUpToDate
  <2>3. Meets(e, task[t].now) /\ task[t].now <= day
    BY <1>1, <2>1 DEF EquippedInv, Equipped
  <2>4. task[t].now \in Nat /\ day \in Nat /\ e.born \in Nat
    BY <1>1, <2>2, RowIs, ConstantsAre DEF TypeOK, TaskType
  <2> HIDE DEF e
  <2> QED
    BY <2>2, <2>3, <2>4 DEF Meets
<1> QED
  BY <1>1, <1>2, <1>3, <1>4, <1>5, Settles

(* The inductive invariant holds in every reachable state.                     *)
THEOREM Invariance == Spec => []IInv
<1>1. Init => IInv
  BY InitIInv
<1>2. IInv /\ [Next]_vars => IInv'
  BY IInvStep
<1> QED
  BY <1>1, <1>2, PTL DEF Spec

(* Every variable keeps its type: no cycle writes a malformed row, makes up     *)
(* an id or an importance, or forgets for which agent it works.                *)
THEOREM TypeCorrect == Spec => []TypeOK
<1>1. IInv => TypeOK
  BY DEF IInv
<1> QED
  BY <1>1, Invariance, PTL

(* Where no client deletes memories, archiving loses nothing, however many       *)
(* cycles run at once and whichever calls fail: what an archived original says  *)
(* is said by a distilled memory (compress in wkd.rs inserts, then archives).   *)
THEOREM ArchivingLosesNothing ==
    ASSUME "purge" \notin Clients
    PROVE  Spec => []ArchivingIsSafe
<1>1. IInv => ArchivingIsSafe
  BY DEF IInv, KeptInv, ArchivingIsSafe
<1> QED
  BY <1>1, Invariance, PTL

(* Where no two cycles overlap, importance only falls, whatever ingestion,       *)
(* promotion, demotion and deletion do between a cycle's reads and its writes.  *)
THEOREM ImportanceFalls ==
    ASSUME ~Overlap
    PROVE  Spec => ImportanceNeverRises
<1> DEFINE Falls == \A i \in Ids : i \in Stored /\ rows'[i] # NoRow =>
                        rows'[i].imp <= IF rows[i].imp < Floor THEN Floor ELSE rows[i].imp
<1>1. IInv /\ [Next]_vars => [Falls]_vars
  BY ImportanceStep
<1>2. Spec => [][Falls]_vars
  BY <1>1, Invariance, PTL DEF Spec
<1> QED
  BY <1>2 DEF ImportanceNeverRises

(* Where no two cycles overlap, what a cycle shares has earned it when it is     *)
(* shared, not only when it was read.                                        *)
THEOREM PromotionsAreEarned ==
    ASSUME ~Overlap
    PROVE  Spec => PromotionIsEarned
<1> DEFINE Earned == \A i \in Ids :
              i \in Stored /\ rows[i].scope = "private" /\ rows'[i] # NoRow
              /\ rows'[i].scope = "shared"
              => \/ Meets(rows[i], day)
                 \/ \E t \in Tasks : task[t].pc = "explicit" /\ task[t].id = i
<1>1. IInv /\ [Next]_vars => [Earned]_vars
  BY PromotionStep
<1>2. Spec => [][Earned]_vars
  BY <1>1, Invariance, PTL DEF Spec
<1> QED
  BY <1>2 DEF PromotionIsEarned

=============================================================================
