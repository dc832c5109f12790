--------------------------- MODULE AgentChatProofs ---------------------------
(***************************************************************************)
(* Proofs about AgentChat, for any agents, requests, profiles and their      *)
(* blocks, any service and faults, and any limits and bounds.                *)
(***************************************************************************)
EXTENDS AgentChat, FiniteSetTheorems, SequenceTheorems, TLAPS

-----------------------------------------------------------------------------
(* Induction over an interval, as a fact about sets                          *)

LEMMA Least ==
    ASSUME NEW N \in Nat, NEW T \in SUBSET (0..N), T # {}
    PROVE  \E n \in T : \A m \in T : n <= m
<1> DEFINE below == {0..n : n \in T}
<1>1. below # {} /\ below \subseteq FiniteSubsetsOf(0..N)
  <2>1. ASSUME NEW n \in T
        PROVE  0..n \in FiniteSubsetsOf(0..N)
    BY FS_Interval DEF FiniteSubsetsOf
  <2> QED
    BY <2>1
<1>2. IsWellFoundedOn(StrictSubsetOrdering(0..N), FiniteSubsetsOf(0..N))
  BY FS_StrictSubsetOrderingWellFounded
<1>3. \E x \in below : \A y \in below : <<y, x>> \notin StrictSubsetOrdering(0..N)
  <2> HIDE DEF below
  <2> QED
    BY <1>1, <1>2, WFMin
<1>4. PICK n \in T : \A y \in below : <<y, 0..n>> \notin StrictSubsetOrdering(0..N)
  BY <1>3
<1>5. ASSUME NEW m \in T, m < n
      PROVE  FALSE
  <2>1. 0..m \in below /\ m \in Nat /\ n \in Nat /\ n <= N
    OBVIOUS
  <2>2. 0..m \subseteq 0..n /\ n \in 0..n /\ n \notin 0..m /\ 0..n \subseteq 0..N
    BY <1>5, <2>1
  <2>3. <<0..m, 0..n>> \in StrictSubsetOrdering(0..N)
    BY <2>2 DEF StrictSubsetOrdering
  <2> QED
    BY <1>4, <2>1, <2>3
<1> QED
  BY <1>5

LEMMA Induction ==
    ASSUME NEW N \in Nat, NEW S, 0 \in S, \A n \in 0..(N - 1) : n \in S => n + 1 \in S
    PROVE  \A n \in 0..N : n \in S
<1> DEFINE T == {n \in 0..N : n \notin S}
<1>1. CASE T = {}
  BY <1>1
<1>2. CASE T # {}
  <2>1. PICK n \in T : \A m \in T : n <= m
    BY <1>2, Least
  <2>2. n \in Nat /\ n # 0 /\ n - 1 \in 0..(N - 1) /\ n - 1 \in 0..N
    BY <2>1
  <2>3. n - 1 \notin T
    BY <2>1, <2>2
  <2> QED
    BY <2>1, <2>2, <2>3
<1> QED
  BY <1>1, <1>2

-----------------------------------------------------------------------------
(* Sets in an order                                                         *)

StrictOrder(K, R) ==
    /\ \A i \in K : <<i, i>> \notin R
    /\ \A i, j \in K : i # j => <<i, j>> \in R \/ <<j, i>> \in R
    /\ \A i, j, k \in K : <<i, j>> \in R /\ <<j, k>> \in R => <<i, k>> \in R

(* Of a finite set under a total order, each rank has one element.            *)
LEMMA Ranks ==
    ASSUME NEW c, IsFiniteSet(c), NEW R, \A i \in c : <<i, i>> \notin R,
           \A i, j \in c : i # j => <<i, j>> \in R \/ <<j, i>> \in R,
           \A i, j, k \in c : <<i, j>> \in R /\ <<j, k>> \in R => <<i, k>> \in R,
           NEW k \in 1..Cardinality(c)
    PROVE  \E i \in c : Cardinality(Before(c, R, i)) = k - 1
<1> DEFINE under(i) == Before(c, R, i)
           f == [i \in c |-> Cardinality(under(i))]
           n == Cardinality(c)
<1>1. n \in Nat /\ n > 0
  BY FS_CardinalityType
<1>2. ASSUME NEW i \in c
      PROVE  IsFiniteSet(under(i)) /\ f[i] \in 0..(n - 1)
  <2>0. under(i) \in SUBSET c
    BY DEF Before
  <2>1. IsFiniteSet(under(i)) /\ Cardinality(under(i)) <= n /\ (n = Cardinality(under(i)) => c = under(i))
    BY <2>0, FS_Subset
  <2>2. Cardinality(under(i)) \in Nat
    BY <2>1, FS_CardinalityType
  <2>3. i \notin under(i)
    BY DEF Before
  <2> QED
    BY <1>1, <2>1, <2>2, <2>3
<1>3. ASSUME NEW i \in c, NEW j \in c, <<i, j>> \in R
      PROVE  f[i] # f[j]
  <2>1. under(i) \subseteq under(j) /\ i \in under(j) /\ i \notin under(i)
    BY <1>3 DEF Before
  <2>2. Cardinality(under(i)) = Cardinality(under(j)) => under(i) = under(j)
    BY <1>2, <2>1, FS_Subset
  <2> QED
    BY <2>1, <2>2
<1>4. f \in Injection(c, 0..(n - 1))
  BY <1>2, <1>3 DEF Injection, IsInjective
<1>5. IsFiniteSet(0..(n - 1)) /\ Cardinality(0..(n - 1)) = n
  <2> HIDE DEF n
  <2>1. n - 1 \in Int /\ n - 1 >= 0
    BY <1>1
  <2>2. IsFiniteSet(0..(n - 1)) /\ Cardinality(0..(n - 1)) = IF 0 > n - 1 THEN 0 ELSE n - 1 - 0 + 1
    BY <2>1, FS_Interval
  <2> QED
    BY <1>1, <2>2
<1>6. f \in Surjection(c, 0..(n - 1))
  BY <1>4, <1>5, FS_Injection
<1>7. k - 1 \in 0..(n - 1)
  BY <1>1
<1>8. PICK i \in c : f[i] = k - 1
  BY <1>6, <1>7 DEF Surjection
<1> QED
  BY <1>8

(* f lists K in the order R, each element once.                              *)
Lists(f, K, R) ==
    /\ Cardinality(K) \in Nat
    /\ f \in [1..Cardinality(K) -> K]
    /\ \A m, n \in 1..Cardinality(K) : m < n => <<f[m], f[n]>> \in R /\ f[m] # f[n]
    /\ \A k \in K : \E n \in 1..Cardinality(K) : f[n] = k
    /\ \A n \in 1..Cardinality(K) : Cardinality(Before(K, R, f[n])) = n - 1

LEMMA RankedLists ==
    ASSUME NEW K, IsFiniteSet(K), NEW R, StrictOrder(K, R)
    PROVE  Lists(Ranked(K, R), K, R)
<1> DEFINE N == Cardinality(K)
           f == Ranked(K, R)
           rank(k) == Cardinality(Before(K, R, k))
<1>1. N \in Nat
  BY FS_CardinalityType
<1>2. ASSUME NEW n \in 1..N
      PROVE  f[n] \in K /\ rank(f[n]) = n - 1
  <2>1. \E k \in K : rank(k) = n - 1
    BY Ranks DEF StrictOrder
  <2>2. f[n] = CHOOSE k \in K : rank(k) = n - 1
    BY DEF Ranked
  <2> HIDE DEF f, rank
  <2> QED
    BY <2>1, <2>2
<1>3. f \in [1..N -> K]
  <2>1. DOMAIN f = 1..N /\ f = [n \in DOMAIN f |-> f[n]]
    BY DEF Ranked
  <2> HIDE DEF f, N
  <2> QED
    BY <1>2, <2>1
<1>4. ASSUME NEW k \in K
      PROVE  rank(k) \in 0..(N - 1)
  <2>1. Before(K, R, k) \in SUBSET K /\ k \notin Before(K, R, k)
    BY DEF Before, StrictOrder
  <2>2. /\ IsFiniteSet(Before(K, R, k)) /\ rank(k) <= N
        /\ N = rank(k) => K = Before(K, R, k)
    BY <2>1, FS_Subset
  <2>3. rank(k) \in Nat
    BY <2>2, FS_CardinalityType
  <2> HIDE DEF rank, N
  <2> QED
    BY <1>1, <2>1, <2>2, <2>3
<1>5. ASSUME NEW j \in K, NEW k \in K, <<j, k>> \in R
      PROVE  rank(j) < rank(k)
  <2>1. Before(K, R, k) \in SUBSET K /\ Before(K, R, j) \subseteq Before(K, R, k)
    BY <1>5 DEF Before, StrictOrder
  <2>2. j \in Before(K, R, k) /\ j \notin Before(K, R, j)
    BY <1>5 DEF Before, StrictOrder
  <2>3. IsFiniteSet(Before(K, R, k))
    BY <2>1, FS_Subset
  <2>4. /\ rank(j) <= rank(k)
        /\ rank(k) = rank(j) => Before(K, R, k) = Before(K, R, j)
    BY <2>1, <2>3, FS_Subset
  <2>5. rank(j) \in Nat /\ rank(k) \in Nat
    BY <1>4
  <2> HIDE DEF rank
  <2> QED
    BY <2>2, <2>4, <2>5
<1>6. ASSUME NEW m \in 1..N, NEW n \in 1..N, m < n
      PROVE  <<f[m], f[n]>> \in R /\ f[m] # f[n]
  <2>1. rank(f[m]) = m - 1 /\ rank(f[n]) = n - 1 /\ f[m] \in K /\ f[n] \in K
    BY <1>2
  <2>2. m \in Int /\ n \in Int
    BY <1>1
  <2>3. f[m] # f[n]
    <3> HIDE DEF f, rank
    <3> QED
      BY <1>6, <2>1, <2>2
  <2>4. ~(<<f[n], f[m]>> \in R)
    <3>1. <<f[n], f[m]>> \in R => rank(f[n]) < rank(f[m])
      BY <1>5, <2>1
    <3> HIDE DEF f, rank
    <3> QED
      BY <1>6, <2>1, <2>2, <3>1
  <2> QED
    BY <2>1, <2>3, <2>4 DEF StrictOrder
<1>7. ASSUME NEW k \in K
      PROVE  \E n \in 1..N : f[n] = k
  <2>1. PICK n \in 1..N : n = rank(k) + 1
    <3>1. rank(k) \in 0..(N - 1)
      BY <1>4
    <3> HIDE DEF rank, N
    <3> QED
      BY <1>1, <3>1
  <2>2. rank(f[n]) = rank(k) /\ f[n] \in K /\ rank(k) \in Nat
    <3>1. rank(f[n]) = n - 1 /\ f[n] \in K /\ rank(k) \in Nat
      BY <1>2, <1>4
    <3> HIDE DEF f, rank, N
    <3> QED
      BY <2>1, <3>1
  <2>3. ~(<<f[n], k>> \in R) /\ ~(<<k, f[n]>> \in R)
    <3>1. /\ <<f[n], k>> \in R => rank(f[n]) < rank(k)
          /\ <<k, f[n]>> \in R => rank(k) < rank(f[n])
      BY <1>5, <2>2
    <3> HIDE DEF f, rank
    <3> QED
      BY <2>2, <3>1
  <2>4. f[n] = k
    BY <2>2, <2>3 DEF StrictOrder
  <2> QED
    BY <2>4
<1> HIDE DEF f, N, rank
<1>8. /\ N = Cardinality(K) /\ f = Ranked(K, R)
      /\ \A k : rank(k) = Cardinality(Before(K, R, k))
  BY DEF f, N, rank
<1> QED
  BY <1>1, <1>2, <1>3, <1>6, <1>7, <1>8 DEF Lists

LEMMA Orders ==
    ASSUME NEW K \in SUBSET Nat
    PROVE  StrictOrder(K, Ascending(K)) /\ StrictOrder(K, Descending(K))
BY DEF StrictOrder, Ascending, Descending

LEMMA PlacesFinite ==
    ASSUME NEW S, NEW s \in Seq(S), NEW K \in SUBSET DOMAIN s
    PROVE  /\ IsFiniteSet(K) /\ Cardinality(K) \in Nat /\ K \in SUBSET Nat
           /\ Cardinality(K) <= Len(s)
           /\ Cardinality(K) = Len(s) => K = DOMAIN s
<1>1. DOMAIN s = 1..Len(s) /\ Len(s) \in Nat
  OBVIOUS
<1>2. IsFiniteSet(DOMAIN s) /\ Cardinality(DOMAIN s) = Len(s)
  <2>1. /\ IsFiniteSet(1..Len(s))
        /\ Cardinality(1..Len(s)) = IF 1 > Len(s) THEN 0 ELSE Len(s) - 1 + 1
    BY <1>1, FS_Interval
  <2> QED
    BY <1>1, <2>1
<1>3. IsFiniteSet(K) /\ Cardinality(K) <= Len(s) /\ (Cardinality(DOMAIN s) = Cardinality(K) => DOMAIN s = K)
  BY <1>2, FS_Subset
<1>4. Cardinality(K) \in Nat
  BY <1>3, FS_CardinalityType
<1> QED
  BY <1>1, <1>2, <1>3, <1>4

(* Leaving places out leaves the others in order.                             *)
LEMMA OnlyIs ==
    ASSUME NEW S, NEW s \in Seq(S), NEW K \in SUBSET DOMAIN s
    PROVE  /\ Lists(Ranked(K, Ascending(K)), K, Ascending(K))
           /\ Only(s, K) \in Seq(S) /\ DOMAIN Only(s, K) = 1..Cardinality(K)
           /\ Len(Only(s, K)) = Cardinality(K) /\ Cardinality(K) \in Nat
           /\ \A n \in 1..Cardinality(K) : Only(s, K)[n] = s[Ranked(K, Ascending(K))[n]]
           /\ \A n \in DOMAIN Only(s, K) : \E k \in K : Only(s, K)[n] = s[k]
           /\ \A k \in K : \E n \in DOMAIN Only(s, K) : Only(s, K)[n] = s[k]
<1>1. Lists(Ranked(K, Ascending(K)), K, Ascending(K))
  <2>1. IsFiniteSet(K) /\ K \in SUBSET Nat
    BY PlacesFinite
  <2> QED
    BY <2>1, Orders, RankedLists
<1>2. PICK f : f = Ranked(K, Ascending(K))
  OBVIOUS
<1>3. PICK N : N = Cardinality(K)
  OBVIOUS
<1>4. /\ N \in Nat /\ f \in [1..N -> K]
      /\ \A k \in K : \E n \in 1..N : f[n] = k
  BY <1>1, <1>2, <1>3 DEF Lists
<1>5. Only(s, K) = [n \in 1..N |-> s[f[n]]]
  BY <1>2, <1>4 DEF Only
<1>6. [n \in 1..N |-> s[f[n]]] \in [1..N -> S]
  BY <1>4
<1>7. \A g \in [1..N -> S] : g \in Seq(S) /\ Len(g) = N
  BY <1>4
<1>8. PICK g : g = Only(s, K) /\ g = [n \in 1..N |-> s[f[n]]]
  BY <1>5
<1>9. g \in Seq(S) /\ Len(g) = N
  BY <1>6, <1>7, <1>8
<1>10. DOMAIN g = 1..N /\ \A n \in 1..N : g[n] = s[f[n]]
  BY <1>8
<1>11. \A n \in 1..N : \E k \in K : g[n] = s[k]
  BY <1>4, <1>10
<1>12. \A k \in K : \E n \in 1..N : g[n] = s[k]
  BY <1>4, <1>10
<1>13. \A n \in 1..Cardinality(K) : Only(s, K)[n] = s[Ranked(K, Ascending(K))[n]]
  BY <1>2, <1>3, <1>8, <1>10
<1>14. /\ Only(s, K) \in Seq(S) /\ DOMAIN Only(s, K) = 1..Cardinality(K)
       /\ Len(Only(s, K)) = Cardinality(K) /\ Cardinality(K) \in Nat
  BY <1>3, <1>4, <1>8, <1>9, <1>10
<1>15. /\ \A n \in DOMAIN Only(s, K) : \E k \in K : Only(s, K)[n] = s[k]
       /\ \A k \in K : \E n \in DOMAIN Only(s, K) : Only(s, K)[n] = s[k]
  BY <1>8, <1>10, <1>11, <1>12
<1> QED
  BY <1>1, <1>13, <1>14, <1>15

-----------------------------------------------------------------------------
(* The pool: what can happen to it                                           *)

PoolMove ==
    \/ \E c \in Callers :
          \/ \E task \in ModelTasks, batch \in BOOLEAN, n \in Nat : StartCall(c, task, batch, n)
          \/ Answer(c) \/ AnswerShort(c) \/ Busy(c) \/ Refuse(c) \/ Garble(c)
          \/ \E ok \in BOOLEAN : Return(c, ok)
          \/ call[c].pc # "fail" /\ Dropped(c)
    \/ ClearTraces \/ PoolRestart \/ UNCHANGED poolVars

LEMMA NextMovesPool == [Next]_vars => PoolMove
<1> SUFFICES ASSUME [Next]_vars PROVE PoolMove
  OBVIOUS
<1>1. ASSUME NEW t \in Tasks, NEW a \in Agents, StartTurn(t, a) PROVE PoolMove
  BY <1>1 DEF StartTurn, PoolMove
<1>2. ASSUME NEW t \in Tasks, ReadDiary(t) \/ CutPanics(t) \/ TakeTicket(t) \/ AddNote(t) \/ EditDiary(t)
      PROVE  PoolMove
  BY <1>2 DEF ReadDiary, CutPanics, TakeTicket, AddNote, EditDiary, PoolMove
<1>3. ASSUME NEW t \in Tasks, BuildPrompt(t) PROVE PoolMove
  <2>1. StartCall(t, "chat", FALSE, 1) /\ "chat" \in ModelTasks /\ 1 \in Nat
    BY <1>3 DEF BuildPrompt, ModelTasks
  <2> QED
    BY <2>1 DEF PoolMove, Tasks
<1>4. ASSUME NEW t \in Tasks, ModelReturns(t) \/ Observe(t) \/ Encoded(t) PROVE PoolMove
  <2>1. Return(t, TRUE) \/ Return(t, FALSE)
    BY <1>4 DEF ModelReturns, Observe, Encoded
  <2>2. TRUE \in BOOLEAN /\ FALSE \in BOOLEAN
    OBVIOUS
  <2> QED
    BY <2>1, <2>2 DEF PoolMove, Tasks
<1>5. ASSUME NEW t \in Tasks, PushEvent(t) PROVE PoolMove
  <2>1. StartCall(t, "generation", FALSE, 1) \/ UNCHANGED poolVars
    BY <1>5 DEF PushEvent
  <2>2. "generation" \in ModelTasks /\ 1 \in Nat
    BY DEF ModelTasks
  <2> QED
    BY <2>1, <2>2 DEF PoolMove, Tasks
<1>6. ASSUME NEW t \in Tasks, StartEncode(t) PROVE PoolMove
  <2>1. \/ StartCall(t, "embedding", FALSE, 1)
        \/ \E n \in 0..MaxTexts : StartCall(t, "embedding", TRUE, n)
    BY <1>6 DEF StartEncode
  <2>2. "embedding" \in ModelTasks /\ 1 \in Nat /\ 0..MaxTexts \subseteq Nat
    BY AgentChatAssumption DEF ModelTasks
  <2> QED
    BY <2>1, <2>2 DEF PoolMove, Tasks
<1>7. ASSUME NEW t \in Tasks, Profiles(t) PROVE PoolMove
  BY <1>7 DEF Profiles, PoolMove
<1>8. ASSUME NEW t \in Tasks, Cancel(t) PROVE PoolMove
  <2>1. Dropped(t) /\ call[t].pc # "fail"
    BY <1>8 DEF Cancel
  <2> QED
    BY <2>1 DEF PoolMove, Tasks
<1>9. CASE Pool
  BY <1>9 DEF Pool, PoolStep, PoolMove
<1>10. CASE Restart
  BY <1>10 DEF Restart, PoolMove
<1>11. CASE UNCHANGED vars
  BY <1>11 DEF vars, PoolMove
<1> QED
  BY <1>1, <1>2, <1>3, <1>4, <1>5, <1>6, <1>7, <1>8, <1>9, <1>10, <1>11 DEF Next

-----------------------------------------------------------------------------
(* The calls of the pool                                                     *)

Upto(n) == [k \in 1..n |-> k]

(* A call that is not done has texts to send, and what it has received, unless  *)
(* an answer was short, are the vectors of the first ones.                    *)
Progress(r) ==
    /\ r.pc \in {"attempt", "fail"} => r.sent * BatchSize < r.texts
    /\ r.pc = "attempt" /\ ~r.short => r.done = Upto(r.sent * BatchSize)
    /\ r.pc = "succeed" /\ ~r.short => r.done = Upto(r.texts)

CallsInv == \A c \in Callers : Progress(call[c])

MadeCall == [pc : {"attempt", "succeed", "fail"}, task : ModelTasks, batch : BOOLEAN, texts : Nat,
             done : Seq(Nat), sent : Nat, attempt : 0..MaxRetries, short : BOOLEAN]

LEMMA PoolCallIs ==
    ASSUME PoolTypeOK, NEW c \in Callers
    PROVE  /\ call[c] = NoCall \/ call[c] \in MadeCall
           /\ call[c].pc \in {"none", "attempt", "succeed", "fail"}
           /\ call[c].pc = "none" <=> call[c] = NoCall
BY DEF PoolTypeOK, CallType, MadeCall, NoCall

LEMMA ChunkIs ==
    ASSUME PoolTypeOK, CallsInv, NEW c \in Callers, call[c].pc = "attempt"
    PROVE  \E before, last \in Nat :
             /\ before = call[c].sent * BatchSize
             /\ last = LastOf(c) /\ before < last /\ last <= call[c].texts
             /\ last = call[c].texts \/ last = before + BatchSize
             /\ Chunk(c) = [k \in 1..(last - before) |-> before + k]
             /\ Chunk(c) \in Seq(Nat) /\ Front(Chunk(c)) \in Seq(Nat)
<1>1. call[c] \in MadeCall
  BY PoolCallIs
<1>2. PICK before \in Nat : before = call[c].sent * BatchSize
  BY <1>1, ModelPoolAssumption DEF MadeCall
<1>3. PICK last : last = LastOf(c)
  OBVIOUS
<1>4. BatchSize \in Nat \ {0} /\ call[c].texts \in Nat /\ before < call[c].texts
  BY <1>1, <1>2, ModelPoolAssumption DEF MadeCall, CallsInv, Progress
<1>5. FirstOf(c) = before + 1
  BY <1>2 DEF FirstOf
<1>6. last = IF before + BatchSize < call[c].texts THEN before + BatchSize ELSE call[c].texts
  <2>1. last = IF before + 1 + BatchSize - 1 < call[c].texts THEN before + 1 + BatchSize - 1
               ELSE call[c].texts
    BY <1>3, <1>5 DEF LastOf, LeastOf
  <2>2. before + 1 + BatchSize - 1 = before + BatchSize
    BY <1>2, <1>4
  <2> QED
    BY <2>1, <2>2
<1>7. /\ last \in Nat /\ before < last /\ last <= call[c].texts
      /\ last = call[c].texts \/ last = before + BatchSize
  BY <1>2, <1>4, <1>6
<1>8. Chunk(c) = [k \in 1..(last - before) |-> before + k]
  <2>1. Chunk(c) = [k \in 1..(last - (before + 1) + 1) |-> before + 1 + k - 1]
    BY <1>3, <1>5 DEF Chunk
  <2>2. last - (before + 1) + 1 = last - before
    BY <1>2, <1>7
  <2>3. \A k \in 1..(last - before) : before + 1 + k - 1 = before + k
    BY <1>2, <1>7
  <2> QED
    BY <2>1, <2>2, <2>3
<1>9. Chunk(c) \in Seq(Nat)
  <2>1. last - before \in Nat /\ \A k \in 1..(last - before) : before + k \in Nat
    BY <1>2, <1>7
  <2>2. \A n \in Nat : \A f \in [1..n -> Nat] : f \in Seq(Nat)
    OBVIOUS
  <2> QED
    BY <1>8, <2>1, <2>2
<1>10. Front(Chunk(c)) \in Seq(Nat)
  <2>1. \A s \in Seq(Nat) : SubSeq(s, 1, Len(s) - 1) \in Seq(Nat)
    OBVIOUS
  <2> QED
    BY <1>9, <2>1 DEF Front
<1> QED
  BY <1>2, <1>3, <1>7, <1>8, <1>9, <1>10

(* A received chunk extends what was received.                                *)
LEMMA Extended ==
    ASSUME NEW before \in Nat, NEW last \in Nat, before < last
    PROVE  Upto(before) \o [k \in 1..(last - before) |-> before + k] = Upto(last)
<1> DEFINE s == Upto(before)
           t == [k \in 1..(last - before) |-> before + k]
<1>1. s \in Seq(Nat) /\ Len(s) = before
  BY DEF Upto
<1>2. t \in Seq(Nat) /\ Len(t) = last - before
  <2>1. last - before \in Nat /\ \A k \in 1..(last - before) : before + k \in Nat
    OBVIOUS
  <2>2. \A n \in Nat : \A f \in [1..n -> Nat] : f \in Seq(Nat) /\ Len(f) = n
    OBVIOUS
  <2>3. t \in [1..(last - before) -> Nat]
    BY <2>1
  <2> HIDE DEF t
  <2> QED
    BY <2>1, <2>2, <2>3
<1>3. s \o t \in Seq(Nat) /\ Len(s \o t) = last
  <2> HIDE DEF s, t
  <2>1. \A u, v \in Seq(Nat) : u \o v \in Seq(Nat) /\ Len(u \o v) = Len(u) + Len(v)
    OBVIOUS
  <2>2. before + (last - before) = last
    OBVIOUS
  <2> QED
    BY <1>1, <1>2, <2>1, <2>2
<1>4. ASSUME NEW k \in 1..last
      PROVE  (s \o t)[k] = k
  <2>1. \A u, v \in Seq(Nat) : \A n \in 1..(Len(u) + Len(v)) :
          (u \o v)[n] = IF n <= Len(u) THEN u[n] ELSE v[n - Len(u)]
    OBVIOUS
  <2>2. k \in 1..(Len(s) + Len(t))
    <3> HIDE DEF s, t
    <3> QED
      BY <1>1, <1>2
  <2>3. (s \o t)[k] = IF k <= before THEN s[k] ELSE t[k - before]
    <3> HIDE DEF s, t
    <3> QED
      BY <1>1, <1>2, <2>1, <2>2
  <2>4. k <= before => s[k] = k
    BY DEF Upto
  <2>5. ~(k <= before) => t[k - before] = k
    <3>1. ~(k <= before) => k - before \in 1..(last - before) /\ before + (k - before) = k
      OBVIOUS
    <3> QED
      BY <3>1
  <2> HIDE DEF s, t
  <2> QED
    BY <2>3, <2>4, <2>5
<1>5. Upto(last) \in Seq(Nat) /\ Len(Upto(last)) = last /\ \A k \in 1..last : Upto(last)[k] = k
  BY DEF Upto
<1> HIDE DEF s, t
<1>6. \A u, v \in Seq(Nat) : Len(u) = Len(v) /\ (\A k \in 1..Len(u) : u[k] = v[k]) => u = v
  OBVIOUS
<1>7. s \o t = Upto(last)
  BY <1>3, <1>4, <1>5, <1>6
<1> QED
  BY <1>7 DEF s, t

PoolCallsInv == PoolTypeOK /\ CallsInv

(* A step of one call leaves the others as they are.                          *)
LEMMA CallsStep ==
    ASSUME PoolCallsInv, NEW c \in Callers, NEW r \in MadeCall \cup {NoCall}, Progress(r), Calls(c, r)
    PROVE  call' \in [Callers -> CallType] /\ CallsInv'
<1>1. r \in CallType
  BY DEF CallType, MadeCall
<1>2. call \in [Callers -> CallType]
  BY DEF PoolCallsInv, PoolTypeOK
<1>3. \A d \in Callers : call'[d] = IF d = c THEN r ELSE call[d]
  BY <1>2 DEF Calls
<1>4. call' \in [Callers -> CallType]
  BY <1>1, <1>2 DEF Calls
<1> QED
  BY <1>3, <1>4 DEF PoolCallsInv, CallsInv, Progress

LEMMA ReceivedStep ==
    ASSUME PoolCallsInv, NEW c \in Callers, call[c].pc = "attempt",
           NEW vectors, NEW short \in BOOLEAN, Received(c, vectors, short),
           \/ ~short /\ vectors = Chunk(c)
           \/ short /\ vectors = Front(Chunk(c))
    PROVE  call' \in [Callers -> CallType] /\ CallsInv'
<1>1. PICK before \in Nat, last \in Nat :
             /\ before = call[c].sent * BatchSize
             /\ last = LastOf(c) /\ before < last /\ last <= call[c].texts
             /\ last = call[c].texts \/ last = before + BatchSize
             /\ Chunk(c) = [k \in 1..(last - before) |-> before + k]
             /\ Chunk(c) \in Seq(Nat) /\ Front(Chunk(c)) \in Seq(Nat)
  BY ChunkIs DEF PoolCallsInv
<1>2. call[c] \in MadeCall
  BY PoolCallIs DEF PoolCallsInv
<1>3. PICK r : r = [call[c] EXCEPT !.done = @ \o vectors, !.sent = @ + 1, !.attempt = 0,
                       !.pc = IF LastOf(c) = call[c].texts THEN "succeed" ELSE "attempt",
                       !.short = @ \/ short]
  OBVIOUS
<1>4. /\ vectors \in Seq(Nat) /\ call[c].done \in Seq(Nat) /\ call[c].short \in BOOLEAN
      /\ call[c].sent \in Nat /\ call[c].texts \in Nat /\ 0 \in 0..MaxRetries
  <2>1. vectors \in Seq(Nat)
    BY <1>1
  <2>2. 0 \in 0..MaxRetries
    BY ModelPoolAssumption
  <2> QED
    BY <1>2, <2>1, <2>2 DEF MadeCall
<1>5. call[c].done \o vectors \in Seq(Nat) /\ call[c].sent + 1 \in Nat
  BY <1>4
<1>6. /\ r.done = call[c].done \o vectors /\ r.sent = call[c].sent + 1
      /\ r.pc = IF last = call[c].texts THEN "succeed" ELSE "attempt"
      /\ r.short = (call[c].short \/ short) /\ r.texts = call[c].texts
  BY <1>1, <1>2, <1>3 DEF MadeCall
<1>7. r \in MadeCall
  BY <1>2, <1>3, <1>4, <1>5 DEF MadeCall
<1>8. r.sent * BatchSize = before + BatchSize
  <2>1. \A m, b \in Nat : (m + 1) * b = m * b + b
    OBVIOUS
  <2> QED
    BY <1>1, <1>4, <1>6, <2>1, ModelPoolAssumption
<1>9. r.pc = "attempt" => last < r.texts /\ last = before + BatchSize
  <2>1. PICK n \in Nat : n = call[c].texts /\ r.texts = n
    BY <1>4, <1>6
  <2>2. last <= n /\ (last = n \/ last = before + BatchSize)
    BY <1>1, <2>1
  <2>3. r.pc = "attempt" => last # n
    BY <1>6, <2>1
  <2> QED
    BY <2>1, <2>2, <2>3
<1>10. ~r.short => r.done = Upto(last)
  <2>1. ~r.short => vectors = Chunk(c) /\ call[c].done = Upto(before)
    BY <1>1, <1>4, <1>6 DEF PoolCallsInv, CallsInv, Progress
  <2>2. Upto(before) \o [k \in 1..(last - before) |-> before + k] = Upto(last)
    BY <1>1, Extended
  <2>3. ~r.short => r.done = Upto(before) \o Chunk(c)
    BY <1>6, <2>1
  <2>4. Chunk(c) = [k \in 1..(last - before) |-> before + k]
    BY <1>1
  <2> QED
    BY <2>2, <2>3, <2>4
<1>11. Progress(r)
  BY <1>6, <1>8, <1>9, <1>10 DEF Progress
<1>12. Calls(c, r)
  BY <1>3 DEF Received
<1> QED
  BY <1>7, <1>11, <1>12, CallsStep

LEMMA RecordedType ==
    ASSUME PoolTypeOK, NEW task \in ModelTasks, NEW ok \in BOOLEAN
    PROVE  /\ Recorded(task, ok) \in Seq([id : Nat, task : ModelTasks, ok : BOOLEAN])
           /\ Len(Recorded(task, ok)) <= MaxTraces
<1> DEFINE Trace == [id : Nat, task : ModelTasks, ok : BOOLEAN]
           new == [id |-> Len(finished) + 1, task |-> task, ok |-> ok]
<1>1. new \in Trace
  BY DEF PoolTypeOK
<1>2. traces \in Seq(Trace) /\ Len(traces) <= MaxTraces /\ MaxTraces \in Nat \ {0}
  BY ModelPoolAssumption DEF PoolTypeOK
<1> HIDE DEF new, Trace
<1>3. CASE Len(traces) >= MaxTraces
  <2>1. traces # <<>> /\ Len(traces) = MaxTraces
    BY <1>2, <1>3
  <2>2. Tail(traces) \in Seq(Trace) /\ Len(Tail(traces)) = MaxTraces - 1
    BY <1>2, <2>1
  <2>3. Append(Tail(traces), new) \in Seq(Trace) /\ Len(Append(Tail(traces), new)) = MaxTraces
    BY <1>1, <1>2, <2>2
  <2> QED
    BY <1>2, <1>3, <2>3 DEF Recorded, new, Trace
<1>4. CASE ~(Len(traces) >= MaxTraces)
  <2>1. Append(traces, new) \in Seq(Trace) /\ Len(Append(traces, new)) = Len(traces) + 1
    BY <1>1, <1>2
  <2>2. Len(traces) + 1 <= MaxTraces
    BY <1>2, <1>4
  <2> QED
    BY <1>4, <2>1, <2>2 DEF Recorded, new, Trace
<1> QED
  BY <1>3, <1>4

LEMMA CountIs ==
    ASSUME NEW counter \in [Providers -> Nat], NEW p
    PROVE  /\ Count(counter, p) \in [Providers -> Nat]
           /\ \A q \in Providers :
                 Count(counter, p)[q] = IF q = p THEN counter[q] + 1 ELSE counter[q]
<1>1. ASSUME NEW q \in Providers
      PROVE  Count(counter, p)[q] = IF q = p THEN counter[q] + 1 ELSE counter[q]
  BY DEF Count
<1>2. \A q \in Providers : counter[q] \in Nat
  OBVIOUS
<1>3. DOMAIN Count(counter, p) = Providers
  BY DEF Count
<1>4. Count(counter, p) = [q \in Providers |-> IF q = p THEN counter[q] + 1 ELSE counter[q]]
  BY <1>1, <1>3 DEF Count
<1> QED
  BY <1>1, <1>2, <1>4

LEMMA PoolInductive == PoolCallsInv /\ PoolMove => PoolCallsInv'
<1> SUFFICES ASSUME PoolCallsInv, PoolMove PROVE PoolCallsInv'
  OBVIOUS
<1>a. /\ {requests, errors, retries} \subseteq [Providers -> Nat] /\ cleared \in Nat
      /\ call \in [Callers -> CallType] /\ MaxRetries \in Nat
      /\ finished \in Seq([task : ModelTasks, ok : BOOLEAN])
  BY ModelPoolAssumption DEF PoolCallsInv, PoolTypeOK
<1>b. NoCall \in CallType /\ Progress(NoCall)
  BY DEF CallType, NoCall, Progress
<1>1. ASSUME NEW c \in Callers, NEW task \in ModelTasks, NEW batch \in BOOLEAN, NEW n \in Nat,
             StartCall(c, task, batch, n)
      PROVE  PoolCallsInv'
  <2>1. PICK r : r = [pc |-> IF n = 0 THEN "succeed" ELSE "attempt", task |-> task,
                      batch |-> batch, texts |-> n, done |-> <<>>, sent |-> 0, attempt |-> 0,
                      short |-> FALSE]
    OBVIOUS
  <2>2. <<>> \in Seq(Nat) /\ 0 \in 0..MaxRetries
    BY <1>a
  <2>3. r \in MadeCall
    BY <2>1, <2>2 DEF MadeCall
  <2>4. Upto(0) = <<>> /\ 0 * BatchSize = 0
    BY ModelPoolAssumption DEF Upto
  <2>5. Progress(r)
    BY <2>1, <2>4 DEF Progress
  <2>6. call' \in [Callers -> CallType] /\ CallsInv'
    BY <1>1, <2>1, <2>3, <2>5, CallsStep DEF StartCall
  <2>7. requests' \in [Providers -> Nat]
    BY <1>1, <1>a, CountIs DEF StartCall
  <2> QED
    BY <1>1, <2>6, <2>7 DEF StartCall, PoolCallsInv, PoolTypeOK
<1>2. ASSUME NEW c \in Callers, Answer(c) PROVE PoolCallsInv'
  <2>1. call' \in [Callers -> CallType] /\ CallsInv'
    BY <1>2, ReceivedStep DEF Answer
  <2> QED
    BY <1>2, <2>1 DEF Answer, PoolCallsInv, PoolTypeOK
<1>3. ASSUME NEW c \in Callers, AnswerShort(c) PROVE PoolCallsInv'
  <2>1. call' \in [Callers -> CallType] /\ CallsInv'
    BY <1>3, ReceivedStep DEF AnswerShort
  <2> QED
    BY <1>3, <2>1 DEF AnswerShort, PoolCallsInv, PoolTypeOK
<1>4. ASSUME NEW c \in Callers, call[c].pc = "attempt", Failing(c)
      PROVE  call' \in [Callers -> CallType] /\ CallsInv'
  <2>1. call[c] \in MadeCall /\ Progress(call[c])
    BY <1>4, PoolCallIs DEF PoolCallsInv, CallsInv
  <2>2. PICK r : r = [call[c] EXCEPT !.pc = "fail"]
    OBVIOUS
  <2>3. r \in MadeCall /\ r.pc = "fail" /\ r.sent = call[c].sent /\ r.texts = call[c].texts
    BY <2>1, <2>2 DEF MadeCall
  <2>4. Progress(r)
    BY <1>4, <2>1, <2>3 DEF Progress
  <2> QED
    BY <1>4, <2>2, <2>3, <2>4, CallsStep DEF Failing
<1>5. ASSUME NEW c \in Callers, Busy(c) PROVE PoolCallsInv'
  <2>1. CASE call[c].attempt < MaxRetries /\ Calls(c, [call[c] EXCEPT !.attempt = @ + 1])
               /\ retries' = Count(retries, ProviderOf(c)) /\ UNCHANGED errors
    <3>1. call[c] \in MadeCall /\ Progress(call[c])
      BY <1>5, PoolCallIs DEF PoolCallsInv, CallsInv, Busy
    <3>2. PICK r : r = [call[c] EXCEPT !.attempt = @ + 1]
      OBVIOUS
    <3>3. call[c].attempt + 1 \in 0..MaxRetries
      BY <1>a, <2>1, <3>1 DEF MadeCall
    <3>4. /\ r \in MadeCall /\ r.pc = call[c].pc /\ r.sent = call[c].sent
          /\ r.texts = call[c].texts /\ r.done = call[c].done /\ r.short = call[c].short
      BY <3>1, <3>2, <3>3 DEF MadeCall
    <3>5. Progress(r)
      BY <3>1, <3>4 DEF Progress
    <3>6. call' \in [Callers -> CallType] /\ CallsInv'
      BY <2>1, <3>2, <3>4, <3>5, CallsStep
    <3>7. retries' \in [Providers -> Nat]
      BY <1>a, <2>1, CountIs
    <3> QED
      BY <1>5, <1>a, <2>1, <3>6, <3>7 DEF Busy, PoolCallsInv, PoolTypeOK
  <2>2. CASE Failing(c) /\ errors' = Count(errors, ProviderOf(c)) /\ UNCHANGED retries
    <3>1. call' \in [Callers -> CallType] /\ CallsInv'
      BY <1>4, <1>5, <2>2 DEF Busy
    <3>2. errors' \in [Providers -> Nat]
      BY <1>a, <2>2, CountIs
    <3> QED
      BY <1>5, <1>a, <2>2, <3>1, <3>2 DEF Busy, PoolCallsInv, PoolTypeOK
  <2> QED
    BY <1>5, <2>1, <2>2 DEF Busy
<1>6. ASSUME NEW c \in Callers, Refuse(c) PROVE PoolCallsInv'
  <2>1. call' \in [Callers -> CallType] /\ CallsInv'
    BY <1>4, <1>6 DEF Refuse
  <2>2. errors' \in [Providers -> Nat]
    BY <1>6, <1>a, CountIs DEF Refuse
  <2> QED
    BY <1>6, <1>a, <2>1, <2>2 DEF Refuse, PoolCallsInv, PoolTypeOK
<1>7. ASSUME NEW c \in Callers, Garble(c) PROVE PoolCallsInv'
  <2>1. call' \in [Callers -> CallType] /\ CallsInv'
    BY <1>4, <1>7 DEF Garble
  <2> QED
    BY <1>7, <2>1 DEF Garble, PoolCallsInv, PoolTypeOK
<1>8. ASSUME NEW c \in Callers, NEW ok \in BOOLEAN, Return(c, ok) PROVE PoolCallsInv'
  <2>1. call' \in [Callers -> CallType] /\ CallsInv'
    BY <1>8, <1>b, CallsStep DEF Return
  <2>2. call[c].task \in ModelTasks
    <3>1. call[c].pc = "succeed" \/ call[c].pc = "fail"
      BY <1>8 DEF Return
    <3> QED
      BY <3>1, PoolCallIs DEF PoolCallsInv, MadeCall
  <2>3. /\ traces' \in Seq([id : Nat, task : ModelTasks, ok : BOOLEAN]) /\ Len(traces') <= MaxTraces
    BY <1>8, <2>2, RecordedType DEF Return, PoolCallsInv
  <2>4. finished' \in Seq([task : ModelTasks, ok : BOOLEAN])
    BY <1>8, <1>a, <2>2 DEF Return
  <2> QED
    BY <1>8, <2>1, <2>3, <2>4 DEF Return, PoolCallsInv, PoolTypeOK
<1>9. ASSUME NEW c \in Callers, Dropped(c) PROVE PoolCallsInv'
  <2>1. call' \in [Callers -> CallType] /\ CallsInv'
    BY <1>9, <1>b, CallsStep DEF Dropped
  <2> QED
    BY <1>9, <2>1 DEF Dropped, PoolCallsInv, PoolTypeOK
<1>c. <<>> \in Seq([id : Nat, task : ModelTasks, ok : BOOLEAN]) /\ Len(<<>>) <= MaxTraces
  BY ModelPoolAssumption
<1>10. CASE ClearTraces
  <2>1. cleared' \in Nat
    BY <1>10, <1>a DEF ClearTraces
  <2> QED
    BY <1>10, <1>c, <2>1 DEF ClearTraces, PoolCallsInv, PoolTypeOK, CallsInv
<1>11. CASE PoolRestart
  <2>1. call' \in [Callers -> CallType] /\ CallsInv'
    BY <1>11, <1>b DEF PoolRestart, CallsInv
  <2>2. <<>> \in Seq([task : ModelTasks, ok : BOOLEAN]) /\ Unused \in [Providers -> Nat]
    BY DEF Unused
  <2> QED
    BY <1>11, <1>c, <2>1, <2>2 DEF PoolRestart, PoolCallsInv, PoolTypeOK
<1>12. CASE UNCHANGED poolVars
  BY <1>12 DEF poolVars, PoolCallsInv, PoolTypeOK, CallsInv
<1> QED
  BY <1>1, <1>2, <1>3, <1>5, <1>6, <1>7, <1>8, <1>9, <1>10, <1>11, <1>12 DEF PoolMove

-----------------------------------------------------------------------------
(* The counters of the pool                                                  *)

FailedCalls(p) == {k \in DOMAIN finished : ~finished[k].ok /\ finished[k].task \in TasksOf(p)}
Reached(r, p) == r # NoCall /\ r.texts > 0 /\ r.task \in TasksOf(p)
Underway(p) == {c \in Callers : Reached(call[c], p)}
FailingNow(p) == {c \in Underway(p) : call[c].pc = "fail"}

Counted(p) ==
    /\ IsFiniteSet(Underway(p))
    /\ errors[p] <= Cardinality(FailedCalls(p)) + Cardinality(FailingNow(p))
    /\ Cardinality(FailedCalls(p)) + Cardinality(Underway(p)) <= requests[p]

CountsInv == \A p \in Providers : Counted(p)

PoolCountsInv == PoolCallsInv /\ CountsInv

LEMMA CountsTyped ==
    ASSUME PoolCountsInv, NEW p \in Providers
    PROVE  /\ IsFiniteSet(Underway(p)) /\ IsFiniteSet(FailingNow(p)) /\ IsFiniteSet(FailedCalls(p))
           /\ Cardinality(Underway(p)) \in Nat /\ Cardinality(FailingNow(p)) \in Nat
           /\ Cardinality(FailedCalls(p)) \in Nat /\ errors[p] \in Nat /\ requests[p] \in Nat
           /\ {errors, requests} \subseteq [Providers -> Nat] /\ Counted(p)
<1>1. IsFiniteSet(Underway(p)) /\ FailingNow(p) \in SUBSET Underway(p) /\ Counted(p)
  BY DEF PoolCountsInv, CountsInv, Counted, FailingNow
<1>2. IsFiniteSet(FailingNow(p))
  BY <1>1, FS_Subset
<1>3. IsFiniteSet(FailedCalls(p))
  <2>1. finished \in Seq([task : ModelTasks, ok : BOOLEAN])
    BY DEF PoolCountsInv, PoolCallsInv, PoolTypeOK
  <2>2. FailedCalls(p) \in SUBSET DOMAIN finished
    BY DEF FailedCalls
  <2> QED
    BY <2>1, <2>2, PlacesFinite
<1>4. {errors, requests} \subseteq [Providers -> Nat]
  BY DEF PoolCountsInv, PoolCallsInv, PoolTypeOK
<1> QED
  BY <1>1, <1>2, <1>3, <1>4, FS_CardinalityType

(* What one call's step does to the sets that are counted.                    *)
LEMMA UnderwayStep ==
    ASSUME PoolCountsInv, NEW c \in Callers, NEW r, Calls(c, r), NEW p
    PROVE  /\ call'[c] = r
           /\ Reached(r, p) => Underway(p)' = Underway(p) \cup {c}
           /\ ~Reached(r, p) => Underway(p)' = Underway(p) \ {c}
           /\ Reached(r, p) /\ r.pc = "fail" => FailingNow(p)' = FailingNow(p) \cup {c}
           /\ ~(Reached(r, p) /\ r.pc = "fail") => FailingNow(p)' = FailingNow(p) \ {c}
<1>1. \A d \in Callers : call'[d] = IF d = c THEN r ELSE call[d]
  BY DEF PoolCountsInv, PoolCallsInv, PoolTypeOK, Calls
<1> HIDE DEF Reached
<1>2. Underway(p)' = {d \in Callers : Reached(call'[d], p)}
  BY DEF Underway, Reached
<1>3. FailingNow(p)' = {d \in Callers : Reached(call'[d], p) /\ call'[d].pc = "fail"}
  BY <1>2 DEF FailingNow
<1>4. FailingNow(p) = {d \in Callers : Reached(call[d], p) /\ call[d].pc = "fail"}
  BY DEF FailingNow, Underway
<1> QED
  BY <1>1, <1>2, <1>3, <1>4 DEF Underway

(* A step that changes none of the sets.                                      *)
LEMMA CountsSame ==
    ASSUME PoolCountsInv, NEW p \in Providers, Underway(p)' = Underway(p),
           FailingNow(p)' = FailingNow(p), FailedCalls(p)' = FailedCalls(p),
           errors'[p] = errors[p], requests'[p] = requests[p]
    PROVE  Counted(p)'
BY DEF PoolCountsInv, CountsInv, Counted

LEMMA CountsFail ==
    ASSUME PoolCountsInv, NEW p \in Providers, NEW c \in Callers, call[c].pc = "attempt", Failing(c),
           UNCHANGED <<finished, requests>>,
           errors' = errors \/ errors' = Count(errors, ProviderOf(c))
    PROVE  Counted(p)'
<1>1. call[c] \in MadeCall /\ call[c].texts > 0 /\ call[c] # NoCall
  <2>1. call[c] \in MadeCall /\ call[c] # NoCall /\ Progress(call[c])
    BY PoolCallIs DEF PoolCountsInv, PoolCallsInv, CallsInv, NoCall
  <2>2. call[c].sent * BatchSize \in Nat /\ call[c].texts \in Nat
    BY <2>1, ModelPoolAssumption DEF MadeCall
  <2> QED
    BY <2>1, <2>2 DEF Progress
<1>2. PICK r : r = [call[c] EXCEPT !.pc = "fail"]
  OBVIOUS
<1>3. r # NoCall /\ r.texts > 0 /\ r.pc = "fail" /\ r.task = call[c].task
  BY <1>1, <1>2 DEF MadeCall, NoCall
<1>4. FailedCalls(p)' = FailedCalls(p)
  BY DEF FailedCalls
<1>5. CASE call[c].task \in TasksOf(p)
  <2>1. Underway(p)' = Underway(p) \cup {c} /\ FailingNow(p)' = FailingNow(p) \cup {c}
    BY <1>2, <1>3, <1>5, UnderwayStep DEF Failing, Reached
  <2>2. c \in Underway(p) /\ c \notin FailingNow(p)
    BY <1>1, <1>5 DEF Underway, FailingNow, Reached
  <2>3. /\ Cardinality(FailingNow(p)') = Cardinality(FailingNow(p)) + 1
        /\ Underway(p)' = Underway(p)
    <3>1. Cardinality(FailingNow(p) \cup {c}) = Cardinality(FailingNow(p)) + 1
      BY <2>2, CountsTyped, FS_AddElement
    <3> QED
      BY <2>1, <2>2, <3>1
  <2>4. errors'[p] \in {errors[p], errors[p] + 1}
    BY CountsTyped, CountIs
  <2> QED
    BY <1>4, <2>3, <2>4, CountsTyped DEF Counted
<1>6. CASE call[c].task \notin TasksOf(p)
  <2>1. ~Reached(r, p) /\ c \notin Underway(p) /\ c \notin FailingNow(p)
    BY <1>3, <1>6 DEF Reached, Underway, FailingNow
  <2>2. Underway(p)' = Underway(p) /\ FailingNow(p)' = FailingNow(p)
    BY <1>2, <2>1, UnderwayStep DEF Failing
  <2>3. ProviderOf(c) # p
    BY <1>1, <1>6 DEF ProviderOf, TasksOf, MadeCall
  <2>4. errors'[p] = errors[p]
    BY <2>3, CountsTyped, CountIs
  <2> QED
    BY <1>4, <2>2, <2>4, CountsSame
<1> QED
  BY <1>5, <1>6

LEMMA CountsReturn ==
    ASSUME PoolCountsInv, NEW p \in Providers, NEW c \in Callers, NEW ok \in BOOLEAN, Return(c, ok)
    PROVE  Counted(p)'
<1>1. /\ call[c] \in MadeCall /\ call[c] # NoCall /\ Progress(call[c])
      /\ call[c].pc = IF ok THEN "succeed" ELSE "fail"
  <2>1. call[c].pc = IF ok THEN "succeed" ELSE "fail"
    BY DEF Return
  <2> QED
    BY <2>1, PoolCallIs DEF PoolCountsInv, PoolCallsInv, CallsInv, NoCall
<1>2. Underway(p)' = Underway(p) \ {c} /\ FailingNow(p)' = FailingNow(p) \ {c}
  <2>1. ~Reached(NoCall, p) /\ Calls(c, NoCall)
    BY DEF Reached, Return
  <2> QED
    BY <2>1, UnderwayStep
<1>3. PICK n \in Nat : n = Len(finished)
  BY DEF PoolCountsInv, PoolCallsInv, PoolTypeOK
<1>4. PICK e : e = [task |-> call[c].task, ok |-> ok]
  OBVIOUS
<1>5. e \in [task : ModelTasks, ok : BOOLEAN] /\ e.ok = ok /\ e.task = call[c].task
  BY <1>1, <1>4 DEF MadeCall
<1>6. /\ DOMAIN finished = 1..n /\ DOMAIN finished' = 1..(n + 1)
      /\ \A k \in 1..n : finished'[k] = finished[k]
      /\ finished'[n + 1] = e
  <2>1. finished \in Seq([task : ModelTasks, ok : BOOLEAN])
    BY DEF PoolCountsInv, PoolCallsInv, PoolTypeOK
  <2>2. finished' = Append(finished, e)
    BY <1>4 DEF Return
  <2> QED
    BY <1>3, <1>5, <2>1, <2>2
<1>7. UNCHANGED <<errors, requests>>
  BY DEF Return
<1>8. CASE ok \/ call[c].task \notin TasksOf(p)
  <2>1. FailedCalls(p)' = FailedCalls(p)
    <3>1. 1..(n + 1) = 1..n \cup {n + 1} /\ n + 1 \notin 1..n
      OBVIOUS
    <3>2. e.ok \/ e.task \notin TasksOf(p)
      BY <1>5, <1>8, Zenon
    <3>3. finished'[n + 1].ok \/ finished'[n + 1].task \notin TasksOf(p)
      BY <1>6, <3>2, Zenon
    <3> QED
      BY <1>6, <3>1, <3>3, Zenon DEF FailedCalls, TasksOf
  <2>2. c \notin FailingNow(p)
    BY <1>1, <1>8 DEF FailingNow, Underway, Reached
  <2>3. FailingNow(p)' = FailingNow(p)
    BY <1>2, <2>2
  <2>4. /\ IsFiniteSet(Underway(p)')
        /\ Cardinality(Underway(p)') = IF c \in Underway(p) THEN Cardinality(Underway(p)) - 1
                                       ELSE Cardinality(Underway(p))
    <3>1. /\ IsFiniteSet(Underway(p) \ {c})
          /\ Cardinality(Underway(p) \ {c}) = IF c \in Underway(p) THEN Cardinality(Underway(p)) - 1
                                              ELSE Cardinality(Underway(p))
      BY CountsTyped, FS_RemoveElement
    <3> QED
      BY <1>2, <3>1
  <2> QED
    BY <1>7, <2>1, <2>3, <2>4, CountsTyped DEF Counted
<1>9. CASE ~ok /\ call[c].task \in TasksOf(p)
  <2>1. FailedCalls(p)' = FailedCalls(p) \cup {n + 1} /\ n + 1 \notin FailedCalls(p)
    <3>1. 1..(n + 1) = 1..n \cup {n + 1} /\ n + 1 \notin 1..n
      OBVIOUS
    <3>2. ~finished'[n + 1].ok /\ finished'[n + 1].task \in TasksOf(p)
      BY <1>5, <1>6, <1>9, Zenon
    <3> QED
      BY <1>6, <3>1, <3>2, Zenon DEF FailedCalls, TasksOf
  <2>2. Cardinality(FailedCalls(p)') = Cardinality(FailedCalls(p)) + 1
    BY <2>1, CountsTyped, FS_AddElement
  <2>3. c \in Underway(p) /\ c \in FailingNow(p)
    <3>1. call[c].sent * BatchSize \in Nat /\ call[c].texts \in Nat
      BY <1>1, ModelPoolAssumption DEF MadeCall
    <3>2. call[c].texts > 0
      BY <1>1, <1>9, <3>1 DEF Progress
    <3> QED
      BY <1>1, <1>9, <3>2 DEF Underway, FailingNow, Reached
  <2>4. /\ IsFiniteSet(Underway(p)')
        /\ Cardinality(Underway(p)') = Cardinality(Underway(p)) - 1
        /\ Cardinality(FailingNow(p)') = Cardinality(FailingNow(p)) - 1
    <3>1. /\ IsFiniteSet(Underway(p) \ {c})
          /\ Cardinality(Underway(p) \ {c}) = Cardinality(Underway(p)) - 1
      BY <2>3, CountsTyped, FS_RemoveElement
    <3>2. Cardinality(FailingNow(p) \ {c}) = Cardinality(FailingNow(p)) - 1
      BY <2>3, CountsTyped, FS_RemoveElement
    <3> QED
      BY <1>2, <3>1, <3>2
  <2> QED
    BY <1>7, <2>2, <2>4, CountsTyped DEF Counted
<1> QED
  BY <1>8, <1>9

LEMMA CountsInductive == PoolCountsInv /\ PoolMove => CountsInv'
<1> SUFFICES ASSUME PoolCountsInv, PoolMove, NEW p \in Providers PROVE Counted(p)'
  BY DEF CountsInv
<1>1. ASSUME NEW c \in Callers, NEW task \in ModelTasks, NEW batch \in BOOLEAN, NEW n \in Nat,
             StartCall(c, task, batch, n)
      PROVE  Counted(p)'
  <2>1. PICK r : r = [pc |-> IF n = 0 THEN "succeed" ELSE "attempt", task |-> task,
                      batch |-> batch, texts |-> n, done |-> <<>>, sent |-> 0, attempt |-> 0,
                      short |-> FALSE]
    OBVIOUS
  <2>2. /\ r # NoCall /\ r.texts = n /\ r.pc # "fail" /\ r.task = task /\ Calls(c, r)
        /\ c \notin Underway(p) /\ c \notin FailingNow(p)
    BY <1>1, <2>1 DEF StartCall, NoCall, Underway, FailingNow, Reached
  <2>3. /\ n > 0 /\ task \in TasksOf(p) => Underway(p)' = Underway(p) \cup {c}
        /\ ~(n > 0 /\ task \in TasksOf(p)) => Underway(p)' = Underway(p)
        /\ FailingNow(p)' = FailingNow(p)
    <3>1. Reached(r, p) <=> n > 0 /\ task \in TasksOf(p)
      BY <2>2 DEF Reached
    <3> QED
      BY <2>2, <3>1, UnderwayStep
  <2>4. FailedCalls(p)' = FailedCalls(p) /\ errors' = errors
    BY <1>1 DEF StartCall, FailedCalls
  <2>5. requests'[p] = requests[p] + IF n > 0 /\ task \in TasksOf(p) THEN 1 ELSE 0
    <3>1. requests' = IF n = 0 THEN requests ELSE Count(requests, Route[task])
      BY <1>1 DEF StartCall
    <3>2. Route[task] = p <=> task \in TasksOf(p)
      BY DEF TasksOf
    <3> QED
      BY <3>1, <3>2, CountsTyped, CountIs
  <2>6. CASE n > 0 /\ task \in TasksOf(p)
    <3>1. IsFiniteSet(Underway(p)') /\ Cardinality(Underway(p)') = Cardinality(Underway(p)) + 1
      BY <2>2, <2>3, <2>6, CountsTyped, FS_AddElement
    <3> QED
      BY <2>3, <2>4, <2>5, <2>6, <3>1, CountsTyped DEF Counted
  <2>7. CASE ~(n > 0 /\ task \in TasksOf(p))
    BY <2>3, <2>4, <2>5, <2>7, CountsTyped, CountsSame
  <2> QED
    BY <2>6, <2>7
<1>2. ASSUME NEW c \in Callers, call[c].pc = "attempt", NEW r, Calls(c, r), r.texts = call[c].texts,
             r.task = call[c].task, r.pc # "fail", r # NoCall, UNCHANGED <<finished, errors, requests>>
      PROVE  Counted(p)'
  <2>1. /\ c \in Underway(p) <=> Reached(r, p)
        /\ c \notin FailingNow(p)
    BY <1>2 DEF Underway, FailingNow, NoCall, Reached
  <2>2. Underway(p)' = Underway(p) /\ FailingNow(p)' = FailingNow(p)
    BY <1>2, <2>1, UnderwayStep
  <2> QED
    BY <1>2, <2>2, CountsSame DEF FailedCalls
<1>3. ASSUME NEW c \in Callers, Answer(c) \/ AnswerShort(c) PROVE Counted(p)'
  <2>1. PICK vectors, short : /\ Received(c, vectors, short) /\ call[c].pc = "attempt"
                              /\ UNCHANGED <<finished, errors, requests>>
    BY <1>3 DEF Answer, AnswerShort
  <2>2. call[c] \in MadeCall
    BY <2>1, PoolCallIs DEF PoolCountsInv, PoolCallsInv
  <2>3. PICK r : r = [call[c] EXCEPT !.done = @ \o vectors, !.sent = @ + 1, !.attempt = 0,
                       !.pc = IF LastOf(c) = call[c].texts THEN "succeed" ELSE "attempt",
                       !.short = @ \/ short]
    OBVIOUS
  <2>4. r.texts = call[c].texts /\ r.task = call[c].task /\ r.pc # "fail" /\ r.pc # "none"
    BY <2>2, <2>3 DEF MadeCall
  <2>5. r # NoCall
    BY <2>4 DEF NoCall
  <2> QED
    BY <1>2, <2>1, <2>3, <2>4, <2>5 DEF Received
<1>4. ASSUME NEW c \in Callers, Busy(c) PROVE Counted(p)'
  <2>1. call[c].pc = "attempt" /\ call[c] \in MadeCall /\ UNCHANGED <<finished, requests>>
    BY <1>4, PoolCallIs DEF Busy, PoolCountsInv, PoolCallsInv
  <2>2. CASE Calls(c, [call[c] EXCEPT !.attempt = @ + 1]) /\ UNCHANGED errors
    <3>1. PICK r : r = [call[c] EXCEPT !.attempt = @ + 1]
      OBVIOUS
    <3>2. r.texts = call[c].texts /\ r.task = call[c].task /\ r.pc = "attempt"
      BY <2>1, <3>1 DEF MadeCall
    <3>3. r # NoCall
      BY <3>2 DEF NoCall
    <3> QED
      BY <1>2, <2>1, <2>2, <3>1, <3>2, <3>3
  <2>3. CASE Failing(c) /\ errors' = Count(errors, ProviderOf(c))
    BY <2>1, <2>3, CountsFail
  <2> QED
    BY <1>4, <2>2, <2>3 DEF Busy
<1>5. ASSUME NEW c \in Callers, Refuse(c) \/ Garble(c) PROVE Counted(p)'
  BY <1>5, CountsFail DEF Refuse, Garble
<1>6. ASSUME NEW c \in Callers, NEW ok \in BOOLEAN, Return(c, ok) PROVE Counted(p)'
  BY <1>6, CountsReturn
<1>7. ASSUME NEW c \in Callers, Dropped(c), call[c].pc # "fail" PROVE Counted(p)'
  <2>0. ~Reached(NoCall, p) /\ Calls(c, NoCall)
    BY <1>7 DEF Reached, Dropped
  <2>1. Underway(p)' = Underway(p) \ {c} /\ FailingNow(p)' = FailingNow(p) \ {c} /\ c \notin FailingNow(p)
    BY <1>7, <2>0, UnderwayStep DEF FailingNow
  <2>2. /\ IsFiniteSet(Underway(p)')
        /\ Cardinality(Underway(p)') = IF c \in Underway(p) THEN Cardinality(Underway(p)) - 1
                                       ELSE Cardinality(Underway(p))
    <3>1. /\ IsFiniteSet(Underway(p) \ {c})
          /\ Cardinality(Underway(p) \ {c}) = IF c \in Underway(p) THEN Cardinality(Underway(p)) - 1
                                              ELSE Cardinality(Underway(p))
      BY CountsTyped, FS_RemoveElement
    <3> QED
      BY <2>1, <3>1
  <2>3. FailedCalls(p)' = FailedCalls(p) /\ FailingNow(p)' = FailingNow(p) /\ UNCHANGED <<errors, requests>>
    BY <1>7, <2>1 DEF Dropped, FailedCalls
  <2> QED
    BY <2>2, <2>3, CountsTyped DEF Counted
<1>8. ASSUME UNCHANGED <<call, finished, errors, requests>> PROVE Counted(p)'
  <2>1. Underway(p)' = Underway(p) /\ FailingNow(p)' = FailingNow(p) /\ FailedCalls(p)' = FailedCalls(p)
    BY <1>8 DEF Underway, FailingNow, FailedCalls, Reached
  <2> QED
    BY <1>8, <2>1, CountsSame
<1>9. CASE PoolRestart
  <2>1. Underway(p)' = {} /\ FailingNow(p)' = {} /\ FailedCalls(p)' = {}
    BY <1>9 DEF PoolRestart, Underway, FailingNow, FailedCalls, Reached
  <2> QED
    BY <1>9, <2>1, FS_EmptySet DEF PoolRestart, Counted, Unused
<1>10. CASE ClearTraces \/ UNCHANGED poolVars
  BY <1>8, <1>10 DEF ClearTraces, poolVars
<1> QED
  BY <1>1, <1>3, <1>4, <1>5, <1>6, <1>7, <1>9, <1>10 DEF PoolMove


-----------------------------------------------------------------------------
(* The traces of the pool                                                    *)

TraceOf(k) == [id |-> k, task |-> finished[k].task, ok |-> finished[k].ok]
Shift == Len(finished) - Len(traces)

TraceInv ==
    /\ cleared <= Len(finished)
    /\ Len(traces) = LeastOf(MaxTraces, Len(finished) - cleared)
    /\ \A k \in DOMAIN traces : traces[k] = TraceOf(Shift + k)

LEMMA TracesReturn ==
    ASSUME PoolCallsInv, TraceInv, NEW c \in Callers, NEW ok \in BOOLEAN, Return(c, ok)
    PROVE  TraceInv'
<1>1. PICK n \in Nat : n = Len(finished)
  <2>1. finished \in Seq([task : ModelTasks, ok : BOOLEAN])
    BY DEF PoolCallsInv, PoolTypeOK
  <2> QED
    BY <2>1
<1>2. PICK m \in Nat : m = Len(traces)
  BY DEF PoolCallsInv, PoolTypeOK
<1>3. PICK e : e = [task |-> call[c].task, ok |-> ok]
  OBVIOUS
<1>4. PICK x : x = [id |-> n + 1, task |-> call[c].task, ok |-> ok]
  OBVIOUS
<1>5. /\ DOMAIN finished' = 1..(n + 1) /\ Len(finished') = n + 1
      /\ \A k \in 1..n : finished'[k] = finished[k]
      /\ finished'[n + 1] = e
  <2>1. finished \in Seq([task : ModelTasks, ok : BOOLEAN])
    BY DEF PoolCallsInv, PoolTypeOK
  <2>2. finished' = Append(finished, e)
    BY <1>3 DEF Return
  <2> QED
    BY <1>1, <2>1, <2>2
<1>6. x = TraceOf(n + 1)'
  BY <1>3, <1>4, <1>5 DEF TraceOf
<1>7. traces \in Seq([id : Nat, task : ModelTasks, ok : BOOLEAN]) /\ MaxTraces \in Nat \ {0}
      /\ cleared \in Nat /\ cleared' = cleared /\ m <= MaxTraces
      /\ traces' = Append(IF m >= MaxTraces THEN Tail(traces) ELSE traces, x)
  BY <1>1, <1>2, <1>4, ModelPoolAssumption DEF PoolCallsInv, PoolTypeOK, Return, Recorded
<1>8. /\ cleared <= n
      /\ m = IF MaxTraces < n - cleared THEN MaxTraces ELSE n - cleared
      /\ \A k \in 1..m : traces[k] = TraceOf(n - m + k)
  <2>1. cleared <= n /\ m = LeastOf(MaxTraces, n - cleared)
    BY <1>1, <1>2 DEF TraceInv
  <2>2. DOMAIN traces = 1..m
    BY <1>2, <1>7
  <2>3. \A k \in 1..m : traces[k] = TraceOf(n - m + k)
    BY <1>1, <1>2, <2>2 DEF TraceInv, Shift
  <2> QED
    BY <2>1, <2>3 DEF LeastOf
<1>9. \A k \in 1..n : TraceOf(k)' = TraceOf(k)
  BY <1>5 DEF TraceOf
<1>10. CASE m >= MaxTraces
  <2>1. m = MaxTraces /\ m > 0
    BY <1>7, <1>10
  <2>2. /\ Tail(traces) \in Seq([id : Nat, task : ModelTasks, ok : BOOLEAN])
        /\ Len(Tail(traces)) = m - 1
        /\ \A k \in 1..(m - 1) : Tail(traces)[k] = traces[k + 1]
    <3>1. traces # <<>>
      BY <1>2, <1>7, <2>1, EmptySeq
    <3> QED
      BY <1>2, <1>7, <3>1, HeadTailProperties
  <2>3. /\ Len(traces') = m /\ DOMAIN traces' = 1..m
        /\ \A k \in 1..(m - 1) : traces'[k] = traces[k + 1]
        /\ traces'[m] = x
    BY <1>7, <1>10, <2>1, <2>2
  <2>4. m = IF MaxTraces < n + 1 - cleared THEN MaxTraces ELSE n + 1 - cleared
    BY <1>7, <1>8, <2>1
  <2>5. ASSUME NEW k \in 1..m
        PROVE  traces'[k] = TraceOf(n + 1 - m + k)'
    <3>1. CASE k = m
      BY <1>6, <2>3, <3>1
    <3>2. CASE k # m
      <4>1. k \in 1..(m - 1) /\ k + 1 \in 1..m /\ n - m + (k + 1) \in 1..n
            /\ n - m + (k + 1) = n + 1 - m + k
        BY <1>7, <1>8, <3>2
      <4>2. traces'[k] = TraceOf(n - m + (k + 1))
        BY <1>8, <2>3, <4>1
      <4> QED
        BY <1>9, <4>1, <4>2
    <3> QED
      BY <3>1, <3>2
  <2>6. cleared' <= Len(finished')
    BY <1>5, <1>7, <1>8
  <2>7. Len(traces') = LeastOf(MaxTraces, Len(finished') - cleared')
    BY <1>5, <1>7, <2>3, <2>4 DEF LeastOf
  <2> QED
    BY <1>5, <2>3, <2>5, <2>6, <2>7 DEF TraceInv, Shift
<1>11. CASE ~(m >= MaxTraces)
  <2>3. /\ Len(traces') = m + 1 /\ DOMAIN traces' = 1..(m + 1)
        /\ \A k \in 1..m : traces'[k] = traces[k]
        /\ traces'[m + 1] = x
    BY <1>2, <1>7, <1>11
  <2>4. m + 1 = IF MaxTraces < n + 1 - cleared THEN MaxTraces ELSE n + 1 - cleared
    BY <1>7, <1>8, <1>11
  <2>5. ASSUME NEW k \in 1..(m + 1)
        PROVE  traces'[k] = TraceOf(n + 1 - (m + 1) + k)'
    <3>1. CASE k = m + 1
      BY <1>6, <2>3, <3>1
    <3>2. CASE k # m + 1
      <4>1. k \in 1..m /\ n - m + k \in 1..n /\ n - m + k = n + 1 - (m + 1) + k
        BY <1>7, <1>8, <3>2
      <4>2. traces'[k] = TraceOf(n - m + k)
        BY <1>8, <2>3, <4>1
      <4> QED
        BY <1>9, <4>1, <4>2
    <3> QED
      BY <3>1, <3>2
  <2>6. cleared' <= Len(finished')
    BY <1>5, <1>7, <1>8
  <2>7. Len(traces') = LeastOf(MaxTraces, Len(finished') - cleared')
    BY <1>5, <1>7, <2>3, <2>4 DEF LeastOf
  <2> QED
    BY <1>5, <2>3, <2>5, <2>6, <2>7 DEF TraceInv, Shift
<1> QED
  BY <1>10, <1>11

LEMMA TracesInductive == PoolCallsInv /\ TraceInv /\ PoolMove => TraceInv'
<1> SUFFICES ASSUME PoolCallsInv, TraceInv, PoolMove PROVE TraceInv'
  OBVIOUS
<1>1. ASSUME UNCHANGED <<traces, finished, cleared>> PROVE TraceInv'
  BY <1>1 DEF TraceInv, TraceOf, Shift
<1>2. ASSUME NEW c \in Callers, NEW task \in ModelTasks, NEW batch \in BOOLEAN, NEW n \in Nat,
             StartCall(c, task, batch, n)
      PROVE  TraceInv'
  BY <1>1, <1>2 DEF StartCall
<1>3. ASSUME NEW c \in Callers,
             Answer(c) \/ AnswerShort(c) \/ Busy(c) \/ Refuse(c) \/ Garble(c) \/ Dropped(c)
      PROVE  TraceInv'
  BY <1>1, <1>3 DEF Answer, AnswerShort, Busy, Refuse, Garble, Dropped
<1>4. CASE ClearTraces
  <2>1. traces' = <<>> /\ cleared' = Len(finished) /\ finished' = finished /\ Len(finished) \in Nat
    BY <1>4 DEF ClearTraces, PoolCallsInv, PoolTypeOK
  <2>2. LeastOf(MaxTraces, Len(finished) - Len(finished)) = 0
    BY <2>1, ModelPoolAssumption DEF LeastOf
  <2> QED
    BY <2>1, <2>2 DEF TraceInv
<1>5. CASE PoolRestart
  <2>1. traces' = <<>> /\ cleared' = 0 /\ finished' = <<>>
    BY <1>5 DEF PoolRestart
  <2>2. LeastOf(MaxTraces, 0 - 0) = 0
    BY ModelPoolAssumption DEF LeastOf
  <2> QED
    BY <2>1, <2>2 DEF TraceInv
<1>6. CASE UNCHANGED poolVars
  BY <1>1, <1>6 DEF poolVars
<1> QED
  BY <1>2, <1>3, <1>4, <1>5, <1>6, TracesReturn DEF PoolMove


(* What is left of the calls that ended, by number.                           *)
Kept == {k \in (cleared + 1)..Len(finished) : k > Len(finished) - MaxTraces}
KeptOf(tasks) == {k \in Kept : finished[k].task \in tasks}
Own(tasks) == {k \in DOMAIN traces : traces[k].task \in tasks}
Shifted(K, s) == {s + k : k \in K}

LEMMA ShiftedSize ==
    ASSUME NEW K \in SUBSET Nat, IsFiniteSet(K), NEW s \in Nat
    PROVE  Cardinality(Shifted(K, s)) = Cardinality(K)
<1> DEFINE f == [k \in K |-> s + k]
<1>1. f \in Bijection(K, Shifted(K, s))
  <2>1. f \in [K -> Shifted(K, s)]
    BY DEF Shifted
  <2>2. ASSUME NEW i \in K, NEW j \in K, f[i] = f[j]
        PROVE  i = j
    BY <2>2
  <2>3. \A x \in Shifted(K, s) : \E k \in K : f[k] = x
    BY DEF Shifted
  <2> QED
    BY <2>1, <2>2, <2>3 DEF Bijection, Injection, Surjection, IsInjective
<1>2. ExistsBijection(K, Shifted(K, s))
  BY <1>1 DEF ExistsBijection
<1> QED
  BY <1>2, FS_Bijection

(* The ring holds the calls that are left, in order.                          *)
LEMMA RingIsKept ==
    ASSUME PoolCallsInv, TraceInv
    PROVE  /\ Shift \in Nat /\ IsFiniteSet(DOMAIN traces) /\ DOMAIN traces \in SUBSET Nat
           /\ \A k \in DOMAIN traces : k \in Nat /\ traces[k] = TraceOf(Shift + k)
           /\ Kept = Shifted(DOMAIN traces, Shift)
           /\ \A tasks : KeptOf(tasks) = Shifted(Own(tasks), Shift)
<1>1. PICK n \in Nat : n = Len(finished)
  BY DEF PoolCallsInv, PoolTypeOK
<1>2. PICK m \in Nat : m = Len(traces)
  BY DEF PoolCallsInv, PoolTypeOK
<1>3. traces \in Seq([id : Nat, task : ModelTasks, ok : BOOLEAN]) /\ cleared \in Nat /\ MaxTraces \in Nat \ {0}
  BY ModelPoolAssumption DEF PoolCallsInv, PoolTypeOK
<1>4. DOMAIN traces = 1..m /\ IsFiniteSet(DOMAIN traces)
  BY <1>2, <1>3, PlacesFinite
<1>5. cleared <= n /\ m = IF MaxTraces < n - cleared THEN MaxTraces ELSE n - cleared
  BY <1>1, <1>2 DEF TraceInv, LeastOf
<1>6. Shift = n - m /\ Shift \in Nat /\ n = Shift + m
  BY <1>1, <1>2, <1>3, <1>5 DEF Shift
<1>7. Kept = (Shift + 1)..n
  <2>1. Kept = {k \in (cleared + 1)..n : k > n - MaxTraces}
    BY <1>1 DEF Kept
  <2> QED
    BY <1>3, <1>5, <1>6, <2>1
<1>8. Kept = Shifted(DOMAIN traces, Shift)
  <2>1. ASSUME NEW k \in (Shift + 1)..n
        PROVE  k - Shift \in 1..m /\ k = Shift + (k - Shift)
    BY <1>6
  <2>2. ASSUME NEW k \in 1..m
        PROVE  Shift + k \in (Shift + 1)..n
    BY <1>6
  <2> QED
    BY <1>4, <1>7, <2>1, <2>2 DEF Shifted
<1>9. \A k \in DOMAIN traces : k \in Nat /\ traces[k] = TraceOf(Shift + k)
  BY <1>4 DEF TraceInv
<1>10. ASSUME NEW tasks
       PROVE  KeptOf(tasks) = Shifted(Own(tasks), Shift)
  <2>1. \A k \in DOMAIN traces : finished[Shift + k].task = traces[k].task
    BY <1>9 DEF TraceOf
  <2> QED
    BY <1>8, <2>1 DEF KeptOf, Own, Shifted
<1> QED
  BY <1>4, <1>6, <1>8, <1>9, <1>10

LEMMA ListedIsNewest ==
    ASSUME PoolCallsInv, TraceInv, NEW tasks, NEW limit \in Nat
    PROVE  ShowsNewest(Listed(tasks, limit), KeptOf(tasks), limit)
<1> DEFINE list == Listed(tasks, limit)
           Newer(k) == {j \in KeptOf(tasks) : j > k}
<1>1. PICK own : own = Own(tasks)
  OBVIOUS
<1>2. PICK f : f = Ranked(own, Descending(own))
  OBVIOUS
<1>3. PICK N : N = Cardinality(own)
  OBVIOUS
<1>4. PICK s \in Nat : s = Shift
  BY RingIsKept
<1>5. own \in SUBSET DOMAIN traces /\ own \in SUBSET Nat /\ IsFiniteSet(own)
  BY <1>1, RingIsKept, FS_Subset DEF Own
<1>6. Lists(f, own, Descending(own))
  BY <1>2, <1>5, Orders, RankedLists
<1>7. /\ N \in Nat /\ f \in [1..N -> own]
      /\ \A a, b \in 1..N : a < b => f[a] > f[b]
      /\ \A k \in own : \E r \in 1..N : f[r] = k
      /\ \A r \in 1..N : Cardinality(Before(own, Descending(own), f[r])) = r - 1
  BY <1>3, <1>6 DEF Lists, Descending
<1>8. list = [r \in 1..LeastOf(limit, N) |-> traces[f[r]]]
  BY <1>1, <1>2, <1>3 DEF Listed, Own
<1>9. PICK M \in Nat : M = LeastOf(limit, N) /\ M <= N /\ M <= limit /\ (M = limit \/ M = N)
  BY <1>7 DEF LeastOf
<1>10. DOMAIN list = 1..M /\ \A r \in 1..M : list[r] = TraceOf(s + f[r]) /\ r \in 1..N /\ f[r] \in own
  <2>1. DOMAIN list = 1..M /\ \A r \in 1..M : list[r] = traces[f[r]]
    BY <1>8, <1>9
  <2>2. \A r \in 1..M : r \in 1..N /\ f[r] \in own
    BY <1>7, <1>9
  <2> HIDE DEF list
  <2> QED
    BY <1>4, <1>5, <2>1, <2>2, RingIsKept
<1>11. \A r \in 1..M : list[r].id = s + f[r] /\ list[r].ok = finished[s + f[r]].ok
  <2> HIDE DEF list
  <2> QED
    BY <1>10 DEF TraceOf
<1>12. KeptOf(tasks) = {s + k : k \in own}
  BY <1>1, <1>4, RingIsKept DEF Shifted
<1>13. ASSUME NEW r \in 1..N
       PROVE  Cardinality(Newer(s + f[r])) = r - 1
  <2>1. PICK later : later = Before(own, Descending(own), f[r])
    OBVIOUS
  <2>2. f[r] \in own
    BY <1>7
  <2>3. later = {j \in own : j > f[r]}
    BY <2>1, <2>2 DEF Before, Descending
  <2>4. Newer(s + f[r]) = Shifted(later, s)
    BY <1>5, <1>12, <2>2, <2>3 DEF Shifted
  <2>5. later \in SUBSET Nat /\ IsFiniteSet(later)
    BY <1>5, <2>3, FS_Subset
  <2> HIDE DEF Newer
  <2> QED
    BY <1>7, <2>1, <2>4, <2>5, ShiftedSize
<1> HIDE DEF list, Newer
<1>14. ASSUME NEW x
       PROVE  x \in {list[k].id : k \in DOMAIN list} <=>
                  x \in KeptOf(tasks) /\ Cardinality(Newer(x)) < limit
  <2>1. ASSUME NEW r \in 1..M, x = list[r].id
        PROVE  x \in KeptOf(tasks) /\ Cardinality(Newer(x)) < limit
    <3>1. x = s + f[r] /\ r \in 1..N /\ f[r] \in own
      BY <1>10, <1>11, <2>1
    <3>2. Cardinality(Newer(x)) = r - 1
      BY <1>13, <3>1
    <3>3. r - 1 < limit
      BY <1>9
    <3> QED
      BY <1>12, <3>1, <3>2, <3>3
  <2>2. ASSUME x \in KeptOf(tasks), Cardinality(Newer(x)) < limit
        PROVE  \E r \in 1..M : x = list[r].id
    <3>1. PICK k \in own : x = s + k
      BY <1>12, <2>2
    <3>2. PICK r \in 1..N : f[r] = k
      BY <1>7
    <3>3. r - 1 < limit
      BY <1>13, <2>2, <3>1, <3>2
    <3>4. r \in 1..M
      BY <1>7, <1>9, <3>3
    <3> QED
      BY <1>11, <3>1, <3>2, <3>4
  <2> QED
    BY <1>10, <2>1, <2>2
<1>15. ASSUME NEW k \in DOMAIN list
       PROVE  list[k].ok = finished[list[k].id].ok /\ (k > 1 => list[k].id < list[k - 1].id)
  <2>1. k \in 1..M
    BY <1>10
  <2>2. ASSUME k > 1
        PROVE  list[k].id < list[k - 1].id
    <3>1. k - 1 \in 1..M /\ k - 1 < k
      BY <2>1, <2>2
    <3>2. f[k] \in Nat /\ f[k - 1] \in Nat /\ f[k - 1] > f[k]
      BY <1>5, <1>7, <1>10, <2>1, <3>1
    <3> QED
      BY <1>11, <2>1, <3>1, <3>2
  <2> QED
    BY <1>11, <2>1, <2>2
<1> QED
  BY <1>14, <1>15 DEF list, Newer, ShowsNewest


LEMMA SummaryCounts ==
    ASSUME PoolCallsInv, TraceInv, NEW tasks
    PROVE  Tally(tasks) = [count |-> Cardinality(KeptOf(tasks)),
                           errors |-> Cardinality({k \in KeptOf(tasks) : ~finished[k].ok})]
<1>1. PICK own : own = Own(tasks)
  OBVIOUS
<1>2. PICK bad : bad = {k \in own : ~traces[k].ok}
  OBVIOUS
<1>3. /\ own \in SUBSET Nat /\ IsFiniteSet(own)
      /\ bad \in SUBSET Nat /\ IsFiniteSet(bad) /\ bad \in SUBSET own
      /\ own \in SUBSET DOMAIN traces
  BY <1>1, <1>2, RingIsKept, FS_Subset DEF Own
<1>4. Tally(tasks) = [count |-> Cardinality(own), errors |-> Cardinality(bad)]
  BY <1>1, <1>2 DEF Tally, Own
<1>5. Shift \in Nat /\ KeptOf(tasks) = Shifted(own, Shift)
  BY <1>1, RingIsKept
<1>6. {k \in KeptOf(tasks) : ~finished[k].ok} = Shifted(bad, Shift)
  <2>1. \A k \in own : traces[k].ok = finished[Shift + k].ok
    BY <1>3, RingIsKept DEF TraceOf
  <2> QED
    BY <1>2, <1>5, <2>1 DEF Shifted
<1> QED
  BY <1>3, <1>4, <1>5, <1>6, ShiftedSize

PoolInv == PoolCountsInv /\ TraceInv

LEMMA TracesAreSound == PoolInv => TracesAreNewest
<1> SUFFICES ASSUME PoolInv PROVE TracesAreNewest
  OBVIOUS
<1> USE DEF PoolInv, PoolCountsInv
<1>1. KeptOf(ModelTasks) = Kept
  <2>1. \A k \in DOMAIN traces : finished[Shift + k].task = traces[k].task /\ traces[k].task \in ModelTasks
    BY RingIsKept DEF TraceOf, PoolCallsInv, PoolTypeOK
  <2> QED
    BY <2>1, RingIsKept DEF KeptOf, Kept, Shifted
<1>2. /\ {traces[k].task : k \in DOMAIN traces} = {finished[k].task : k \in Kept}
      /\ {Route[traces[k].task] : k \in DOMAIN traces} = {Route[finished[k].task] : k \in Kept}
  <2>1. \A k \in DOMAIN traces : finished[Shift + k].task = traces[k].task
    BY RingIsKept DEF TraceOf
  <2> QED
    BY <2>1, RingIsKept DEF Shifted
<1>3. Summary = [total |-> Tally(ModelTasks),
                 by_model |-> [p \in {Route[finished[k].task] : k \in Kept} |-> Tally(TasksOf(p))],
                 by_task |-> [t \in {finished[k].task : k \in Kept} |-> Tally({t})]]
  BY <1>2 DEF Summary
<1>4. ASSUME NEW tasks, NEW limit \in 1..MaxTraces
      PROVE  ShowsNewest(Listed(tasks, limit), KeptOf(tasks), limit)
  <2>1. limit \in Nat
    BY ModelPoolAssumption
  <2> QED
    BY <2>1, ListedIsNewest
<1>5. \A tasks : Tally(tasks) = [count |-> Cardinality(KeptOf(tasks)),
                                 errors |-> Cardinality({k \in KeptOf(tasks) : ~finished[k].ok})]
  BY SummaryCounts
<1> HIDE DEF PoolInv, PoolCountsInv
<1>6. \A tasks : KeptOf(tasks) = {k \in Kept : finished[k].task \in tasks}
  BY DEF KeptOf
<1>7. KeptOf(ModelTasks) = Kept /\ Summary.total = Tally(ModelTasks)
  BY <1>1, <1>3
<1> DEFINE n == Len(finished)
             kept == {k \in (cleared + 1)..n : k > n - MaxTraces}
             Of(tasks) == {k \in kept : finished[k].task \in tasks}
             used == {Route[finished[k].task] : k \in kept}
             Ended(tasks) == [count |-> Cardinality(Of(tasks)),
                              errors |-> Cardinality({k \in Of(tasks) : ~finished[k].ok})]
<1>9. kept = Kept /\ \A tasks : Of(tasks) = KeptOf(tasks)
  BY <1>6 DEF Kept
<1> HIDE DEF kept
<1>10. \A tasks : Ended(tasks) = Tally(tasks)
  BY <1>5, <1>9
<1>11. used = {Route[finished[k].task] : k \in Kept}
  BY <1>9
<1> HIDE DEF Ended, used
<1>12. Summary = [total |-> Ended(ModelTasks),
                  by_model |-> [p \in used |-> Ended(TasksOf(p))],
                  by_task |-> [t \in {finished[k].task : k \in kept} |-> Ended({t})]]
  BY <1>3, <1>9, <1>10, <1>11
<1>13. ASSUME NEW tasks, NEW limit \in 1..MaxTraces
       PROVE  ShowsNewest(Listed(tasks, limit), Of(tasks), limit)
  <2>1. Of(tasks) = KeptOf(tasks)
    BY <1>9
  <2> HIDE DEF Of
  <2> QED
    BY <1>4, <2>1
<1> QED
  BY <1>12, <1>13 DEF TracesAreNewest, Ended, used, kept

LEMMA PoolIsSound == PoolInv => PoolTypeOK /\ PoolIsFaithful
<1> SUFFICES ASSUME PoolInv PROVE PoolTypeOK /\ PoolIsFaithful
  OBVIOUS
<1>1. PoolTypeOK /\ BatchAligned
  BY DEF PoolInv, PoolCountsInv, PoolCallsInv, CallsInv, Progress, BatchAligned, Upto
<1>2. ErrorsAreFailures
  <2>1. \A p \in Providers : Counted(p)
    BY DEF PoolInv, PoolCountsInv, CountsInv
  <2> QED
    BY <2>1 DEF ErrorsAreFailures, Counted, FailedCalls, Underway, FailingNow, Reached
<1> QED
  BY <1>1, <1>2, TracesAreSound DEF PoolIsFaithful

LEMMA PoolInvInit == Init => PoolInv
<1> SUFFICES ASSUME Init PROVE PoolInv
  OBVIOUS
<1>0. PoolInit
  BY DEF Init
<1>1. <<>> \in Seq([id : Nat, task : ModelTasks, ok : BOOLEAN])
  OBVIOUS
<1>2. <<>> \in Seq([task : ModelTasks, ok : BOOLEAN])
  OBVIOUS
<1>3. MaxTraces \in Nat \ {0}
  BY ModelPoolAssumption
<1>4. PoolTypeOK
  BY <1>0, <1>1, <1>2, <1>3 DEF PoolInit, PoolTypeOK, CallType, Unused
<1>5. CallsInv
  BY <1>0 DEF PoolInit, CallsInv, Progress, NoCall
<1>6. CountsInv
  <2>1. \A p : Underway(p) = {} /\ FailingNow(p) = {} /\ FailedCalls(p) = {}
    BY <1>0 DEF PoolInit, Underway, FailingNow, FailedCalls, Reached
  <2>2. IsFiniteSet({}) /\ Cardinality({}) = 0
    BY FS_EmptySet
  <2>3. ASSUME NEW p \in Providers
        PROVE  errors[p] = 0 /\ requests[p] = 0
    BY <1>0 DEF PoolInit, Unused
  <2> QED
    BY <2>1, <2>2, <2>3 DEF CountsInv, Counted
<1>7. TraceInv
  <2>1. LeastOf(MaxTraces, 0 - 0) = 0
    BY <1>3 DEF LeastOf
  <2> QED
    BY <1>0, <2>1 DEF PoolInit, TraceInv
<1> QED
  BY <1>4, <1>5, <1>6, <1>7 DEF PoolInv, PoolCountsInv, PoolCallsInv

LEMMA PoolInvStep == PoolInv /\ [Next]_vars => PoolInv'
BY NextMovesPool, PoolInductive, CountsInductive, TracesInductive DEF PoolInv, PoolCountsInv

(* Vectors stay beside their texts, and the counters and the traces say what    *)
(* happened, for any number of callers, whatever the service answers, and at     *)
(* any size of the ring and of a batch.                                       *)
THEOREM PoolFaithful == Spec => [](PoolTypeOK /\ PoolIsFaithful)
BY PoolInvInit, PoolInvStep, PoolIsSound, PTL DEF Spec


-----------------------------------------------------------------------------
(* Profiles and their edits                                                  *)

Sound(c) == c \in Config /\ \A b \in Range(c.blocks) : KeptOrSentApart(b)
BlocksOf(c, id) == {b \in Range(c.blocks) : b.id = id}

(* What an edit's copy has of the row it was made of.                         *)
Local(x, old) ==
    old # NoRow =>
        /\ x.row[1] = "persona" => \A f \in Fields \ x.names : x.new[f] = old[f]
        /\ x.row[1] = "config" => \A id \in BlockIds \ x.names : BlocksOf(x.new, id) = BlocksOf(old, id)

EditIs(x) ==
    /\ DOMAIN x = {"row", "new", "names", "stale"}
    /\ x.row \in Rows /\ x.stale \in BOOLEAN
    /\ x.row[1] = "persona" => x.new \in Persona
    /\ x.row[1] = "config" => Sound(x.new)

EditInv(x, old) == EditIs(x) /\ (~x.stale => Local(x, old))

RowIn(p, c, row) == IF row[1] = "persona" THEN p[row[2]] ELSE c[row[2]]

(* An edit was not overtaken, or it says so.                                  *)
ProfilesInv ==
    /\ ProfilesTypeOK /\ ContentIsActive
    /\ edit = [e \in Editors |-> edit[e]] /\ configs = [a \in Agents |-> configs[a]]
    /\ \A e \in Editors : edit[e] # NoEdit => EditInv(edit[e], RowIn(personas, configs, edit[e].row))

LEMMA PositionIs ==
    ASSUME NEW c \in Config, NEW id \in Ids(c)
    PROVE  /\ Position(c, id) \in DOMAIN c.blocks
           /\ c.blocks[Position(c, id)].id = id
<1>1. c.blocks \in Seq(Block)
  BY DEF Config
<1>2. PICK n \in Nat : n = Len(c.blocks) /\ DOMAIN c.blocks = 1..n
  BY <1>1
<1> DEFINE T == {k \in 1..n : c.blocks[k].id = id}
<1>3. T # {} /\ T \in SUBSET (0..n)
  BY <1>2 DEF Ids, Range
<1>4. PICK k \in T : \A m \in T : k <= m
  <2> HIDE DEF T
  <2> QED
    BY <1>3, Least
<1>5. k \in 1..n /\ c.blocks[k].id = id /\ \A j \in 1..(k - 1) : c.blocks[j].id # id
  <2>1. ASSUME NEW j \in 1..(k - 1)
        PROVE  c.blocks[j].id # id
    <3>1. k \in 1..n /\ j \in 1..n /\ ~(k <= j)
      OBVIOUS
    <3> QED
      BY <1>4, <3>1
  <2> QED
    BY <2>1
<1>6. \E j \in DOMAIN c.blocks :
         c.blocks[j].id = id /\ \A i \in 1..(j - 1) : c.blocks[i].id # id
  BY <1>2, <1>5
<1> QED
  BY <1>6 DEF Position

(* Changing one block leaves the others.                                      *)
Replaced(c, k, b) == [c EXCEPT !.blocks[k] = b]

LEMMA BlockReplaced ==
    ASSUME NEW c, Sound(c), NEW k \in DOMAIN c.blocks, NEW b \in Block, KeptOrSentApart(b),
           b.id = c.blocks[k].id
    PROVE  /\ Sound(Replaced(c, k, b))
           /\ \A id : id # b.id => BlocksOf(Replaced(c, k, b), id) = BlocksOf(c, id)
<1>1. c \in Config /\ c.blocks \in Seq(Block)
  BY DEF Sound, Config
<1>2. PICK s : s = [c.blocks EXCEPT ![k] = b]
  OBVIOUS
<1>3. PICK d : d = [c EXCEPT !.blocks[k] = b] /\ d = Replaced(c, k, b)
  BY DEF Replaced
<1>4. s \in Seq(Block) /\ DOMAIN s = DOMAIN c.blocks
      /\ \A j \in DOMAIN s : s[j] = IF j = k THEN b ELSE c.blocks[j]
  BY <1>1, <1>2
<1>5. d \in Config /\ d.blocks = s
  BY <1>1, <1>2, <1>3, <1>4 DEF Config
<1>6. \A x \in Range(s) : KeptOrSentApart(x)
  BY <1>4 DEF Range, Sound
<1>7. ASSUME NEW id, id # b.id
      PROVE  BlocksOf(d, id) = BlocksOf(c, id)
  BY <1>4, <1>5, <1>7 DEF BlocksOf, Range
<1> QED
  BY <1>3, <1>5, <1>6, <1>7 DEF Sound

LEMMA BlocksChanged ==
    ASSUME NEW c, Sound(c), NEW s \in Seq(Block), \A b \in Range(s) : KeptOrSentApart(b)
    PROVE  Sound(WithBlocks(c, s)) /\ WithBlocks(c, s).blocks = s
<1>1. PICK d : d = WithBlocks(c, s)
  OBVIOUS
<1>2. d \in Config /\ d.blocks = s
  BY <1>1 DEF WithBlocks, Sound, Config
<1> QED
  BY <1>1, <1>2 DEF Sound

(* Whether a block is sent as it is shown does not depend on its name or order.    *)
LEMMA KeptSame ==
    ASSUME NEW b, KeptOrSentApart(b), NEW d, d.variants = b.variants, d.selected = b.selected,
           d.content = b.content
    PROVE  KeptOrSentApart(d)
BY DEF KeptOrSentApart, Consistent

LEMMA PrefixGrows ==
    ASSUME NEW S, NEW s \in Seq(S), NEW t \in Seq(S), IsPrefix(s, t), NEW x \in S
    PROVE  IsPrefix(s, s) /\ IsPrefix(s, Append(t, x))
<1>1. /\ Append(t, x) \in Seq(S) /\ Len(Append(t, x)) = Len(t) + 1
      /\ \A k \in 1..Len(t) : Append(t, x)[k] = t[k]
      /\ Len(s) \in Nat /\ Len(t) \in Nat
  OBVIOUS
<1>2. PICK u \in Seq(S) : u = Append(t, x)
  BY <1>1, Zenon
<1>3. Len(s) <= Len(t) /\ SubSeq(s, 1, Len(s)) = SubSeq(t, 1, Len(s))
  BY DEF IsPrefix
<1>4. SubSeq(u, 1, Len(s)) = SubSeq(t, 1, Len(s))
  BY <1>1, <1>2, <1>3
<1>5. Len(s) <= Len(u)
  BY <1>1, <1>2, <1>3
<1>6. IsPrefix(s, s) /\ IsPrefix(s, u)
  BY <1>1, <1>3, <1>4, <1>5 DEF IsPrefix
<1> QED
  BY <1>2, <1>6

LEMMA ConfigsAreConfigs == \A r \in Requests : ConfigOf(r) \in Config
BY ProfilesAssumption

LEMMA BlocksOfRequests ==
    ASSUME NEW r \in Requests, NEW b \in Range(ConfigOf(r).blocks)
    PROVE  b \in Block
<1>1. PICK s \in Seq(Block) : s = ConfigOf(r).blocks
  BY ConfigsAreConfigs DEF Config
<1>2. PICK k \in DOMAIN s : b = s[k]
  BY <1>1 DEF Range
<1> QED
  BY <1>1, <1>2

LEMMA SentApartAre == \A s \in SentApart : s \in Block
<1> SUFFICES ASSUME NEW s \in SentApart PROVE s \in Block
  OBVIOUS
<1>1. s \in Inputs \/ \E r \in Requests : s \in Range(ConfigOf(r).blocks)
  BY DEF SentApart
<1> QED
  BY <1>1, BlocksOfRequests, ProfilesAssumption

LEMMA SentOrApart ==
    ASSUME NEW b \in Block, b \in Inputs \/ \E r \in Requests : b \in Range(ConfigOf(r).blocks)
    PROVE  KeptOrSentApart(b)
<1>1. b \in SentApart \/ Consistent(b)
  <2>1. b \in Inputs \cup UNION {Range(ConfigOf(r).blocks) : r \in Requests}
    OBVIOUS
  <2> QED
    BY <2>1 DEF SentApart
<1>2. PICK v \in Seq(Contents) : v = b.variants
  BY DEF Block
<1>3. IsPrefix(v, v)
  BY <1>2 DEF IsPrefix
<1> QED
  BY <1>1, <1>2, <1>3 DEF KeptOrSentApart

LEMMA InputsAre == \A b \in Inputs : b \in Block /\ KeptOrSentApart(b) /\ b.id \in BlockIds
<1> SUFFICES ASSUME NEW b \in Inputs PROVE b \in Block /\ KeptOrSentApart(b) /\ b.id \in BlockIds
  OBVIOUS
<1>1. b \in Block
  BY ProfilesAssumption
<1> QED
  BY <1>1, SentOrApart DEF Block

LEMMA ConfigsAre == \A r \in Requests : Sound(ConfigOf(r))
BY ConfigsAreConfigs, BlocksOfRequests, SentOrApart DEF Sound


LEMMA EditMade ==
    ASSUME ProfilesInv, NEW e \in Editors, NEW row, NEW new, NEW names,
           Edits(e, row, new, names),
           EditInv([row |-> row, new |-> new, names |-> names, stale |-> FALSE], RowIn(personas, configs, row))
    PROVE  ProfilesInv'
<1>1. PICK x : x = [row |-> row, new |-> new, names |-> names, stale |-> FALSE]
  OBVIOUS
<1>2. /\ edit' = [edit EXCEPT ![e] = x]
      /\ UNCHANGED <<personas, configs, warehouse>>
  BY <1>1 DEF Edits
<1>3. /\ edit' = [d \in Editors |-> edit'[d]] /\ configs' = [a \in Agents |-> configs'[a]]
      /\ \A d \in Editors : edit'[d] = IF d = e THEN x ELSE edit[d]
  BY <1>2 DEF ProfilesInv
<1>5. ContentIsActive'
  BY <1>2 DEF ProfilesInv, ContentIsActive
<1>6. EditInv(x, RowIn(personas, configs, row)) /\ EditIs(x) /\ x.row = row
  BY <1>1 DEF EditInv
<1>7. x.row \in Rows /\ x.stale \in BOOLEAN /\ x.new \in IF x.row[1] = "persona" THEN Persona ELSE Config
  <2>1. x.row[1] = "persona" \/ x.row[1] = "config"
    BY <1>6 DEF EditIs, Rows
  <2> QED
    BY <1>6, <2>1 DEF EditIs, Sound
<1>8. ProfilesTypeOK'
  BY <1>2, <1>3, <1>7 DEF ProfilesInv, ProfilesTypeOK
<1>9. \A d \in Editors : edit'[d] # NoEdit => EditInv(edit'[d], RowIn(personas', configs', edit'[d].row))
  BY <1>2, <1>3, <1>6 DEF ProfilesInv
<1> QED
  BY <1>3, <1>5, <1>8, <1>9 DEF ProfilesInv

(* Writing a row makes stale what others made of it.                          *)
LEMMA RowWritten ==
    ASSUME ProfilesInv, NEW e \in Editors, NEW row \in Rows, NEW value,
           row[1] = "persona" => value \in Persona \cup {NoRow},
           row[1] = "config" => Sound(value),
           Writes(e, row, value, NoEdit)
    PROVE  ProfilesInv'
<1>1. PICK k \in {"persona", "config"}, a \in Agents : row = <<k, a>>
  BY DEF Rows
<1>2. /\ edit' = EditAfterWrite(row, e, NoEdit) /\ warehouse' = warehouse
      /\ personas' = IF k = "persona" THEN [personas EXCEPT ![a] = value] ELSE personas
      /\ configs' = IF k = "config" THEN [configs EXCEPT ![a] = value] ELSE configs
  BY <1>1 DEF Writes
<1>3. /\ edit' = [d \in Editors |-> edit'[d]]
      /\ \A d \in Editors : edit'[d] =
            IF d = e THEN NoEdit
            ELSE IF edit[d] # NoEdit /\ edit[d].row = row THEN [edit[d] EXCEPT !.stale = TRUE]
            ELSE edit[d]
  BY <1>2 DEF EditAfterWrite
<1>c. configs' = [b \in Agents |-> configs'[b]]
  BY <1>1, <1>2 DEF ProfilesInv
<1>4. personas' \in [Agents -> Persona \cup {NoRow}]
  BY <1>1, <1>2 DEF ProfilesInv, ProfilesTypeOK
<1>5. \A b \in Agents : configs'[b] = configs[b] \/ Sound(configs'[b])
  BY <1>1, <1>2 DEF ProfilesInv
<1>6. ContentIsActive'
  <2>1. \A b \in Agents : configs'[b] # NoRow => \A x \in Range(configs'[b].blocks) : KeptOrSentApart(x)
    BY <1>5 DEF ProfilesInv, ContentIsActive, Sound
  <2>2. warehouse # NoRow => \A x \in Range(warehouse) : KeptOrSentApart(x)
    BY DEF ProfilesInv, ContentIsActive
  <2> QED
    BY <1>2, <2>1, <2>2 DEF ContentIsActive, KeptOrSentApart, Consistent, SentApart
<1>7. ASSUME NEW d \in Editors, edit'[d] # NoEdit
      PROVE  EditIs(edit'[d]) /\ (~edit'[d].stale => Local(edit'[d], RowIn(personas', configs', edit'[d].row)))
  <2>1. d # e /\ edit[d] # NoEdit /\ EditIs(edit[d]) /\ (~edit[d].stale => Local(edit[d], RowIn(personas, configs, edit[d].row)))
    BY <1>3, <1>7 DEF ProfilesInv, EditInv
  <2>2. CASE edit[d].row = row
    <3>1. edit'[d] = [edit[d] EXCEPT !.stale = TRUE]
      BY <1>3, <2>1, <2>2
    <3>2. /\ DOMAIN edit'[d] = DOMAIN edit[d] /\ edit'[d].stale = TRUE
          /\ edit'[d].row = edit[d].row /\ edit'[d].new = edit[d].new
      BY <2>1, <3>1 DEF EditIs
    <3> QED
      BY <2>1, <3>2 DEF EditIs
  <2>3. CASE edit[d].row # row
    <3>1. edit'[d] = edit[d]
      BY <1>3, <2>1, <2>3
    <3>2. RowIn(personas', configs', edit[d].row) = RowIn(personas, configs, edit[d].row)
      <4>1. PICK j \in {"persona", "config"}, b \in Agents : edit[d].row = <<j, b>>
        BY <2>1 DEF EditIs, Rows
      <4> QED
        BY <1>1, <1>2, <2>3, <4>1 DEF RowIn, ProfilesInv, ProfilesTypeOK
    <3> QED
      BY <2>1, <3>1, <3>2
  <2> QED
    BY <2>2, <2>3
<1>8. ASSUME NEW d \in Editors
      PROVE  \/ edit'[d] = NoEdit
             \/ /\ edit'[d].row \in Rows /\ edit'[d].stale \in BOOLEAN
                /\ edit'[d].new \in IF edit'[d].row[1] = "persona" THEN Persona ELSE Config
  <2>1. CASE edit'[d] # NoEdit
    <3>1. edit'[d].row[1] = "persona" \/ edit'[d].row[1] = "config"
      BY <1>7, <2>1 DEF EditIs, Rows
    <3> QED
      BY <1>7, <2>1, <3>1 DEF EditIs, Sound
  <2> QED
    BY <2>1
<1>9. \A b \in Agents : configs'[b] = NoRow \/ configs'[b] \in Config
  BY <1>5 DEF ProfilesInv, ProfilesTypeOK, Sound
<1>10. ProfilesTypeOK'
  BY <1>2, <1>4, <1>8, <1>9 DEF ProfilesInv, ProfilesTypeOK
<1>11. \A d \in Editors : edit'[d] # NoEdit => EditInv(edit'[d], RowIn(personas', configs', edit'[d].row))
  BY <1>7 DEF EditInv
<1> QED
  BY <1>3, <1>6, <1>10, <1>11, <1>c DEF ProfilesInv


LEMMA ConfigEdited ==
    ASSUME ProfilesInv, NEW e \in Editors, NEW a \in Agents, NEW new, NEW names, Sound(new),
           \A id \in BlockIds \ names : BlocksOf(new, id) = BlocksOf(configs[a], id),
           Edits(e, <<"config", a>>, new, names)
    PROVE  ProfilesInv'
<1>1. PICK x : x = [row |-> <<"config", a>>, new |-> new, names |-> names, stale |-> FALSE]
  OBVIOUS
<1>2. x.row = <<"config", a>> /\ x.new = new /\ x.names = names /\ x.stale = FALSE
      /\ DOMAIN x = {"row", "new", "names", "stale"}
  BY <1>1
<1>3. x.row \in Rows /\ x.row[1] = "config" /\ x.row[2] = a
  BY <1>2 DEF Rows
<1>4. EditIs(x)
  BY <1>2, <1>3 DEF EditIs
<1>5. RowIn(personas, configs, <<"config", a>>) = configs[a]
  BY DEF RowIn
<1>6. Local(x, RowIn(personas, configs, <<"config", a>>))
  BY <1>2, <1>3, <1>5 DEF Local
<1> QED
  BY <1>1, <1>4, <1>6, EditMade DEF EditInv

LEMMA PersonaEdited ==
    ASSUME ProfilesInv, NEW e \in Editors, NEW a \in Agents, NEW new \in Persona, NEW names,
           personas[a] # NoRow => \A f \in Fields \ names : new[f] = personas[a][f],
           Edits(e, <<"persona", a>>, new, names)
    PROVE  ProfilesInv'
<1>1. PICK x : x = [row |-> <<"persona", a>>, new |-> new, names |-> names, stale |-> FALSE]
  OBVIOUS
<1>2. x.row = <<"persona", a>> /\ x.new = new /\ x.names = names /\ x.stale = FALSE
      /\ DOMAIN x = {"row", "new", "names", "stale"}
  BY <1>1
<1>3. x.row \in Rows /\ x.row[1] = "persona" /\ x.row[2] = a
  BY <1>2 DEF Rows
<1>4. EditIs(x)
  BY <1>2, <1>3 DEF EditIs
<1>5. RowIn(personas, configs, <<"persona", a>>) = personas[a]
  BY DEF RowIn
<1>6. Local(x, RowIn(personas, configs, <<"persona", a>>))
  BY <1>2, <1>3, <1>5 DEF Local
<1> QED
  BY <1>1, <1>4, <1>6, EditMade DEF EditInv

LEMMA AgentEdits ==
    ASSUME ProfilesInv, NEW e \in Editors, NEW a \in Agents, EditAgent(e, a)
    PROVE  ProfilesInv'
<1>1. CASE CreateAgent(e, a)
  <2>1. PICK v \in Values : /\ personas[a] = NoRow
                            /\ Edits(e, <<"persona", a>>, [f \in Fields |-> IF f = "name" THEN v ELSE Blank], Fields)
    BY <1>1 DEF CreateAgent
  <2>2. [f \in Fields |-> IF f = "name" THEN v ELSE Blank] \in Persona
    BY ProfilesAssumption DEF Persona
  <2> QED
    BY <2>1, <2>2, PersonaEdited
<1>2. CASE UpdateAgent(e, a)
  <2>0. PICK fields \in SUBSET Fields : \E patch \in [fields -> Values] :
               personas[a] # NoRow /\ Edits(e, <<"persona", a>>, Patched(personas[a], patch), fields)
    BY <1>2 DEF UpdateAgent
  <2>1. PICK patch \in [fields -> Values] :
               personas[a] # NoRow /\ Edits(e, <<"persona", a>>, Patched(personas[a], patch), fields)
    BY <2>0
  <2>2. PICK p \in Persona : p = personas[a]
    BY <2>1 DEF ProfilesInv, ProfilesTypeOK
  <2>3. Patched(p, patch) \in Persona /\ \A f \in Fields \ fields : Patched(p, patch)[f] = p[f]
    BY <2>1, <2>2 DEF Patched, Persona
  <2> QED
    BY <2>1, <2>2, <2>3, PersonaEdited
<1>3. CASE DeleteAgent(e, a)
  <2>1. <<"persona", a>> \in Rows /\ Writes(e, <<"persona", a>>, NoRow, NoEdit)
    BY <1>3 DEF DeleteAgent, Erases, Rows
  <2>2. <<"persona", a>>[1] = "persona"
    OBVIOUS
  <2> QED
    BY <2>1, <2>2, RowWritten
<1> QED
  BY <1>1, <1>2, <1>3 DEF EditAgent

LEMMA StoredConfig ==
    ASSUME ProfilesInv, NEW a \in Agents, configs[a] # NoRow
    PROVE  Sound(configs[a]) /\ configs[a].blocks \in Seq(Block) /\ configs[a].mode \in PromptModes
BY DEF ProfilesInv, ProfilesTypeOK, ContentIsActive, Sound, Config

LEMMA BlockEdited ==
    ASSUME ProfilesInv, NEW e \in Editors, NEW a \in Agents, configs[a] # NoRow,
           NEW id \in Ids(configs[a]), NEW b \in Block, KeptOrSentApart(b), b.id = id,
           Edits(e, <<"config", a>>, [configs[a] EXCEPT !.blocks[Position(configs[a], id)] = b], {id})
    PROVE  ProfilesInv'
<1>1. PICK c : c = configs[a]
  OBVIOUS
<1>2. Sound(c) /\ c \in Config
  BY <1>1, StoredConfig DEF Sound
<1>3. PICK k \in DOMAIN c.blocks : k = Position(c, id) /\ c.blocks[k].id = id
  BY <1>1, <1>2, PositionIs
<1>4. PICK d : d = [c EXCEPT !.blocks[k] = b] /\ d = Replaced(c, k, b)
  BY DEF Replaced
<1>5. Sound(d) /\ \A i : i # id => BlocksOf(d, i) = BlocksOf(c, i)
  BY <1>2, <1>3, <1>4, BlockReplaced
<1> QED
  BY <1>1, <1>3, <1>4, <1>5, ConfigEdited


LEMMA BlockAdded ==
    ASSUME ProfilesInv, NEW e \in Editors, NEW a \in Agents, AddBlock(e, a)
    PROVE  ProfilesInv'
<1>1. PICK b \in Inputs : /\ configs[a] # NoRow
                          /\ Edits(e, <<"config", a>>, WithBlocks(configs[a], Append(configs[a].blocks, b)), {b.id})
  BY DEF AddBlock
<1>2. PICK c : c = configs[a]
  OBVIOUS
<1>3. PICK s : s = Append(c.blocks, b)
  OBVIOUS
<1>4. Sound(c) /\ c.blocks \in Seq(Block) /\ b \in Block /\ KeptOrSentApart(b)
  BY <1>1, <1>2, StoredConfig, InputsAre
<1>5. s \in Seq(Block) /\ Range(s) = Range(c.blocks) \cup {b}
  <2>1. /\ s \in Seq(Block) /\ DOMAIN s = 1..(Len(c.blocks) + 1) /\ DOMAIN c.blocks = 1..Len(c.blocks)
        /\ Len(c.blocks) \in Nat
        /\ \A k \in 1..Len(c.blocks) : s[k] = c.blocks[k]
        /\ s[Len(c.blocks) + 1] = b
    BY <1>3, <1>4
  <2> QED
    BY <2>1 DEF Range
<1>6. \A x \in Range(s) : KeptOrSentApart(x)
  BY <1>4, <1>5 DEF Sound
<1>7. Sound(WithBlocks(c, s)) /\ WithBlocks(c, s).blocks = s
  BY <1>4, <1>5, <1>6, BlocksChanged
<1>8. \A id \in BlockIds \ {b.id} : BlocksOf(WithBlocks(c, s), id) = BlocksOf(c, id)
  BY <1>5, <1>7 DEF BlocksOf
<1> QED
  BY <1>1, <1>2, <1>3, <1>7, <1>8, ConfigEdited

LEMMA BlockDeleted ==
    ASSUME ProfilesInv, NEW e \in Editors, NEW a \in Agents, DeleteBlock(e, a)
    PROVE  ProfilesInv'
<1>1. PICK id \in BlockIds : configs[a] # NoRow /\ Edits(e, <<"config", a>>, Without(configs[a], id), {id})
  BY DEF DeleteBlock
<1>2. PICK c : c = configs[a]
  OBVIOUS
<1>3. Sound(c) /\ c.blocks \in Seq(Block)
  BY <1>1, <1>2, StoredConfig
<1>4. PICK K : K = {k \in DOMAIN c.blocks : c.blocks[k].id # id}
  OBVIOUS
<1>5. PICK s : s = Only(c.blocks, K)
  OBVIOUS
<1>6. /\ s \in Seq(Block)
      /\ \A n \in DOMAIN s : \E k \in K : s[n] = c.blocks[k]
      /\ \A k \in K : \E n \in DOMAIN s : s[n] = c.blocks[k]
  <2>1. K \in SUBSET DOMAIN c.blocks
    BY <1>4
  <2> QED
    BY <1>3, <1>5, <2>1, OnlyIs
<1>7. Range(s) = {b \in Range(c.blocks) : b.id # id}
  BY <1>4, <1>6 DEF Range
<1>8. Without(c, id) = WithBlocks(c, s)
  BY <1>4, <1>5 DEF Without
<1>9. \A x \in Range(s) : KeptOrSentApart(x)
  BY <1>3, <1>7 DEF Sound
<1>10. Sound(WithBlocks(c, s)) /\ WithBlocks(c, s).blocks = s
  BY <1>3, <1>6, <1>9, BlocksChanged
<1>11. \A i \in BlockIds \ {id} : BlocksOf(WithBlocks(c, s), i) = BlocksOf(c, i)
  BY <1>7, <1>10 DEF BlocksOf
<1> QED
  BY <1>1, <1>2, <1>8, <1>10, <1>11, ConfigEdited

LEMMA BlocksReordered ==
    ASSUME ProfilesInv, NEW e \in Editors, NEW a \in Agents, ReorderBlocks(e, a)
    PROVE  ProfilesInv'
<1>0. PICK S \in SUBSET BlockIds : \E ids \in SetToSeqs(S) :
            configs[a] # NoRow /\ Edits(e, <<"config", a>>, Reordered(configs[a], ids), S)
  BY DEF ReorderBlocks
<1>1. PICK ids \in SetToSeqs(S) :
            configs[a] # NoRow /\ Edits(e, <<"config", a>>, Reordered(configs[a], ids), S)
  BY <1>0
<1>2. PICK c : c = configs[a]
  OBVIOUS
<1>3. Sound(c) /\ c \in Config /\ c.blocks \in Seq(Block)
  BY <1>1, <1>2, StoredConfig DEF Sound
<1>4. PICK K : K = {Position(c, id) : id \in Range(ids) \cap Ids(c)}
  OBVIOUS
<1> DEFINE index(k) == CHOOSE j \in DOMAIN ids : ids[j] = c.blocks[k].id
           s == [k \in DOMAIN c.blocks |->
                   IF k \in K THEN [c.blocks[k] EXCEPT !.order = index(k) - 1] ELSE c.blocks[k]]
<1>5. Reordered(c, ids) = WithBlocks(c, s)
  BY <1>4 DEF Reordered
<1>6. ASSUME NEW k \in K
      PROVE  k \in DOMAIN c.blocks /\ c.blocks[k].id \in S /\ index(k) - 1 \in Nat
  <2>1. PICK id \in Range(ids) \cap Ids(c) : k = Position(c, id)
    BY <1>4
  <2>2. k \in DOMAIN c.blocks /\ c.blocks[k].id = id
    BY <1>3, <2>1, PositionIs
  <2>3. \E j \in DOMAIN ids : ids[j] = c.blocks[k].id
    BY <2>1, <2>2 DEF Range
  <2>4. index(k) \in DOMAIN ids
    BY <2>3
  <2>5. DOMAIN ids = 1..Cardinality(S) /\ Range(ids) \subseteq S
    BY DEF SetToSeqs, Range
  <2>6. index(k) - 1 \in Nat
    <3> HIDE DEF index
    <3> QED
      BY <2>4, <2>5
  <2> QED
    BY <2>1, <2>2, <2>5, <2>6
<1>7. ASSUME NEW k \in DOMAIN c.blocks
      PROVE  /\ s[k] \in Block /\ KeptOrSentApart(s[k]) /\ s[k].id = c.blocks[k].id
             /\ s[k].id \notin S => s[k] = c.blocks[k]
  <2>1. c.blocks[k] \in Block /\ KeptOrSentApart(c.blocks[k])
    BY <1>3 DEF Sound, Range
  <2>2. CASE k \in K
    <3>1. PICK n \in Nat : n = index(k) - 1
      BY <1>6, <2>2
    <3>2. s[k] = [c.blocks[k] EXCEPT !.order = n]
      BY <2>2, <3>1
    <3> HIDE DEF s
    <3>3. s[k] \in Block /\ s[k].id = c.blocks[k].id /\ s[k].variants = c.blocks[k].variants
          /\ s[k].selected = c.blocks[k].selected /\ s[k].content = c.blocks[k].content
      BY <2>1, <3>1, <3>2 DEF Block
    <3> QED
      BY <1>6, <2>1, <2>2, <3>3, KeptSame
  <2>3. CASE k \notin K
    BY <2>1, <2>3
  <2> QED
    BY <2>2, <2>3
<1>8. DOMAIN s = DOMAIN c.blocks /\ s = [k \in DOMAIN c.blocks |-> s[k]]
  OBVIOUS
<1> HIDE DEF s
<1>9. s \in Seq(Block)
  <2>1. DOMAIN c.blocks = 1..Len(c.blocks) /\ Len(c.blocks) \in Nat
    BY <1>3
  <2>2. s \in [1..Len(c.blocks) -> Block]
    BY <1>7, <1>8, <2>1
  <2> QED
    BY <2>1, <2>2
<1>10. \A x \in Range(s) : KeptOrSentApart(x)
  BY <1>7, <1>8 DEF Range
<1>11. Sound(WithBlocks(c, s)) /\ WithBlocks(c, s).blocks = s
  BY <1>3, <1>9, <1>10, BlocksChanged
<1>12. ASSUME NEW i \in BlockIds \ S
       PROVE  BlocksOf(WithBlocks(c, s), i) = BlocksOf(c, i)
  <2>1. \A k \in DOMAIN c.blocks : s[k].id = i \/ c.blocks[k].id = i => s[k] = c.blocks[k]
    BY <1>7
  <2>2. \A b : b \in {x \in Range(s) : x.id = i} <=> b \in {x \in Range(c.blocks) : x.id = i}
    BY <1>8, <2>1, Zenon DEF Range
  <2>3. {x \in Range(s) : x.id = i} = {x \in Range(c.blocks) : x.id = i}
    BY <2>2
  <2> QED
    BY <1>11, <2>3, Zenon DEF BlocksOf
<1> QED
  BY <1>1, <1>2, <1>5, <1>11, <1>12, ConfigEdited

LEMMA ConfigEdits ==
    ASSUME ProfilesInv, NEW e \in Editors, NEW a \in Agents, EditConfig(e, a)
    PROVE  ProfilesInv'
<1>1. CASE SaveConfig(e, a)
  <2>1. PICK r \in Requests : Writes(e, <<"config", a>>, ConfigOf(r), NoEdit)
    BY <1>1 DEF SaveConfig
  <2>2. <<"config", a>> \in Rows /\ <<"config", a>>[1] = "config" /\ Sound(ConfigOf(r))
    BY ConfigsAre DEF Rows
  <2> QED
    BY <2>1, <2>2, RowWritten
<1>2. CASE SwitchMode(e, a)
  <2>1. PICK m \in PromptModes : configs[a] # NoRow /\ Edits(e, <<"config", a>>, [configs[a] EXCEPT !.mode = m], {})
    BY <1>2 DEF SwitchMode
  <2>2. PICK c : c = configs[a]
    OBVIOUS
  <2>3. PICK d : d = [c EXCEPT !.mode = m]
    OBVIOUS
  <2>4. Sound(c) /\ c \in Config
    BY <2>1, <2>2, StoredConfig DEF Sound
  <2>5. d \in Config /\ d.blocks = c.blocks
    BY <2>3, <2>4 DEF Config
  <2>6. Sound(d) /\ \A id : BlocksOf(d, id) = BlocksOf(c, id)
    BY <2>4, <2>5 DEF Sound, BlocksOf
  <2> QED
    BY <2>1, <2>2, <2>3, <2>6, ConfigEdited
<1>3. CASE UpdateBlock(e, a)
  <2>0. PICK b \in Inputs : \E id \in Ids(configs[a]) : configs[a] # NoRow /\
           Edits(e, <<"config", a>>,
                 [configs[a] EXCEPT !.blocks[Position(configs[a], id)] = [b EXCEPT !.id = id]], {id})
    BY <1>3 DEF UpdateBlock
  <2>1. PICK id \in Ids(configs[a]) : configs[a] # NoRow /\
           Edits(e, <<"config", a>>,
                 [configs[a] EXCEPT !.blocks[Position(configs[a], id)] = [b EXCEPT !.id = id]], {id})
    BY <2>0
  <2>2. b \in Block /\ KeptOrSentApart(b)
    BY InputsAre
  <2>3. id \in BlockIds
    <3>1. configs[a].blocks \in Seq(Block)
      BY <2>1, StoredConfig
    <3>2. PICK s \in Seq(Block) : s = configs[a].blocks
      BY <3>1, Zenon
    <3>3. PICK k \in DOMAIN s : id = s[k].id
      BY <3>2 DEF Ids, Range
    <3>4. s[k] \in Block
      BY <3>2, <3>3
    <3> QED
      BY <3>3, <3>4 DEF Block
  <2>4. PICK d : d = [b EXCEPT !.id = id]
    OBVIOUS
  <2>5. /\ d \in Block /\ d.id = id
        /\ d.variants = b.variants /\ d.selected = b.selected /\ d.content = b.content
    BY <2>2, <2>3, <2>4 DEF Block
  <2>6. KeptOrSentApart(d)
    BY <2>2, <2>5, KeptSame
  <2> QED
    BY <2>1, <2>4, <2>5, <2>6, BlockEdited
<1>4. CASE AddVariant(e, a)
  <2>0. PICK id \in Ids(configs[a]) : \E v \in Contents :
            configs[a] # NoRow /\
            Edits(e, <<"config", a>>,
                [configs[a] EXCEPT !.blocks[Position(configs[a], id)].variants = Append(@, v)], {id})
    BY <1>4 DEF AddVariant
  <2>1. PICK v \in Contents :
            configs[a] # NoRow /\
            Edits(e, <<"config", a>>,
                [configs[a] EXCEPT !.blocks[Position(configs[a], id)].variants = Append(@, v)], {id})
    BY <2>0
  <2>2. PICK c : c = configs[a]
    OBVIOUS
  <2>3. Sound(c) /\ c \in Config /\ c.blocks \in Seq(Block)
    BY <2>1, <2>2, StoredConfig DEF Sound
  <2>4. PICK k \in DOMAIN c.blocks : k = Position(c, id) /\ c.blocks[k].id = id
    BY <2>2, <2>3, PositionIs
  <2>5. PICK b \in Block : b = c.blocks[k] /\ KeptOrSentApart(b) /\ b.id = id
    BY <2>3, <2>4 DEF Sound, Range
  <2>6. PICK d : d = [b EXCEPT !.variants = Append(b.variants, v)]
    OBVIOUS
  <2>7. d \in Block /\ d.id = id /\ d.selected = b.selected /\ d.content = b.content
        /\ d.variants = Append(b.variants, v)
    <3>1. b.variants \in Seq(Contents)
      BY DEF Block
    <3>a. Append(b.variants, v) \in Seq(Contents)
      BY <3>1
    <3>2. PICK w \in Seq(Contents) : w = Append(b.variants, v)
      BY <3>a, Zenon
    <3>3. d = [b EXCEPT !.variants = w]
      BY <2>6, <3>2
    <3> QED
      BY <2>5, <3>2, <3>3 DEF Block
  <2>8. KeptOrSentApart(d)
    <3>0. CASE \E s \in SentApart : /\ s.content = b.content /\ s.selected = b.selected
                                    /\ IsPrefix(s.variants, b.variants)
      <4>1. PICK s \in SentApart : /\ s.content = b.content /\ s.selected = b.selected
                                   /\ IsPrefix(s.variants, b.variants)
        BY <3>0
      <4>2. s.variants \in Seq(Contents) /\ b.variants \in Seq(Contents)
        BY SentApartAre DEF Block
      <4>3. IsPrefix(s.variants, d.variants)
        BY <2>7, <4>1, <4>2, PrefixGrows
      <4> QED
        BY <2>7, <4>1, <4>3 DEF KeptOrSentApart
    <3>a. CASE Consistent(b)
      <4>1. /\ b.variants \in Seq(Contents) /\ b.selected \in Nat
            /\ b.selected + 1 \in DOMAIN b.variants /\ b.content = b.variants[b.selected + 1]
        BY <3>a DEF Consistent, Block
      <4>2. /\ DOMAIN b.variants = 1..Len(b.variants) /\ Len(b.variants) \in Nat
            /\ DOMAIN d.variants = 1..(Len(b.variants) + 1)
            /\ \A n \in 1..Len(b.variants) : d.variants[n] = b.variants[n]
        BY <2>7, <4>1
      <4>3. Consistent(d)
        BY <2>7, <4>1, <4>2 DEF Consistent
      <4> QED
        BY <4>3 DEF KeptOrSentApart
    <3> QED
      BY <2>5, <3>0, <3>a DEF KeptOrSentApart
  <2>9. [c EXCEPT !.blocks[k].variants = Append(@, v)] = [c EXCEPT !.blocks[k] = d]
    BY <2>5, <2>6
  <2> QED
    BY <2>1, <2>2, <2>4, <2>7, <2>8, <2>9, BlockEdited
<1>5. CASE SelectVariant(e, a)
  <2>0. PICK id \in Ids(configs[a]) :
           LET k == Position(configs[a], id)
               b == configs[a].blocks[k]
           IN  configs[a] # NoRow /\ \E n \in 0..(Len(b.variants) - 1) :
                 Edits(e, <<"config", a>>, [configs[a] EXCEPT !.blocks[k] = Selected(b, n)], {id})
    BY <1>5 DEF SelectVariant
  <2>2. PICK c : c = configs[a]
    OBVIOUS
  <2>3. Sound(c) /\ c \in Config /\ c.blocks \in Seq(Block)
    BY <2>0, <2>2, StoredConfig DEF Sound
  <2>4. PICK k \in DOMAIN c.blocks : k = Position(c, id) /\ c.blocks[k].id = id
    BY <2>2, <2>3, PositionIs
  <2>5. PICK b \in Block : b = c.blocks[k] /\ b.id = id
    BY <2>3, <2>4
  <2>6. PICK n \in 0..(Len(b.variants) - 1) :
           Edits(e, <<"config", a>>, [c EXCEPT !.blocks[k] = Selected(b, n)], {id})
    BY <2>0, <2>2, <2>4, <2>5
  <2>7. Len(b.variants) \in Nat /\ DOMAIN b.variants = 1..Len(b.variants) /\ b.variants \in Seq(Contents)
    BY <2>5 DEF Block
  <2>8. n \in Nat /\ n + 1 \in DOMAIN b.variants /\ b.variants[n + 1] \in Contents
    BY <2>7
  <2>9. PICK d : d = Selected(b, n)
    OBVIOUS
  <2>10. d \in Block /\ d.id = id /\ d.selected = n /\ d.content = b.variants[n + 1] /\ d.variants = b.variants
    BY <2>5, <2>8, <2>9 DEF Selected, Block
  <2>11. KeptOrSentApart(d)
    BY <2>8, <2>10 DEF KeptOrSentApart, Consistent
  <2> QED
    BY <2>0, <2>2, <2>4, <2>6, <2>9, <2>10, <2>11, BlockEdited
<1> QED
  BY <1>1, <1>2, <1>3, <1>4, <1>5, BlockAdded, BlockDeleted, BlocksReordered DEF EditConfig


LEMMA EditSaved ==
    ASSUME ProfilesInv, NEW e \in Editors, SaveEdit(e)
    PROVE  ProfilesInv'
<1>1. PICK x : x = edit[e]
  OBVIOUS
<1>2. EditIs(x) /\ Writes(e, x.row, x.new, NoEdit)
  BY <1>1 DEF SaveEdit, ProfilesInv, EditInv
<1>3. PICK row, new : row \in Rows /\ row = x.row /\ new = x.new
  BY <1>2 DEF EditIs
<1>4. (row[1] = "persona" => new \in Persona) /\ (row[1] = "config" => Sound(new))
  BY <1>2, <1>3 DEF EditIs
<1>5. Writes(e, row, new, NoEdit) /\ row \in Rows
  BY <1>2, <1>3
<1> QED
  BY <1>4, <1>5, RowWritten

LEMMA WarehouseWritten ==
    ASSUME ProfilesInv, NEW blocks, PutWarehouse(blocks),
           blocks = NoRow \/ (blocks \in Seq(Block) /\ \A b \in Range(blocks) : KeptOrSentApart(b))
    PROVE  ProfilesInv'
<1>1. warehouse' = blocks /\ personas' = personas /\ configs' = configs /\ edit' = edit
  BY DEF PutWarehouse
<1>2. ProfilesTypeOK'
  BY <1>1 DEF ProfilesInv, ProfilesTypeOK
<1>3. ContentIsActive'
  BY <1>1 DEF ProfilesInv, ContentIsActive, KeptOrSentApart, Consistent, SentApart
<1> QED
  BY <1>1, <1>2, <1>3 DEF ProfilesInv

LEMMA ProfilesRestarted ==
    ASSUME ProfilesInv, NEW unread, NEW failed, ProfilesRestart(unread, failed)
    PROVE  ProfilesInv'
<1>1. /\ personas' = Seeded(unread, failed) /\ edit' = [e \in Editors |-> NoEdit]
      /\ configs' = configs /\ warehouse' = warehouse
  BY DEF ProfilesRestart
<1>2. DefaultPersona \in Persona
  BY ProfilesAssumption DEF DefaultPersona, Persona
<1>3. personas' \in [Agents -> Persona \cup {NoRow}]
  BY <1>1, <1>2 DEF ProfilesInv, ProfilesTypeOK, Seeded
<1>4. ProfilesTypeOK'
  BY <1>1, <1>3 DEF ProfilesInv, ProfilesTypeOK
<1>5. ContentIsActive'
  BY <1>1 DEF ProfilesInv, ContentIsActive
<1> QED
  BY <1>1, <1>4, <1>5 DEF ProfilesInv

LEMMA ProfilesSame == ProfilesInv /\ UNCHANGED profileVars => ProfilesInv'
BY DEF profileVars, ProfilesInv, ProfilesTypeOK, ContentIsActive

LEMMA ProfilesStep == ProfilesInv /\ [Next]_vars => ProfilesInv'
<1> SUFFICES ASSUME ProfilesInv, [Next]_vars PROVE ProfilesInv'
  OBVIOUS
<1>0. Editors = Tasks
  BY AgentChatAssumption DEF Tasks
<1>1. ASSUME NEW t \in Tasks, NEW a \in Agents, StartTurn(t, a) PROVE ProfilesInv'
  BY <1>1, ProfilesSame DEF StartTurn
<1>2. ASSUME NEW t \in Tasks, ReadDiary(t) \/ BuildPrompt(t) \/ CutPanics(t) \/ ModelReturns(t)
      PROVE  ProfilesInv'
  BY <1>2, ProfilesSame DEF ReadDiary, BuildPrompt, CutPanics, ModelReturns
<1>3. ASSUME NEW t \in Tasks, TakeTicket(t) \/ PushEvent(t) \/ Observe(t) \/ AddNote(t) \/ EditDiary(t)
      PROVE  ProfilesInv'
  BY <1>3, ProfilesSame DEF TakeTicket, PushEvent, Observe, AddNote, EditDiary
<1>4. ASSUME NEW t \in Tasks, StartEncode(t) \/ Encoded(t) \/ Cancel(t)
      PROVE  ProfilesInv'
  BY <1>4, ProfilesSame DEF StartEncode, Encoded, Cancel
<1>5. ASSUME NEW t \in Tasks, Profiles(t) PROVE ProfilesInv'
  <2>1. ASSUME NEW a \in Agents, EditAgent(t, a) \/ EditConfig(t, a) PROVE ProfilesInv'
    BY <1>0, <2>1, AgentEdits, ConfigEdits
  <2>2. CASE SaveWarehouse(t)
    <3>1. PICK b \in Inputs : PutWarehouse(<<b>>)
      BY <2>2 DEF SaveWarehouse
    <3>2. <<b>> \in Seq(Block) /\ \A x \in Range(<<b>>) : KeptOrSentApart(x)
      <4>1. b \in Block /\ KeptOrSentApart(b)
        BY InputsAre
      <4>2. <<b>> \in Seq(Block) /\ DOMAIN <<b>> = {1} /\ <<b>>[1] = b
        BY <4>1
      <4> QED
        BY <4>1, <4>2 DEF Range
    <3> QED
      BY <3>1, <3>2, WarehouseWritten
  <2>3. CASE DeleteWarehouse(t)
    <3>1. PICK blocks : blocks = NoRow /\ PutWarehouse(blocks)
      BY <2>3 DEF DeleteWarehouse
    <3>2. blocks = NoRow \/ (blocks \in Seq(Block) /\ \A b \in Range(blocks) : KeptOrSentApart(b))
      BY <3>1, Zenon
    <3> QED
      BY <3>1, <3>2, WarehouseWritten, Zenon
  <2>4. CASE SaveEdit(t)
    BY <1>0, <2>4, EditSaved
  <2>5. CASE SaveEditFails(t)
    <3>1. /\ edit' = [edit EXCEPT ![t] = NoEdit]
          /\ personas' = personas /\ configs' = configs /\ warehouse' = warehouse
      BY <2>5 DEF SaveEditFails
    <3>2. /\ edit' = [e \in Editors |-> edit'[e]]
          /\ \A e \in Editors : edit'[e] = IF e = t THEN NoEdit ELSE edit[e]
      BY <3>1 DEF ProfilesInv
    <3>3. ProfilesTypeOK'
      BY <3>1, <3>2 DEF ProfilesInv, ProfilesTypeOK
    <3>4. ContentIsActive'
      BY <3>1 DEF ProfilesInv, ContentIsActive
    <3> QED
      BY <3>1, <3>2, <3>3, <3>4 DEF ProfilesInv
  <2> QED
    BY <1>5, <2>1, <2>2, <2>3, <2>4, <2>5 DEF Profiles
<1>6. CASE Pool
  BY <1>6, ProfilesSame DEF Pool
<1>7. CASE Restart
  BY <1>7, ProfilesRestarted DEF Restart
<1>8. CASE UNCHANGED vars
  BY <1>8, ProfilesSame DEF vars
<1> QED
  BY <1>1, <1>2, <1>3, <1>4, <1>5, <1>6, <1>7, <1>8 DEF Next

LEMMA ProfilesInvInit == Init => ProfilesInv
<1> SUFFICES ASSUME Init PROVE ProfilesInv
  OBVIOUS
<1>1. /\ personas = [a \in Agents |-> IF a \in Defaults THEN DefaultPersona ELSE NoRow]
      /\ configs \in Saved /\ warehouse = NoRow /\ edit = [e \in Editors |-> NoEdit]
  BY DEF Init, ProfilesInit
<1>2. configs \in [Agents -> {ConfigOf(r) : r \in Requests} \cup {NoRow}]
  BY <1>1, ProfilesAssumption
<1>3. DefaultPersona \in Persona
  BY ProfilesAssumption DEF DefaultPersona, Persona
<1>4. \A a \in Agents : configs[a] = NoRow \/ Sound(configs[a])
  BY <1>2, ConfigsAre
<1>5. ProfilesTypeOK
  BY <1>1, <1>3, <1>4 DEF ProfilesTypeOK, Sound
<1>6. ContentIsActive
  BY <1>1, <1>4 DEF ContentIsActive, Sound
<1> QED
  BY <1>1, <1>2, <1>5, <1>6 DEF ProfilesInv

(* An edit that was not overtaken keeps all that its request does not name, and  *)
(* every other agent's profile.                                              *)
LEMMA SaveIsLocal ==
    ASSUME ProfilesInv, NEW e \in Editors, SaveEdit(e), ~edit[e].stale
    PROVE  LET row == edit[e].row
               old == Stored(row)
               new == IF row[1] = "persona" THEN personas'[row[2]] ELSE configs'[row[2]]
           IN  /\ \A a \in Agents \ {row[2]} :
                     personas'[a] = personas[a] /\ configs'[a] = configs[a]
               /\ old # NoRow /\ row[1] = "persona" =>
                     \A f \in Fields \ edit[e].names : new[f] = old[f]
               /\ old # NoRow /\ row[1] = "config" =>
                     \A id \in BlockIds \ edit[e].names :
                        {b \in Range(new.blocks) : b.id = id} = {b \in Range(old.blocks) : b.id = id}
<1>1. PICK x : x = edit[e]
  OBVIOUS
<1>2. /\ EditIs(x) /\ Local(x, RowIn(personas, configs, x.row))
      /\ Writes(e, x.row, x.new, NoEdit)
  BY <1>1 DEF SaveEdit, ProfilesInv, EditInv
<1>3. PICK k \in {"persona", "config"}, a \in Agents : x.row = <<k, a>>
  BY <1>2 DEF EditIs, Rows
<1>4. /\ personas' = IF k = "persona" THEN [personas EXCEPT ![a] = x.new] ELSE personas
      /\ configs' = IF k = "config" THEN [configs EXCEPT ![a] = x.new] ELSE configs
  BY <1>2, <1>3 DEF Writes
<1>5. /\ personas \in [Agents -> Persona \cup {NoRow}]
      /\ configs = [b \in Agents |-> configs[b]]
  BY DEF ProfilesInv, ProfilesTypeOK
<1>6. /\ \A b \in Agents \ {a} : personas'[b] = personas[b] /\ configs'[b] = configs[b]
      /\ k = "persona" => personas'[a] = x.new
      /\ k = "config" => configs'[a] = x.new
  BY <1>4, <1>5
<1>7. /\ RowIn(personas, configs, x.row) = Stored(x.row)
      /\ x.row[1] = k /\ x.row[2] = a
  BY <1>3 DEF RowIn, Stored
<1>8. CASE k = "persona"
  BY <1>1, <1>2, <1>6, <1>7, <1>8 DEF Local
<1>9. CASE k = "config"
  BY <1>1, <1>2, <1>6, <1>7, <1>9 DEF Local, BlocksOf
<1> QED
  BY <1>8, <1>9

(* A saved edit loses no other edit but one that it overlapped, for any blocks,   *)
(* any persona and any number of editors.                                     *)
THEOREM EditsStayLocal == Spec => EditsAreLocal
<1>1. ProfilesInv => [\A e \in Editors : SaveEdit(e) /\ ~edit[e].stale =>
          LET row == edit[e].row
              old == Stored(row)
              new == IF row[1] = "persona" THEN personas'[row[2]] ELSE configs'[row[2]]
          IN  /\ \A a \in Agents \ {row[2]} :
                    personas'[a] = personas[a] /\ configs'[a] = configs[a]
              /\ old # NoRow /\ row[1] = "persona" =>
                    \A f \in Fields \ edit[e].names : new[f] = old[f]
              /\ old # NoRow /\ row[1] = "config" =>
                    \A id \in BlockIds \ edit[e].names :
                       {b \in Range(new.blocks) : b.id = id} = {b \in Range(old.blocks) : b.id = id}
      ]_profileVars
  BY SaveIsLocal
<1> QED
  BY <1>1, ProfilesInvInit, ProfilesStep, PTL DEF Spec, EditsAreLocal


-----------------------------------------------------------------------------
(* Turns and the requests beside them                                        *)

TurnFields == {"pc", "agent", "filled", "using", "prompt", "ticket", "notes"}
Waits(phase) == phase \in {"model", "observe", "encode"}

(* A prompt was made of a stored configuration, if there was one.               *)
Sent(r) == r.using # NoRow => Sound(r.using) /\ r.prompt = Built(r.using, r.filled)

IsEncoding(r, next) ==
    /\ DOMAIN r = {"pc", "ticket"} /\ r.pc \in {"encode", "encoded", "push"} /\ r.ticket \in Nat
    /\ r = [pc |-> r.pc, ticket |-> r.ticket]
    /\ r.pc = "push" => r.ticket \in 1..(next - 1)

IsTurn(r, next) ==
    /\ DOMAIN r = TurnFields /\ r.pc \in TurnPhases /\ r.agent \in Agents
    /\ r.filled \in SUBSET Variables /\ r.notes \in Nat
    /\ r.ticket \in Nat /\ r.ticket < next
    /\ r.pc = "push" => r.ticket \in 1..(next - 1)
    /\ r.pc = "model" => Sent(r)

TurnIs(r, next) == r = Idle \/ IsEncoding(r, next) \/ IsTurn(r, next)

TurnsInv ==
    /\ turn = [t \in Tasks |-> turn[t]] /\ nextId \in Nat \ {0}
    /\ \A t \in Tasks : TurnIs(turn[t], nextId)
    /\ \A t \in Tasks : call[t] # NoCall => Waits(turn[t].pc)

RestInv ==
    /\ diary \in [Agents -> Nat]
    /\ alone \in BOOLEAN /\ started \in Nat
    /\ log \in Seq([id : 1..(nextId - 1), label : Labels]) /\ Len(log) <= MaxAudit

LEMMA TurnPhase ==
    ASSUME NEW r, NEW next, TurnIs(r, next)
    PROVE  /\ r.pc = "idle" <=> r = Idle
           /\ r.pc \in {"diary", "build", "model", "audit", "observe", "note"} => IsTurn(r, next)
           /\ r.pc \in {"encode", "encoded"} => IsEncoding(r, next)
           /\ r.pc = "push" => IsTurn(r, next) \/ IsEncoding(r, next)
BY DEF TurnIs, IsTurn, IsEncoding, Idle, TurnPhases

LEMMA TurnLater ==
    ASSUME NEW next \in Nat, NEW later \in Nat, next <= later, NEW r, TurnIs(r, next)
    PROVE  TurnIs(r, later)
<1>1. CASE r = Idle
  BY <1>1 DEF TurnIs
<1>2. CASE IsEncoding(r, next)
  BY <1>2 DEF TurnIs, IsEncoding
<1>3. CASE IsTurn(r, next)
  BY <1>3 DEF TurnIs, IsTurn
<1> QED
  BY <1>1, <1>2, <1>3 DEF TurnIs

(* What a request becomes; the others go on as they were.                     *)
LEMMA TurnBecomes ==
    ASSUME TurnsInv, NEW t \in Tasks, NEW r, Becomes(t, r), TurnIs(r, nextId'),
           nextId' \in Nat, nextId <= nextId',
           \A u \in Tasks \ {t} : call'[u] = call[u],
           call'[t] # NoCall => Waits(r.pc)
    PROVE  TurnsInv'
<1>1. /\ turn' = [u \in Tasks |-> turn'[u]]
      /\ \A u \in Tasks : turn'[u] = IF u = t THEN r ELSE turn[u]
  BY DEF TurnsInv, Becomes
<1>2. nextId \in Nat \ {0} /\ nextId' \in Nat \ {0}
  BY DEF TurnsInv
<1>3. \A u \in Tasks : TurnIs(turn[u], nextId')
  BY <1>2, TurnLater DEF TurnsInv
<1>4. \A u \in Tasks : call'[u] # NoCall => Waits(turn'[u].pc)
  BY <1>1 DEF TurnsInv
<1> QED
  BY <1>1, <1>2, <1>3, <1>4 DEF TurnsInv

LEMMA TurnsSame == TurnsInv /\ UNCHANGED <<turn, nextId, call>> => TurnsInv'
BY DEF TurnsInv


LEMMA CallMoves ==
    ASSUME PoolTypeOK, NEW t \in Tasks
    PROVE  /\ UNCHANGED poolVars => UNCHANGED call
           /\ \A task, batch, n : StartCall(t, task, batch, n) =>
                 /\ \A u \in Tasks \ {t} : call'[u] = call[u]
                 /\ call[t] = NoCall
           /\ \A ok : Return(t, ok) =>
                 /\ \A u \in Tasks \ {t} : call'[u] = call[u]
                 /\ call'[t] = NoCall
           /\ Dropped(t) =>
                 /\ \A u \in Tasks \ {t} : call'[u] = call[u]
                 /\ call'[t] = NoCall
BY DEF PoolTypeOK, StartCall, Return, Dropped, Calls, poolVars, Tasks

LEMMA CallAnswered ==
    ASSUME PoolTypeOK, PoolStep
    PROVE  \A u \in Tasks : call'[u] # NoCall => call[u] # NoCall
<1>1. ASSUME NEW c \in Callers, NEW r, Calls(c, r), call[c].pc = "attempt"
      PROVE  \A u \in Tasks : call'[u] # NoCall => call[u] # NoCall
  BY <1>1 DEF Calls, PoolTypeOK, Tasks, NoCall
<1>2. ASSUME NEW c \in Callers, Answer(c) \/ AnswerShort(c) \/ Busy(c) \/ Refuse(c) \/ Garble(c)
      PROVE  call[c].pc = "attempt" /\ \E r : Calls(c, r)
  <2>1. ASSUME NEW vectors, NEW short, Received(c, vectors, short) PROVE \E r : Calls(c, r)
    BY <2>1 DEF Received
  <2>2. Failing(c) => \E r : Calls(c, r)
    BY DEF Failing
  <2> QED
    BY <1>2, <2>1, <2>2 DEF Answer, AnswerShort, Busy, Refuse, Garble
<1>3. CASE ClearTraces
  BY <1>3 DEF ClearTraces
<1> QED
  BY <1>1, <1>2, <1>3 DEF PoolStep

ChatInv == PoolInv /\ ProfilesInv /\ TurnsInv /\ RestInv

LEMMA TurnSteps ==
    ASSUME ChatInv, NEW t \in Tasks
    PROVE  /\ \A a \in Agents : StartTurn(t, a) => TurnsInv'
           /\ ReadDiary(t) => TurnsInv'
           /\ BuildPrompt(t) => TurnsInv'
           /\ CutPanics(t) => TurnsInv'
           /\ ModelReturns(t) => TurnsInv'
<1>0. /\ TurnsInv /\ PoolTypeOK /\ ProfilesInv /\ RestInv /\ TurnIs(turn[t], nextId) /\ nextId \in Nat \ {0}
      /\ call[t] # NoCall => Waits(turn[t].pc)
  BY PoolIsSound DEF ChatInv, TurnsInv
<1>1. ASSUME NEW a \in Agents, StartTurn(t, a) PROVE TurnsInv'
  <2>1. PICK filled \in SUBSET Variables : Becomes(t, [Turn(a, "diary") EXCEPT !.filled = filled])
    BY <1>1 DEF StartTurn, Variables
  <2>2. PICK r : r = [Turn(a, "diary") EXCEPT !.filled = filled]
    OBVIOUS
  <2>3. IsTurn(r, nextId)
    BY <1>0, <2>2 DEF Turn, IsTurn, TurnFields, TurnPhases
  <2>4. nextId' = nextId /\ call' = call
    BY <1>1, <1>0, CallMoves DEF StartTurn
  <2>5. call[t] = NoCall
    BY <1>0, <1>1 DEF StartTurn, Starts, Free, Waits, Idle
  <2> QED
    BY <1>0, <2>1, <2>2, <2>3, <2>4, <2>5, TurnBecomes DEF TurnIs
<1>2. ASSUME ReadDiary(t) PROVE TurnsInv'
  <2>1. IsTurn(turn[t], nextId) /\ turn[t].pc = "diary" /\ nextId' = nextId /\ call' = call
    BY <1>0, <1>2, TurnPhase, CallMoves DEF ReadDiary
  <2>2. PICK filled \in SUBSET Variables :
           \/ Becomes(t, [turn[t] EXCEPT !.pc = "build", !.filled = filled])
           \/ Goto(t, "build")
    <3>1. CASE Goto(t, "build")
      BY <3>1
    <3>2. CASE ~Goto(t, "build")
      <4>1. PICK given : given \subseteq {"diary_content"}
               /\ Becomes(t, [turn[t] EXCEPT !.pc = "build", !.filled = @ \cup given])
        BY <1>2, <3>2 DEF ReadDiary
      <4>2. PICK filled : filled = turn[t].filled \cup given
        OBVIOUS
      <4>3. filled \in SUBSET Variables
        BY <2>1, <4>1, <4>2 DEF IsTurn, Variables
      <4> QED
        BY <4>1, <4>2, <4>3
    <3> QED
      BY <3>1, <3>2
  <2>3. PICK r : Becomes(t, r) /\ (\/ r = [turn[t] EXCEPT !.pc = "build", !.filled = filled]
                                  \/ r = [turn[t] EXCEPT !.pc = "build"])
    BY <2>2 DEF Goto
  <2>4. IsTurn(r, nextId)
    BY <2>1, <2>3 DEF IsTurn, TurnFields, TurnPhases
  <2>5. call[t] = NoCall
    BY <1>0, <2>1 DEF Waits
  <2> QED
    BY <1>0, <2>1, <2>3, <2>4, <2>5, TurnBecomes DEF TurnIs
<1>3. ASSUME BuildPrompt(t) PROVE TurnsInv'
  <2>1. IsTurn(turn[t], nextId) /\ turn[t].pc = "build" /\ nextId' = nextId
        /\ \A u \in Tasks \ {t} : call'[u] = call[u]
    BY <1>0, <1>3, TurnPhase, CallMoves DEF BuildPrompt
  <2>a. PICK given \in Recalled : \E c \in ConfigRead(turn[t].agent) :
           LET filled == turn[t].filled \cup given
           IN  Becomes(t, [turn[t] EXCEPT !.pc = "model", !.using = c, !.filled = filled,
                 !.prompt = IF c = NoRow THEN <<>> ELSE Built(c, filled)])
    BY <1>3 DEF BuildPrompt
  <2>b. given \in SUBSET Variables
    BY DEF Recalled, Variables
  <2>2. PICK c : c \in ConfigRead(turn[t].agent)
          /\ Becomes(t, [turn[t] EXCEPT !.pc = "model", !.using = c, !.filled = turn[t].filled \cup given,
                 !.prompt = IF c = NoRow THEN <<>> ELSE Built(c, turn[t].filled \cup given)])
    BY <2>a
  <2>3. PICK filled : filled = turn[t].filled \cup given
    OBVIOUS
  <2>4. filled \in SUBSET Variables
    BY <2>1, <2>b, <2>3 DEF IsTurn
  <2>5. PICK prompt : prompt = IF c = NoRow THEN <<>> ELSE Built(c, filled)
    OBVIOUS
  <2>6. PICK r : r = [turn[t] EXCEPT !.pc = "model", !.using = c, !.filled = filled, !.prompt = prompt]
    OBVIOUS
  <2>7. Becomes(t, r)
    BY <2>2, <2>3, <2>5, <2>6
  <2>8. c = NoRow \/ Sound(c)
    <3>1. turn[t].agent \in Agents /\ (c = NoRow \/ c = configs[turn[t].agent])
      BY <2>1, <2>2 DEF IsTurn, ConfigRead
    <3> QED
      BY <1>0, <3>1, StoredConfig
  <2>9. DOMAIN r = TurnFields /\ r.using = c /\ r.filled = filled /\ r.prompt = prompt /\ r.pc = "model"
        /\ r.agent = turn[t].agent /\ r.notes = turn[t].notes
        /\ r.ticket = turn[t].ticket
    BY <2>1, <2>6 DEF IsTurn, TurnFields
  <2>10. Sent(r)
    BY <2>5, <2>8, <2>9 DEF Sent
  <2>11. IsTurn(r, nextId)
    BY <2>1, <2>4, <2>9, <2>10 DEF IsTurn, TurnPhases
  <2> QED
    BY <1>0, <2>1, <2>7, <2>9, <2>11, TurnBecomes DEF TurnIs, Waits
<1>4. ASSUME CutPanics(t) PROVE TurnsInv'
  <2>1. turn[t].pc = "build" /\ nextId' = nextId /\ call' = call /\ Becomes(t, Idle)
    BY <1>0, <1>4, CallMoves DEF CutPanics
  <2>2. call[t] = NoCall
    BY <1>0, <2>1 DEF Waits
  <2> QED
    BY <1>0, <2>1, <2>2, TurnBecomes DEF TurnIs
<1>5. ASSUME ModelReturns(t) PROVE TurnsInv'
  <2>1. IsTurn(turn[t], nextId) /\ turn[t].pc = "model" /\ nextId' = nextId
        /\ call'[t] = NoCall /\ \A u \in Tasks \ {t} : call'[u] = call[u]
    BY <1>0, <1>5, TurnPhase, CallMoves DEF ModelReturns
  <2>2. PICK r : Becomes(t, r) /\ (r = Idle \/ r = Turn(turn[t].agent, "audit"))
    BY <1>5 DEF ModelReturns
  <2>3. r = Idle \/ IsTurn(r, nextId)
    BY <1>0, <2>1, <2>2 DEF Turn, IsTurn, TurnFields, TurnPhases
  <2> QED
    BY <1>0, <2>1, <2>2, <2>3, TurnBecomes DEF TurnIs
<1> QED
  BY <1>1, <1>2, <1>3, <1>4, <1>5


LEMMA EventSteps ==
    ASSUME ChatInv, NEW t \in Tasks
    PROVE  /\ TakeTicket(t) => TurnsInv'
           /\ PushEvent(t) => TurnsInv'
           /\ Observe(t) => TurnsInv'
           /\ AddNote(t) => TurnsInv'
           /\ StartEncode(t) => TurnsInv'
           /\ Encoded(t) => TurnsInv'
           /\ Cancel(t) => TurnsInv'
<1>0. /\ TurnsInv /\ PoolTypeOK /\ RestInv /\ TurnIs(turn[t], nextId) /\ nextId \in Nat \ {0}
      /\ call[t] # NoCall => Waits(turn[t].pc)
  BY PoolIsSound DEF ChatInv, TurnsInv
<1>1. ASSUME TakeTicket(t) PROVE TurnsInv'
  <2>1. turn[t].pc \in {"audit", "encoded"} /\ nextId' = nextId + 1 /\ call' = call
    BY <1>0, <1>1, CallMoves DEF TakeTicket
  <2>2. PICK r : r = [turn[t] EXCEPT !.pc = "push", !.ticket = nextId]
    OBVIOUS
  <2>3. Becomes(t, r) /\ nextId \in 1..(nextId' - 1) /\ nextId < nextId'
    BY <1>0, <1>1, <2>1, <2>2 DEF TakeTicket
  <2>4. CASE IsTurn(turn[t], nextId)
    <3>1. IsTurn(r, nextId')
      BY <1>0, <2>2, <2>3, <2>4 DEF IsTurn, TurnFields, TurnPhases
    <3>2. call[t] = NoCall
      BY <1>0, <2>1 DEF Waits
    <3> QED
      BY <1>0, <2>1, <2>3, <3>1, <3>2, TurnBecomes DEF TurnIs
  <2>5. CASE IsEncoding(turn[t], nextId)
    <3>1. r = [pc |-> "push", ticket |-> nextId]
      BY <2>2, <2>5 DEF IsEncoding
    <3>2. IsEncoding(r, nextId')
      BY <1>0, <2>3, <3>1 DEF IsEncoding
    <3>3. call[t] = NoCall
      BY <1>0, <2>1 DEF Waits
    <3> QED
      BY <1>0, <2>1, <2>3, <3>2, <3>3, TurnBecomes DEF TurnIs
  <2> QED
    BY <1>0, <2>1, <2>4, <2>5, TurnPhase
<1>2. ASSUME PushEvent(t) PROVE TurnsInv'
  <2>0. turn[t].pc = "push" /\ nextId' = nextId
    BY <1>2 DEF PushEvent
  <2>1. CASE "agent" \in DOMAIN turn[t] /\ StartCall(t, "generation", FALSE, 1) /\ Goto(t, "observe")
    <3>1. IsTurn(turn[t], nextId)
      BY <1>0, <2>0, <2>1 DEF TurnIs, Idle, IsEncoding
    <3>2. PICK r : r = [turn[t] EXCEPT !.pc = "observe"]
      OBVIOUS
    <3>3. Becomes(t, r) /\ r.pc = "observe" /\ IsTurn(r, nextId)
      BY <2>1, <3>1, <3>2 DEF Goto, IsTurn, TurnFields, TurnPhases
    <3>4. \A u \in Tasks \ {t} : call'[u] = call[u]
      BY <1>0, <2>1, CallMoves
    <3> QED
      BY <1>0, <2>0, <3>3, <3>4, TurnBecomes DEF TurnIs, Waits
  <2>2. CASE Becomes(t, Idle) /\ UNCHANGED poolVars
    <3>1. call' = call /\ call[t] = NoCall
      BY <1>0, <2>0, <2>2, CallMoves DEF Waits
    <3> QED
      BY <1>0, <2>0, <2>2, <3>1, TurnBecomes DEF TurnIs
  <2> QED
    BY <1>2, <2>1, <2>2 DEF PushEvent
<1>3. ASSUME Observe(t) PROVE TurnsInv'
  <2>1. IsTurn(turn[t], nextId) /\ turn[t].pc = "observe" /\ nextId' = nextId
        /\ call'[t] = NoCall /\ \A u \in Tasks \ {t} : call'[u] = call[u]
    BY <1>0, <1>3, TurnPhase, CallMoves DEF Observe
  <2>a. 0 \in Nat /\ \A n \in 0..MaxNotes : n \in Nat
    BY AgentChatAssumption
  <2>2. PICK notes \in Nat :
           Becomes(t, [turn[t] EXCEPT !.pc = "note", !.notes = notes]) \/ Becomes(t, Idle)
    BY <1>3, <2>a, Zenon DEF Observe
  <2>3. PICK r : Becomes(t, r) /\ (r = Idle \/ r = [turn[t] EXCEPT !.pc = "note", !.notes = notes])
    BY <2>2
  <2>4. r = Idle \/ IsTurn(r, nextId)
    BY <2>1, <2>3 DEF IsTurn, TurnFields, TurnPhases
  <2> QED
    BY <1>0, <2>1, <2>3, <2>4, TurnBecomes DEF TurnIs
<1>4. ASSUME AddNote(t) PROVE TurnsInv'
  <2>1. IsTurn(turn[t], nextId) /\ turn[t].pc = "note" /\ nextId' = nextId /\ call' = call
    BY <1>0, <1>4, TurnPhase, CallMoves DEF AddNote
  <2>2. \/ Becomes(t, Idle)
        \/ turn[t].notes > 0 /\ Becomes(t, [turn[t] EXCEPT !.notes = turn[t].notes - 1])
    BY <1>4 DEF AddNote
  <2>3. PICK r : /\ Becomes(t, r)
                 /\ \/ r = Idle
                    \/ turn[t].notes > 0 /\ r = [turn[t] EXCEPT !.notes = turn[t].notes - 1]
    BY <2>2
  <2>4. r = Idle \/ IsTurn(r, nextId)
    BY <2>1, <2>3 DEF IsTurn, TurnFields, TurnPhases
  <2>5. call[t] = NoCall
    BY <1>0, <2>1 DEF Waits
  <2> QED
    BY <1>0, <2>1, <2>3, <2>4, <2>5, TurnBecomes DEF TurnIs
<1>5. ASSUME StartEncode(t) PROVE TurnsInv'
  <2>1. PICK r : r = [pc |-> "encode", ticket |-> 0]
    OBVIOUS
  <2>2. Becomes(t, r) /\ nextId' = nextId /\ r.pc = "encode"
    BY <1>5, <2>1 DEF StartEncode, Encoding
  <2>3. \A u \in Tasks \ {t} : call'[u] = call[u]
    BY <1>0, <1>5, CallMoves DEF StartEncode
  <2>4. IsEncoding(r, nextId)
    BY <2>1 DEF IsEncoding
  <2> QED
    BY <1>0, <2>2, <2>3, <2>4, TurnBecomes DEF TurnIs, Waits
<1>6. ASSUME Encoded(t) PROVE TurnsInv'
  <2>1. nextId' = nextId /\ call'[t] = NoCall /\ \A u \in Tasks \ {t} : call'[u] = call[u]
    BY <1>0, <1>6, CallMoves DEF Encoded
  <2>2. PICK r : Becomes(t, r) /\ (r = Idle \/ r = [pc |-> "encoded", ticket |-> 0])
    BY <1>6 DEF Encoded, Encoding
  <2>3. r = Idle \/ IsEncoding(r, nextId)
    BY <2>2 DEF IsEncoding
  <2> QED
    BY <1>0, <2>1, <2>2, <2>3, TurnBecomes DEF TurnIs
<1>7. ASSUME Cancel(t) PROVE TurnsInv'
  <2>1. nextId' = nextId /\ call'[t] = NoCall /\ (\A u \in Tasks \ {t} : call'[u] = call[u]) /\ Becomes(t, Idle)
    BY <1>0, <1>7, CallMoves DEF Cancel
  <2> QED
    BY <1>0, <2>1, TurnBecomes DEF TurnIs
<1> QED
  BY <1>1, <1>2, <1>3, <1>4, <1>5, <1>6, <1>7

LEMMA TurnsInductive == ChatInv /\ [Next]_vars => TurnsInv'
<1> SUFFICES ASSUME ChatInv, [Next]_vars PROVE TurnsInv'
  OBVIOUS
<1>0. TurnsInv /\ PoolTypeOK
  BY PoolIsSound DEF ChatInv
<1>1. ASSUME NEW t \in Tasks, EditDiary(t) PROVE TurnsInv'
  BY <1>0, <1>1, CallMoves, TurnsSame DEF EditDiary
<1>2. ASSUME NEW t \in Tasks, Profiles(t) PROVE TurnsInv'
  <2>1. UNCHANGED <<poolVars, chatVars>>
    BY <1>2 DEF Profiles
  <2> QED
    BY <1>0, <2>1, CallMoves, TurnsSame DEF chatVars
<1>3. CASE Pool
  BY <1>0, <1>3, CallAnswered DEF Pool, chatVars, TurnsInv
<1>4. CASE Restart
  <2>1. nextId' = 1 /\ turn' = [t \in Tasks |-> Idle] /\ call' = [t \in Tasks |-> NoCall]
    BY <1>4 DEF Restart, PoolRestart, Tasks
  <2> QED
    BY <2>1 DEF TurnsInv, TurnIs
<1>5. CASE UNCHANGED vars
  BY <1>0, <1>5, TurnsSame DEF vars, chatVars, poolVars
<1> QED
  BY <1>1, <1>2, <1>3, <1>4, <1>5, TurnSteps, EventSteps DEF Next


LEMMA RestDiary ==
    ASSUME RestInv, diary' \in [Agents -> Nat], UNCHANGED <<alone, log, nextId>>, started' \in Nat
    PROVE  RestInv'
BY DEF RestInv

LEMMA RestInductive == ChatInv /\ [Next]_vars => RestInv'
<1> SUFFICES ASSUME ChatInv, [Next]_vars PROVE RestInv'
  OBVIOUS
<1>0. RestInv /\ TurnsInv /\ nextId \in Nat \ {0} /\ \A t \in Tasks : TurnIs(turn[t], nextId)
  BY DEF ChatInv, TurnsInv
<1>1. ASSUME UNCHANGED <<diary, alone, log, nextId>>, started' \in Nat PROVE RestInv'
  BY <1>0, <1>1, RestDiary DEF RestInv
<1>2. ASSUME NEW t \in Tasks, Starts(t) PROVE started' \in Nat /\ alone' = alone
  BY <1>0, <1>2 DEF Starts, RestInv
<1>3. Within => started' \in Nat /\ alone' = alone
  BY <1>0 DEF Within, RestInv
<1>4. ASSUME NEW t \in Tasks, NEW a \in Agents, StartTurn(t, a) PROVE RestInv'
  BY <1>1, <1>2, <1>4 DEF StartTurn
<1>5. ASSUME NEW t \in Tasks, ReadDiary(t) PROVE RestInv'
  BY <1>1, <1>3, <1>5 DEF ReadDiary
<1>6. ASSUME NEW t \in Tasks, BuildPrompt(t) \/ CutPanics(t) \/ ModelReturns(t) \/ Observe(t) \/ Encoded(t) \/ Cancel(t)
      PROVE  RestInv'
  <2>1. Within /\ UNCHANGED <<diary, log, nextId>>
    BY <1>6 DEF BuildPrompt, CutPanics, ModelReturns, Observe, Encoded, Cancel
  <2> QED
    BY <1>1, <1>3, <2>1
<1>7. ASSUME NEW t \in Tasks, TakeTicket(t) PROVE RestInv'
  <2>1. /\ nextId' = nextId + 1 /\ Within /\ UNCHANGED <<diary, log>>
    BY <1>7 DEF TakeTicket
  <2>2. [id : 1..(nextId - 1), label : Labels] \subseteq [id : 1..(nextId' - 1), label : Labels]
    BY <1>0, <2>1
  <2>3. log' \in Seq([id : 1..(nextId' - 1), label : Labels])
    <3>1. PICK T, U : /\ T = [id : 1..(nextId - 1), label : Labels] /\ T \subseteq U
                      /\ U = [id : 1..(nextId' - 1), label : Labels]
      BY <2>2
    <3>2. log \in Seq(T)
      BY <1>0, <3>1 DEF RestInv
    <3>3. log \in Seq(U)
      <4>1. PICK n \in Nat : n = Len(log) /\ log \in [1..n -> T]
        BY <3>2
      <4>2. log \in [1..n -> U]
        BY <3>1, <4>1
      <4> QED
        BY <4>2
    <3> QED
      BY <2>1, <3>1, <3>3
  <2> QED
    BY <1>0, <1>3, <2>1, <2>3 DEF RestInv
<1>8. ASSUME NEW t \in Tasks, PushEvent(t) PROVE RestInv'
  <2>1. PICK e : /\ e = [id |-> turn[t].ticket, label |-> LabelOf(t)] /\ log' = Pushed(e)
                 /\ turn[t].pc = "push" /\ Within /\ UNCHANGED <<diary, nextId>>
    BY <1>8 DEF PushEvent
  <2>2. turn[t].ticket \in 1..(nextId - 1) /\ LabelOf(t) \in Labels
    <3>1. CASE IsTurn(turn[t], nextId)
      BY <2>1, <3>1 DEF IsTurn, TurnFields, LabelOf, Labels
    <3>2. CASE IsEncoding(turn[t], nextId)
      BY <2>1, <3>2 DEF IsEncoding, LabelOf, Labels
    <3> QED
      BY <1>0, <2>1, <3>1, <3>2, TurnPhase
  <2>3. PICK T : T = [id : 1..(nextId - 1), label : Labels]
    OBVIOUS
  <2>4. e \in T /\ log \in Seq(T) /\ Len(log) <= MaxAudit /\ MaxAudit \in Nat \ {0}
    BY <1>0, <2>1, <2>2, <2>3, AgentChatAssumption DEF RestInv
  <2>5. log' \in Seq(T) /\ Len(log') <= MaxAudit
    <3>1. CASE Len(log) >= MaxAudit
      <4>1. log # <<>>
        BY <2>4, <3>1, EmptySeq
      <4>2. Tail(log) \in Seq(T) /\ Len(Tail(log)) = Len(log) - 1
        BY <2>4, <4>1, HeadTailProperties
      <4>3. log' = Append(Tail(log), e)
        BY <2>1, <3>1 DEF Pushed
      <4> QED
        BY <2>4, <4>2, <4>3
    <3>2. CASE ~(Len(log) >= MaxAudit)
      <4>1. log' = Append(log, e)
        BY <2>1, <3>2 DEF Pushed
      <4> QED
        BY <2>4, <3>2, <4>1
    <3> QED
      BY <3>1, <3>2
  <2> QED
    BY <1>0, <1>3, <2>1, <2>3, <2>5 DEF RestInv
<1>d. diary \in [Agents -> Nat]
  BY <1>0 DEF RestInv
<1>9. ASSUME NEW t \in Tasks, AddNote(t) PROVE RestInv'
  <2>1. Within /\ UNCHANGED <<log, nextId>>
    BY <1>9 DEF AddNote
  <2>2. UNCHANGED diary \/ diary' = [diary EXCEPT ![turn[t].agent] = @ + 1]
    BY <1>9 DEF AddNote, Insert
  <2>3. turn[t].agent \in Agents
    BY <1>0, <1>9, TurnPhase DEF AddNote, IsTurn
  <2>4. diary' \in [Agents -> Nat]
    BY <1>d, <2>2, <2>3
  <2> QED
    BY <1>0, <1>3, <2>1, <2>4, RestDiary
<1>10. ASSUME NEW t \in Tasks, EditDiary(t) PROVE RestInv'
  <2>1. started' \in Nat /\ UNCHANGED <<alone, log, nextId>>
    BY <1>2, <1>10 DEF EditDiary
  <2>2. PICK a \in Agents : \/ diary' = [diary EXCEPT ![a] = @ + 1]
                            \/ diary[a] > 0 /\ diary' = [diary EXCEPT ![a] = @ - 1]
    BY <1>10 DEF EditDiary, Insert
  <2>3. diary' \in [Agents -> Nat]
    BY <1>d, <2>2
  <2> QED
    BY <1>0, <2>1, <2>3, RestDiary
<1>11. ASSUME NEW t \in Tasks, StartEncode(t) PROVE RestInv'
  BY <1>1, <1>2, <1>11 DEF StartEncode
<1>12. ASSUME NEW t \in Tasks, Profiles(t) PROVE RestInv'
  <2>1. UNCHANGED chatVars /\ (Starts(t) \/ Within)
    BY <1>12 DEF Profiles
  <2> QED
    BY <1>1, <1>2, <1>3, <2>1 DEF chatVars
<1>13. CASE Pool
  BY <1>1, <1>3, <1>13 DEF Pool, chatVars
<1>14. CASE Restart
  <2>1. started' \in Nat /\ alone' = alone /\ nextId' = 1 /\ log' = <<>> /\ UNCHANGED diary
    BY <1>0, <1>14 DEF Restart, RestInv
  <2>2. <<>> \in Seq([id : 1..(1 - 1), label : Labels])
    OBVIOUS
  <2>3. Len(<<>>) <= MaxAudit
    BY AgentChatAssumption
  <2> QED
    BY <1>0, <2>1, <2>2, <2>3 DEF RestInv
<1>15. CASE UNCHANGED vars
  BY <1>0, <1>1, <1>15 DEF vars, chatVars, RestInv
<1> QED
  BY <1>4, <1>5, <1>6, <1>7, <1>8, <1>9, <1>10, <1>11, <1>12, <1>13, <1>14, <1>15 DEF Next

LEMMA ChatInvInit == Init => ChatInv
<1> SUFFICES ASSUME Init PROVE ChatInv
  OBVIOUS
<1>1. PoolInv /\ ProfilesInv
  BY PoolInvInit, ProfilesInvInit
<1>2. TurnsInv
  <2>1. turn = [t \in Tasks |-> Idle] /\ nextId = Len(Earlier) + 1 /\ call = [t \in Tasks |-> NoCall]
    BY DEF Init, PoolInit, Tasks
  <2>2. Len(Earlier) \in Nat
    BY AgentChatAssumption
  <2> QED
    BY <2>1, <2>2 DEF TurnsInv, TurnIs
<1>3. RestInv
  <2>1. Earlier \in Seq(Labels) /\ Len(Earlier) <= MaxAudit
    BY AgentChatAssumption DEF Labels
  <2>2. PICK n \in Nat : n = Len(Earlier) /\ DOMAIN Earlier = 1..n
    BY <2>1
  <2>3. log = [k \in 1..n |-> [id |-> k, label |-> Earlier[k]]] /\ nextId = n + 1
    BY <2>2 DEF Init
  <2>4. \A k \in 1..n : [id |-> k, label |-> Earlier[k]] \in [id : 1..n, label : Labels]
    BY <2>1, <2>2
  <2>5. log \in [1..n -> [id : 1..n, label : Labels]]
    BY <2>3, <2>4
  <2>6. log \in Seq([id : 1..n, label : Labels]) /\ Len(log) = n /\ n = nextId - 1
    BY <2>2, <2>3, <2>5
  <2>7. diary \in [Agents -> Nat] /\ alone \in BOOLEAN /\ started = 0
    BY AgentChatAssumption DEF Init
  <2> QED
    BY <2>1, <2>2, <2>6, <2>7 DEF RestInv
<1> QED
  BY <1>1, <1>2, <1>3 DEF ChatInv

LEMMA ChatStep == ChatInv /\ [Next]_vars => ChatInv'
BY PoolInvStep, ProfilesStep, TurnsInductive, RestInductive DEF ChatInv

LEMMA ChatIsTyped == ChatInv => TypeOK
<1> SUFFICES ASSUME ChatInv PROVE TypeOK
  OBVIOUS
<1>1. PoolTypeOK /\ ProfilesTypeOK
  BY PoolIsSound DEF ChatInv, ProfilesInv
<1>2. ASSUME NEW t \in Tasks
      PROVE  \/ turn[t] = Idle \/ turn[t] \in [pc : {"encode", "encoded", "push"}, ticket : Nat]
             \/ /\ turn[t].pc \in TurnPhases /\ turn[t].agent \in Agents
                /\ turn[t].filled \subseteq Variables
                /\ turn[t].notes \in Nat /\ turn[t].ticket < nextId
  <2>1. TurnIs(turn[t], nextId)
    BY DEF ChatInv, TurnsInv
  <2>2. CASE IsEncoding(turn[t], nextId)
    BY <2>2 DEF IsEncoding
  <2>3. CASE IsTurn(turn[t], nextId)
    BY <2>3 DEF IsTurn
  <2> QED
    BY <2>1, <2>2, <2>3 DEF TurnIs
<1> QED
  BY <1>1, <1>2 DEF TypeOK, ChatInv, TurnsInv, RestInv, Waits


-----------------------------------------------------------------------------
(* What the model is sent                                                    *)

LEMMA ActiveIsContent ==
    ASSUME NEW b \in Block, Consistent(b)
    PROVE  Active(b) = b.content
<1>1. b.variants \in Seq(Contents) /\ b.selected \in Nat /\ b.selected + 1 \in DOMAIN b.variants
  BY DEF Block, Consistent
<1>2. b.selected < Len(b.variants)
  BY <1>1
<1> QED
  BY <1>2 DEF Active, Consistent

LEMMA BlockOrder ==
    ASSUME NEW blocks \in Seq(Block), NEW K \in SUBSET DOMAIN blocks
    PROVE  StrictOrder(K, InOrder(blocks, K))
<1>1. \A k \in K : k \in Nat /\ blocks[k].order \in Nat
  <2>1. DOMAIN blocks = 1..Len(blocks) /\ \A k \in DOMAIN blocks : blocks[k] \in Block
    OBVIOUS
  <2> QED
    BY <2>1 DEF Block
<1>2. \A i, j \in K : <<i, j>> \in InOrder(blocks, K) <=>
         \/ blocks[i].order < blocks[j].order
         \/ blocks[i].order = blocks[j].order /\ i < j
  BY DEF InOrder
<1> QED
  BY <1>1, <1>2 DEF StrictOrder

(* The modular prompt is made of the blocks the editor shows, in their order.    *)
LEMMA ModularShown ==
    ASSUME NEW c, Sound(c), \A b \in Range(c.blocks) : Consistent(b), NEW filled
    PROVE  LET sent == Modular(c, filled)
               shown == {b \in Range(c.blocks) :
                           b.enabled /\ (b.content \notin Bare \/ Mentions[b.content] \cap filled # {})}
           IN  /\ {<<p.id, p.content>> : p \in Range(sent)} = {<<b.id, b.content>> : b \in shown}
               /\ \A j, k \in DOMAIN sent : j < k =>
                     \E x, y \in shown : /\ <<x.id, x.content>> = <<sent[j].id, sent[j].content>>
                                         /\ <<y.id, y.content>> = <<sent[k].id, sent[k].content>>
                                         /\ x.order <= y.order
<1> DEFINE PartOf(b) == Part(b.id, Active(b), filled)
           sent == Modular(c, filled)
           shown == {b \in Range(c.blocks) :
                       b.enabled /\ (b.content \notin Bare \/ Mentions[b.content] \cap filled # {})}
<1>1. PICK blocks \in Seq(Block) : blocks = c.blocks /\ \A k \in DOMAIN blocks : blocks[k] \in Block /\ Consistent(blocks[k])
  BY DEF Sound, Config, Range
<1>2. PICK K : K = {k \in DOMAIN blocks : blocks[k].enabled /\ Says(PartOf(blocks[k]))}
  OBVIOUS
<1>3. PICK f : f = Ranked(K, InOrder(blocks, K))
  OBVIOUS
<1>4. PICK N : N = Cardinality(K)
  OBVIOUS
<1>5. /\ N \in Nat /\ f \in [1..N -> K]
      /\ \A a, b \in 1..N : a < b => <<f[a], f[b]>> \in InOrder(blocks, K)
      /\ \A k \in K : \E n \in 1..N : f[n] = k
  <2>1. K \in SUBSET DOMAIN blocks
    BY <1>2
  <2>2. Lists(f, K, InOrder(blocks, K))
    BY <1>3, <2>1, PlacesFinite, BlockOrder, RankedLists
  <2> QED
    BY <1>4, <2>2 DEF Lists
<1>6. sent = [n \in 1..N |-> PartOf(blocks[f[n]])]
  <2>1. sent = [n \in DOMAIN f |-> PartOf(blocks[f[n]])]
    BY <1>1, <1>2, <1>3 DEF Modular
  <2> HIDE DEF sent, PartOf
  <2> QED
    BY <1>5, <2>1
<1>7. ASSUME NEW b \in Block, Consistent(b)
      PROVE  /\ PartOf(b).id = b.id /\ PartOf(b).content = b.content
             /\ Says(PartOf(b)) <=> b.content \notin Bare \/ Mentions[b.content] \cap filled # {}
  BY <1>7, ActiveIsContent DEF Part, Says
<1>8. \A b : b \in shown <=> \E k \in K : b = blocks[k]
  BY <1>1, <1>2, <1>7 DEF Range
<1> HIDE DEF sent, shown, PartOf
<1>9. \A n \in 1..N : /\ f[n] \in K /\ blocks[f[n]] \in shown
                      /\ sent[n].id = blocks[f[n]].id /\ sent[n].content = blocks[f[n]].content
  <2>1. ASSUME NEW n \in 1..N
        PROVE  /\ f[n] \in K /\ blocks[f[n]] \in shown /\ sent[n] = PartOf(blocks[f[n]])
               /\ blocks[f[n]] \in Block /\ Consistent(blocks[f[n]])
    BY <1>1, <1>2, <1>5, <1>6, <1>8
  <2> QED
    BY <2>1, <1>7
<1>10. ASSUME NEW x
       PROVE  x \in {<<p.id, p.content>> : p \in Range(sent)} <=> x \in {<<b.id, b.content>> : b \in shown}
  <2>1. DOMAIN sent = 1..N
    BY <1>6
  <2>2. x \in {<<p.id, p.content>> : p \in Range(sent)} <=> \E n \in 1..N : x = <<sent[n].id, sent[n].content>>
    BY <2>1 DEF Range
  <2>3. x \in {<<b.id, b.content>> : b \in shown} <=> \E k \in K : x = <<blocks[k].id, blocks[k].content>>
    BY <1>8
  <2>4. ASSUME NEW n \in 1..N
        PROVE  f[n] \in K /\ <<sent[n].id, sent[n].content>> = <<blocks[f[n]].id, blocks[f[n]].content>>
    BY <1>9
  <2>5. ASSUME NEW k \in K
        PROVE  \E n \in 1..N : <<sent[n].id, sent[n].content>> = <<blocks[k].id, blocks[k].content>>
    BY <1>5, <2>4
  <2>6. ASSUME NEW n \in 1..N, x = <<sent[n].id, sent[n].content>>
        PROVE  \E k \in K : x = <<blocks[k].id, blocks[k].content>>
    BY <2>4, <2>6, Zenon
  <2>7. ASSUME NEW k \in K, x = <<blocks[k].id, blocks[k].content>>
        PROVE  \E n \in 1..N : x = <<sent[n].id, sent[n].content>>
    BY <2>5, <2>7, Zenon
  <2> QED
    BY <2>2, <2>3, <2>6, <2>7, Zenon
<1>11. ASSUME NEW j \in DOMAIN sent, NEW k \in DOMAIN sent, j < k
       PROVE  \E x, y \in shown : /\ <<x.id, x.content>> = <<sent[j].id, sent[j].content>>
                                  /\ <<y.id, y.content>> = <<sent[k].id, sent[k].content>>
                                  /\ x.order <= y.order
  <2>1. j \in 1..N /\ k \in 1..N
    BY <1>6
  <2>2. <<f[j], f[k]>> \in InOrder(blocks, K)
    BY <1>5, <1>11, <2>1
  <2>3. blocks[f[j]].order <= blocks[f[k]].order
    <3>1. blocks[f[j]].order \in Nat /\ blocks[f[k]].order \in Nat
      BY <1>1, <1>2, <1>9, <2>1 DEF Block
    <3>2. blocks[f[j]].order < blocks[f[k]].order \/ blocks[f[j]].order = blocks[f[k]].order
      BY <2>2 DEF InOrder
    <3> QED
      BY <3>1, <3>2
  <2> QED
    BY <1>9, <2>1, <2>3
<1> QED
  BY <1>10, <1>11 DEF sent, shown

LEMMA PromptIsSound == ChatInv => PromptIsAsShown
<1> SUFFICES ASSUME ChatInv PROVE PromptIsAsShown
  OBVIOUS
<1>1. TypeOK /\ ContentIsActive
  BY ChatIsTyped DEF ChatInv, ProfilesInv
<1>2. ASSUME NEW t \in Sending
      PROVE  Sent(turn[t])
  <2>1. TurnIs(turn[t], nextId) /\ turn[t].pc = "model"
    BY DEF ChatInv, TurnsInv, Sending
  <2> QED
    BY <2>1, TurnPhase DEF IsTurn
<1>3. SentAsShown
  <2>1. ASSUME NEW t \in Sending, turn[t].using # NoRow, turn[t].using.mode = "modular"
        PROVE  Sound(turn[t].using) /\ turn[t].prompt = Modular(turn[t].using, turn[t].filled)
    <3>1. Sound(turn[t].using) /\ turn[t].prompt = Built(turn[t].using, turn[t].filled)
      BY <1>2, <2>1 DEF Sent
    <3> QED
      BY <2>1, <3>1 DEF Built
  <2> QED
    BY <2>1, ModularShown DEF SentAsShown
<1> QED
  BY <1>1, <1>3 DEF PromptIsAsShown

(* A stored block is sent as the editor shows it unless a client sent it to be       *)
(* stored otherwise: no edit of the server parts what is shown from what is sent,     *)
(* whatever clients send (no block has to agree with itself, and ids may repeat),      *)
(* however many edits overlap.  A modular prompt whose blocks all agree is what the    *)
(* editor shows.                                                                *)
THEOREM PromptStaysAsShown == Spec => []PromptIsAsShown
BY ChatInvInit, ChatStep, PromptIsSound, PTL DEF Spec


-----------------------------------------------------------------------------
(* Requests that do not overlap                                              *)

AloneInv == alone => \A t, u \in Tasks : ~Free(t) /\ ~Free(u) => t = u

StayFree(t) == \A u \in Tasks \ {t} : turn[u] = Idle /\ edit[u] = NoEdit => turn'[u] = Idle /\ edit'[u] = NoEdit

(* A step of a request that goes on, or of one that starts.                     *)
ActsAlone(t) == alone' = alone /\ StayFree(t) /\ (~Free(t) \/ (alone => \A u \in Tasks : Free(u)))

LEMMA BecomesAlone ==
    ASSUME ChatInv, NEW t \in Tasks, NEW r, Becomes(t, r), edit' = edit
    PROVE  StayFree(t)
BY DEF ChatInv, TurnsInv, Becomes, StayFree

LEMMA EditsAlone ==
    ASSUME ChatInv, NEW t \in Tasks, Profiles(t)
    PROVE  StayFree(t)
<1>0. Editors = Tasks /\ edit = [e \in Editors |-> edit[e]]
  BY AgentChatAssumption DEF Tasks, ChatInv, ProfilesInv
<1>1. turn' = turn
  BY DEF Profiles, chatVars
<1>2. ASSUME NEW row, NEW new, NEW names, Edits(t, row, new, names) PROVE StayFree(t)
  BY <1>0, <1>1, <1>2 DEF Edits, StayFree
<1>3. ASSUME NEW row, NEW value, Writes(t, row, value, NoEdit) PROVE StayFree(t)
  <2>1. \A u \in Tasks \ {t} : edit[u] = NoEdit => edit'[u] = NoEdit
    BY <1>0, <1>3 DEF Writes, EditAfterWrite
  <2> QED
    BY <1>1, <2>1 DEF StayFree
<1>4. ASSUME NEW a \in Agents, EditAgent(t, a) PROVE StayFree(t)
  <2>1. CASE CreateAgent(t, a)
    BY <1>2, <2>1 DEF CreateAgent
  <2>2. CASE UpdateAgent(t, a)
    BY <1>2, <2>2 DEF UpdateAgent
  <2>3. CASE DeleteAgent(t, a)
    BY <1>3, <2>3 DEF DeleteAgent, Erases
  <2> QED
    BY <1>4, <2>1, <2>2, <2>3 DEF EditAgent
<1>5. ASSUME NEW a \in Agents, EditConfig(t, a) PROVE StayFree(t)
  <2>1. CASE SaveConfig(t, a)
    BY <1>3, <2>1 DEF SaveConfig
  <2>2. CASE SwitchMode(t, a)
    BY <1>2, <2>2 DEF SwitchMode
  <2>3. CASE AddBlock(t, a)
    BY <1>2, <2>3 DEF AddBlock
  <2>4. CASE UpdateBlock(t, a)
    BY <1>2, <2>4 DEF UpdateBlock
  <2>5. CASE DeleteBlock(t, a)
    BY <1>2, <2>5 DEF DeleteBlock
  <2>6. CASE ReorderBlocks(t, a)
    BY <1>2, <2>6 DEF ReorderBlocks
  <2>7. CASE AddVariant(t, a)
    BY <1>2, <2>7 DEF AddVariant
  <2>8. CASE SelectVariant(t, a)
    BY <1>2, <2>8 DEF SelectVariant
  <2> QED
    BY <1>5, <2>1, <2>2, <2>3, <2>4, <2>5, <2>6, <2>7, <2>8 DEF EditConfig
<1>6. CASE SaveWarehouse(t) \/ DeleteWarehouse(t)
  <2>1. edit' = edit
    BY <1>6 DEF SaveWarehouse, DeleteWarehouse, PutWarehouse
  <2> QED
    BY <1>1, <2>1 DEF StayFree
<1>7. CASE SaveEdit(t)
  BY <1>3, <1>7 DEF SaveEdit
<1>8. CASE SaveEditFails(t)
  BY <1>0, <1>1, <1>8 DEF SaveEditFails, StayFree
<1> QED
  BY <1>4, <1>5, <1>6, <1>7, <1>8 DEF Profiles

LEMMA OneActor ==
    ASSUME ChatInv, NEW t \in Tasks
    PROVE  /\ \A a \in Agents : StartTurn(t, a) => ActsAlone(t)
           /\ ReadDiary(t) \/ BuildPrompt(t) \/ CutPanics(t) \/ ModelReturns(t) \/ TakeTicket(t)
                 \/ PushEvent(t) \/ Observe(t) \/ AddNote(t) \/ Encoded(t) \/ Cancel(t) =>
                    ActsAlone(t) /\ ~Free(t)
           /\ EditDiary(t) \/ StartEncode(t) \/ Profiles(t) => ActsAlone(t)
<1>1. Starts(t) => alone' = alone /\ (alone => \A u \in Tasks : Free(u))
  BY DEF Starts
<1>2. Within => alone' = alone
  BY DEF Within
<1>3. turn[t].pc # "idle" => ~Free(t)
  BY DEF Free, Idle
<1>4. UNCHANGED profileVars => edit' = edit
  BY DEF profileVars
<1>5. ASSUME NEW a \in Agents, StartTurn(t, a) PROVE ActsAlone(t)
  <2>1. Starts(t) /\ UNCHANGED profileVars /\ \E r : Becomes(t, r)
    BY <1>5 DEF StartTurn
  <2> QED
    BY <1>1, <1>4, <2>1, BecomesAlone DEF ActsAlone
<1>6. ASSUME NEW r, Becomes(t, r), Within, UNCHANGED profileVars, turn[t].pc # "idle"
      PROVE  ActsAlone(t) /\ ~Free(t)
  BY <1>2, <1>3, <1>4, <1>6, BecomesAlone DEF ActsAlone
<1>7. ASSUME ReadDiary(t) \/ BuildPrompt(t) \/ CutPanics(t) PROVE ActsAlone(t) /\ ~Free(t)
  <2>1. /\ Within /\ UNCHANGED profileVars /\ turn[t].pc # "idle"
        /\ \E r : Becomes(t, r)
    BY <1>7 DEF ReadDiary, BuildPrompt, CutPanics, Goto
  <2> QED
    BY <1>6, <2>1
<1>8. ASSUME ModelReturns(t) \/ TakeTicket(t) \/ PushEvent(t) PROVE ActsAlone(t) /\ ~Free(t)
  <2>1. /\ Within /\ UNCHANGED profileVars /\ turn[t].pc # "idle"
        /\ \E r : Becomes(t, r)
    BY <1>8 DEF ModelReturns, TakeTicket, PushEvent, Goto
  <2> QED
    BY <1>6, <2>1
<1>9. ASSUME Observe(t) \/ AddNote(t) \/ Encoded(t) \/ Cancel(t) PROVE ActsAlone(t) /\ ~Free(t)
  <2>1. /\ Within /\ UNCHANGED profileVars /\ turn[t].pc # "idle"
        /\ \E r : Becomes(t, r)
    BY <1>9 DEF Observe, AddNote, Encoded, Cancel
  <2> QED
    BY <1>6, <2>1
<1>10. ASSUME EditDiary(t) PROVE ActsAlone(t)
  <2>1. Starts(t) /\ UNCHANGED profileVars /\ turn' = turn
    BY <1>10 DEF EditDiary
  <2> QED
    BY <1>1, <1>4, <2>1 DEF ActsAlone, StayFree
<1>11. ASSUME StartEncode(t) PROVE ActsAlone(t)
  <2>1. Starts(t) /\ UNCHANGED profileVars /\ \E r : Becomes(t, r)
    BY <1>11 DEF StartEncode
  <2> QED
    BY <1>1, <1>4, <2>1, BecomesAlone DEF ActsAlone
<1>12. ASSUME Profiles(t) PROVE ActsAlone(t)
  <2>1. Starts(t) \/ (Within /\ ~Free(t))
    BY <1>12 DEF Profiles, SaveEdit, SaveEditFails, Free
  <2> QED
    BY <1>1, <1>2, <1>12, <2>1, EditsAlone DEF ActsAlone
<1> QED
  BY <1>5, <1>7, <1>8, <1>9, <1>10, <1>11, <1>12

LEMMA AloneInductive == ChatInv /\ AloneInv /\ [Next]_vars => AloneInv'
<1> SUFFICES ASSUME ChatInv, AloneInv, [Next]_vars PROVE AloneInv'
  OBVIOUS
<1>1. ASSUME NEW t \in Tasks, ActsAlone(t) PROVE AloneInv'
  <2>1. ASSUME alone', NEW u \in Tasks, NEW v \in Tasks, ~Free(u)', ~Free(v)'
        PROVE  u = v
    <3>1. \A w \in Tasks : w # t /\ Free(w) => Free(w)'
      BY <1>1 DEF ActsAlone, StayFree, Free
    <3>2. CASE ~Free(t)
      <4>1. \A w \in Tasks : ~Free(w)' => w = t
        BY <1>1, <2>1, <3>1, <3>2 DEF ActsAlone, AloneInv
      <4> QED
        BY <2>1, <4>1
    <3>3. CASE \A w \in Tasks : Free(w)
      BY <2>1, <3>1, <3>3
    <3> QED
      BY <1>1, <2>1, <3>2, <3>3 DEF ActsAlone
  <2> QED
    BY <2>1 DEF AloneInv
<1>2. ASSUME UNCHANGED <<turn, edit, alone>> PROVE AloneInv'
  BY <1>2 DEF AloneInv, Free
<1>3. CASE Pool
  BY <1>2, <1>3 DEF Pool, profileVars, chatVars, Within
<1>4. CASE Restart
  <2>1. Editors = Tasks
    BY AgentChatAssumption DEF Tasks
  <2>2. \A t \in Tasks : turn'[t] = Idle /\ edit'[t] = NoEdit
    BY <1>4, <2>1 DEF Restart, ProfilesRestart
  <2> QED
    BY <2>2 DEF AloneInv, Free
<1>5. CASE UNCHANGED vars
  BY <1>2, <1>5 DEF vars, profileVars, chatVars
<1> QED
  BY <1>1, <1>3, <1>4, <1>5, OneActor DEF Next


-----------------------------------------------------------------------------
(* The audit log                                                             *)

(* The events up to a last one, as many of them as there is room for.          *)
Ends(last, l) ==
    /\ Len(l) = LeastOf(MaxAudit, last)
    /\ \A k \in DOMAIN l : l[k].id = last - Len(l) + k

AuditInv ==
    alone =>
        /\ (\A t \in Tasks : turn[t].pc # "push") => Ends(nextId - 1, log)
        /\ \A t \in Tasks : turn[t].pc = "push" => turn[t].ticket = nextId - 1 /\ Ends(nextId - 2, log)

AuditChatInv == ChatInv /\ AloneInv /\ AuditInv

LEMMA AuditSame ==
    ASSUME AuditInv, UNCHANGED <<alone, nextId, log>>,
           \A u \in Tasks : turn[u].pc = "push" \/ turn'[u].pc = "push" => turn'[u] = turn[u]
    PROVE  AuditInv'
BY DEF AuditInv

LEMMA AuditBecomes ==
    ASSUME AuditChatInv, UNCHANGED <<alone, nextId, log>>,
           NEW t \in Tasks, turn[t].pc # "push", NEW r, r.pc # "push", Becomes(t, r)
    PROVE  AuditInv'
<1>1. \A u \in Tasks : turn'[u] = IF u = t THEN r ELSE turn[u]
  BY DEF AuditChatInv, ChatInv, TurnsInv, Becomes
<1> QED
  BY <1>1, AuditSame DEF AuditChatInv

LEMMA EventPushed ==
    ASSUME NEW last \in Nat, NEW event, event.id = last + 1, Ends(last, log),
           NEW E, event \in E, log \in Seq(E), Len(log) <= MaxAudit
    PROVE  Ends(last + 1, Pushed(event))
<1>0. MaxAudit \in Nat \ {0}
  BY AgentChatAssumption
<1>1. PICK n \in Nat : n = Len(log) /\ DOMAIN log = 1..n
  OBVIOUS
<1>2. n = LeastOf(MaxAudit, last) /\ \A k \in 1..n : log[k].id = last - n + k
  BY <1>1 DEF Ends
<1>3. CASE n >= MaxAudit
  <2>1. n = MaxAudit /\ last >= MaxAudit
    BY <1>0, <1>2, <1>3 DEF LeastOf
  <2>2. PICK s \in Seq(E) : s = Tail(log) /\ Len(s) = n - 1 /\ \A k \in 1..(n - 1) : s[k] = log[k + 1]
    <3>1. log # <<>>
      BY <1>0, <1>1, <2>1, EmptySeq
    <3>2. Tail(log) \in Seq(E) /\ Len(Tail(log)) = Len(log) - 1 /\ \A k \in 1..Len(Tail(log)) : Tail(log)[k] = log[k + 1]
      BY <3>1, HeadTailProperties
    <3> QED
      BY <1>1, <3>2
  <2>3. Pushed(event) = Append(s, event)
    BY <1>1, <1>3, <2>2 DEF Pushed
  <2>4. /\ Len(Append(s, event)) = n /\ DOMAIN Append(s, event) = 1..n
        /\ Append(s, event)[n] = event /\ \A k \in 1..(n - 1) : Append(s, event)[k] = log[k + 1]
    BY <1>0, <2>1, <2>2
  <2>5. ASSUME NEW k \in 1..n PROVE Append(s, event)[k].id = last + 1 - n + k
    <3>1. CASE k = n
      BY <2>4, <3>1
    <3>2. CASE k # n
      <4>1. k \in 1..(n - 1) /\ k + 1 \in 1..n
        BY <3>2
      <4>2. log[k + 1].id = last - n + (k + 1)
        BY <1>2, <4>1
      <4> QED
        BY <2>4, <4>1, <4>2
    <3> QED
      BY <3>1, <3>2
  <2>6. n = LeastOf(MaxAudit, last + 1)
    BY <1>0, <2>1 DEF LeastOf
  <2>7. PICK pushed : pushed = Append(s, event)
    OBVIOUS
  <2>8. Len(pushed) = n /\ DOMAIN pushed = 1..n /\ \A k \in 1..n : pushed[k].id = last + 1 - n + k
    BY <2>4, <2>5, <2>7
  <2>9. Ends(last + 1, pushed)
    BY <2>6, <2>8 DEF Ends
  <2> QED
    BY <2>3, <2>7, <2>9
<1>4. CASE ~(n >= MaxAudit)
  <2>1. n = last /\ last + 1 <= MaxAudit
    BY <1>0, <1>2, <1>4 DEF LeastOf
  <2>2. Pushed(event) = Append(log, event)
    BY <1>1, <1>4 DEF Pushed
  <2>3. /\ Len(Append(log, event)) = n + 1 /\ DOMAIN Append(log, event) = 1..(n + 1)
        /\ Append(log, event)[n + 1] = event /\ \A k \in 1..n : Append(log, event)[k] = log[k]
    BY <1>1
  <2>4. ASSUME NEW k \in 1..(n + 1) PROVE Append(log, event)[k].id = last + 1 - (n + 1) + k
    <3>1. CASE k = n + 1
      BY <2>1, <2>3, <3>1
    <3>2. CASE k # n + 1
      <4>1. k \in 1..n
        BY <3>2
      <4> QED
        BY <1>2, <2>1, <2>3, <4>1
    <3> QED
      BY <3>1, <3>2
  <2>5. n + 1 = LeastOf(MaxAudit, last + 1)
    BY <1>0, <2>1 DEF LeastOf
  <2>6. PICK pushed : pushed = Append(log, event)
    OBVIOUS
  <2>7. /\ Len(pushed) = n + 1 /\ DOMAIN pushed = 1..(n + 1)
        /\ \A k \in 1..(n + 1) : pushed[k].id = last + 1 - (n + 1) + k
    BY <2>3, <2>4, <2>6
  <2>8. Ends(last + 1, pushed)
    BY <2>5, <2>7 DEF Ends
  <2> QED
    BY <2>2, <2>6, <2>8
<1> QED
  BY <1>3, <1>4


LEMMA AuditEvents ==
    ASSUME AuditChatInv, NEW t \in Tasks
    PROVE  /\ TakeTicket(t) => AuditInv'
           /\ PushEvent(t) => AuditInv'
<1>0. /\ TurnIs(turn[t], nextId) /\ nextId \in Nat \ {0}
      /\ log \in Seq([id : 1..(nextId - 1), label : Labels]) /\ Len(log) <= MaxAudit
  BY DEF AuditChatInv, ChatInv, TurnsInv, RestInv
<1>1. ASSUME ~Free(t), alone, NEW u \in Tasks, u # t PROVE turn[u].pc # "push"
  BY <1>1 DEF AuditChatInv, AloneInv, Free, Idle
<1>2. ASSUME TakeTicket(t) PROVE AuditInv'
  <2>1. alone' = alone /\ log' = log /\ nextId' = nextId + 1
    BY <1>2 DEF TakeTicket, Within
  <2>2. ~Free(t) /\ turn[t].pc # "push"
    BY <1>2 DEF TakeTicket, Free, Idle
  <2>3. alone => Ends(nextId - 1, log)
    BY <1>1, <2>2 DEF AuditChatInv, AuditInv
  <2>4. IsTurn(turn[t], nextId) \/ IsEncoding(turn[t], nextId)
    BY <1>0, <1>2, TurnPhase DEF TakeTicket
  <2>5. PICK r : r = [turn[t] EXCEPT !.pc = "push", !.ticket = nextId] /\ Becomes(t, r)
    BY <1>2 DEF TakeTicket
  <2>6. r.pc = "push" /\ r.ticket = nextId
    BY <2>4, <2>5 DEF IsTurn, IsEncoding, TurnFields
  <2>7. \A u \in Tasks : turn'[u] = IF u = t THEN r ELSE turn[u]
    BY <2>5 DEF AuditChatInv, ChatInv, TurnsInv, Becomes
  <2>8. nextId' - 1 = nextId /\ nextId' - 2 = nextId - 1
    BY <1>0, <2>1
  <2>9. ASSUME alone PROVE \A u \in Tasks : turn'[u].pc = "push" => u = t
    BY <1>1, <2>2, <2>7, <2>9
  <2>10. turn'[t].pc = "push" /\ turn'[t].ticket = nextId
    BY <2>6, <2>7
  <2> QED
    BY <2>1, <2>3, <2>8, <2>9, <2>10 DEF AuditInv
<1>3. ASSUME PushEvent(t) PROVE AuditInv'
  <2>1. alone' = alone /\ nextId' = nextId /\ turn[t].pc = "push" /\ ~Free(t)
    BY <1>3 DEF PushEvent, Within, Free, Idle
  <2>2. PICK event : event = [id |-> turn[t].ticket, label |-> LabelOf(t)] /\ log' = Pushed(event)
    BY <1>3 DEF PushEvent
  <2>3. PICK r : Becomes(t, r) /\ r.pc # "push"
    <3>1. CASE Goto(t, "observe")
      <4>1. IsTurn(turn[t], nextId) \/ IsEncoding(turn[t], nextId)
        BY <1>0, <2>1, TurnPhase
      <4> QED
        BY <3>1, <4>1 DEF Goto, IsTurn, IsEncoding, TurnFields
    <3>2. CASE Becomes(t, Idle)
      BY <3>2 DEF Idle
    <3> QED
      BY <1>3, <3>1, <3>2 DEF PushEvent
  <2>4. \A u \in Tasks : turn'[u] = IF u = t THEN r ELSE turn[u]
    BY <2>3 DEF AuditChatInv, ChatInv, TurnsInv, Becomes
  <2>5. ASSUME alone PROVE \A u \in Tasks : turn'[u].pc # "push"
    BY <1>1, <2>1, <2>3, <2>4, <2>5
  <2>6. ASSUME alone PROVE Ends(nextId - 1, log')
    <3>1. turn[t].ticket = nextId - 1 /\ Ends(nextId - 2, log)
      BY <2>1, <2>6 DEF AuditChatInv, AuditInv
    <3>2. turn[t].ticket \in 1..(nextId - 1)
      BY <1>0, <2>1, TurnPhase DEF IsTurn, IsEncoding
    <3>3. PICK E : log \in Seq(E) /\ event \in E
      <4>1. PICK D : D = [id : 1..(nextId - 1), label : Labels]
        OBVIOUS
      <4>2. log \in Seq(D)
        BY <1>0, <4>1
      <4>3. log \in Seq(D \cup {event})
        <5>1. log \in [1..Len(log) -> D] /\ Len(log) \in Nat
          BY <4>2
        <5>2. log \in [1..Len(log) -> D \cup {event}]
          BY <5>1
        <5> QED
          BY <5>1, <5>2
      <4> QED
        BY <4>3
    <3>4. PICK last \in Nat : last = nextId - 2 /\ last + 1 = nextId - 1
      BY <1>0, <3>2
    <3>5. event.id = last + 1
      BY <2>2, <3>1, <3>4
    <3>6. Ends(last, log)
      BY <3>1, <3>4
    <3>7. Ends(last + 1, Pushed(event))
      BY <1>0, <3>3, <3>5, <3>6, EventPushed
    <3> QED
      BY <2>2, <3>4, <3>7
  <2> QED
    BY <2>1, <2>5, <2>6 DEF AuditInv
<1> QED
  BY <1>2, <1>3

LEMMA AuditInductive == AuditChatInv /\ [Next]_vars => AuditChatInv'
<1> SUFFICES ASSUME AuditChatInv, [Next]_vars PROVE AuditInv'
  BY ChatStep, AloneInductive DEF AuditChatInv
<1>0. \A t \in Tasks : TurnIs(turn[t], nextId)
  BY DEF AuditChatInv, ChatInv, TurnsInv
<1>1. ASSUME UNCHANGED <<alone, nextId, log, turn>> PROVE AuditInv'
  BY <1>1, AuditSame DEF AuditChatInv
<1>2. ASSUME NEW t \in Tasks, NEW a \in Agents, StartTurn(t, a) PROVE AuditInv'
  <2>1. PICK p : p = personas[a]
    OBVIOUS
  <2>2. PICK S : S = {"user_message"} \cup IF p # NoRow /\ p["system_prompt"] = Blank THEN {} ELSE {"system_prompt"}
    OBVIOUS
  <2>3. Becomes(t, [Turn(a, "diary") EXCEPT !.filled = S]) /\ UNCHANGED <<nextId, log>> /\ Starts(t)
    BY <1>2, <2>1, <2>2 DEF StartTurn
  <2>4. [Turn(a, "diary") EXCEPT !.filled = S].pc = "diary"
    BY DEF Turn
  <2>5. turn[t].pc # "push" /\ alone' = alone
    BY <2>3 DEF Starts, Free, Idle
  <2> QED
    BY <2>3, <2>4, <2>5, AuditBecomes
<1>3. ASSUME NEW t \in Tasks, ReadDiary(t) PROVE AuditInv'
  <2>1. UNCHANGED <<alone, nextId, log>> /\ turn[t].pc = "diary" /\ IsTurn(turn[t], nextId)
    BY <1>0, <1>3, TurnPhase DEF ReadDiary, Within
  <2>2. PICK r : Becomes(t, r) /\ r.pc = "build"
    <3>1. CASE Goto(t, "build")
      BY <2>1, <3>1 DEF Goto, IsTurn, TurnFields
    <3>2. CASE ~Goto(t, "build")
      <4>1. PICK F : Becomes(t, [turn[t] EXCEPT !.pc = "build", !.filled = F])
        BY <1>3, <3>2 DEF ReadDiary
      <4>2. PICK r : r = [turn[t] EXCEPT !.pc = "build", !.filled = F]
        OBVIOUS
      <4>3. Becomes(t, r) /\ r.pc = "build"
        BY <2>1, <4>1, <4>2 DEF IsTurn, TurnFields
      <4> QED
        BY <4>3
    <3> QED
      BY <3>1, <3>2
  <2> QED
    BY <2>1, <2>2, AuditBecomes
<1>4. ASSUME NEW t \in Tasks, BuildPrompt(t) PROVE AuditInv'
  <2>1. UNCHANGED <<alone, nextId, log>> /\ turn[t].pc = "build" /\ IsTurn(turn[t], nextId)
    BY <1>0, <1>4, TurnPhase DEF BuildPrompt, Within
  <2>2. PICK c, F, P : Becomes(t, [turn[t] EXCEPT !.pc = "model", !.using = c, !.filled = F, !.prompt = P])
    BY <1>4 DEF BuildPrompt
  <2>3. [turn[t] EXCEPT !.pc = "model", !.using = c, !.filled = F, !.prompt = P].pc = "model"
    BY <2>1 DEF IsTurn, TurnFields
  <2> QED
    BY <2>1, <2>2, <2>3, AuditBecomes
<1>5. ASSUME NEW t \in Tasks, ModelReturns(t) PROVE AuditInv'
  <2>1. UNCHANGED <<alone, nextId, log>> /\ turn[t].pc = "model"
    BY <1>5 DEF ModelReturns, Within
  <2>2. PICK r : Becomes(t, r) /\ r.pc # "push"
    <3>1. CASE Becomes(t, Idle)
      BY <3>1 DEF Idle
    <3>2. CASE Becomes(t, Turn(turn[t].agent, "audit"))
      BY <3>2 DEF Turn
    <3> QED
      BY <1>5, <3>1, <3>2 DEF ModelReturns
  <2> QED
    BY <2>1, <2>2, AuditBecomes
<1>6. ASSUME NEW t \in Tasks, Observe(t) PROVE AuditInv'
  <2>1. UNCHANGED <<alone, nextId, log>> /\ turn[t].pc = "observe" /\ IsTurn(turn[t], nextId)
    BY <1>0, <1>6, TurnPhase DEF Observe, Within
  <2>2. PICK r : Becomes(t, r) /\ r.pc # "push"
    <3>1. CASE Becomes(t, Idle)
      BY <3>1 DEF Idle
    <3>2. ASSUME NEW notes, Becomes(t, [turn[t] EXCEPT !.pc = "note", !.notes = notes])
          PROVE  \E r : Becomes(t, r) /\ r.pc # "push"
      <4>1. PICK r : r = [turn[t] EXCEPT !.pc = "note", !.notes = notes]
        OBVIOUS
      <4>2. Becomes(t, r) /\ r.pc = "note"
        BY <2>1, <3>2, <4>1 DEF IsTurn, TurnFields
      <4> QED
        BY <4>2
    <3> QED
      BY <1>6, <3>1, <3>2 DEF Observe
  <2> QED
    BY <2>1, <2>2, AuditBecomes
<1>7. ASSUME NEW t \in Tasks, AddNote(t) PROVE AuditInv'
  <2>1. UNCHANGED <<alone, nextId, log>> /\ turn[t].pc = "note" /\ IsTurn(turn[t], nextId)
    BY <1>0, <1>7, TurnPhase DEF AddNote, Within
  <2>2. PICK r : Becomes(t, r) /\ r.pc # "push"
    <3>1. CASE Becomes(t, Idle)
      BY <3>1 DEF Idle
    <3>2. ASSUME NEW notes, Becomes(t, [turn[t] EXCEPT !.notes = notes])
          PROVE  \E r : Becomes(t, r) /\ r.pc # "push"
      BY <2>1, <3>2 DEF IsTurn, TurnFields
    <3> QED
      BY <1>7, <3>1, <3>2 DEF AddNote
  <2> QED
    BY <2>1, <2>2, AuditBecomes
<1>8. ASSUME NEW t \in Tasks, StartEncode(t) PROVE AuditInv'
  <2>1. UNCHANGED <<alone, nextId, log>> /\ turn[t].pc = "idle"
    BY <1>8 DEF StartEncode, Starts, Free, Idle
  <2>2. PICK r : Becomes(t, r) /\ r.pc # "push"
    BY <1>8 DEF StartEncode, Encoding
  <2> QED
    BY <2>1, <2>2, AuditBecomes
<1>9. ASSUME NEW t \in Tasks, Encoded(t) PROVE AuditInv'
  <2>1. UNCHANGED <<alone, nextId, log>> /\ turn[t].pc = "encode"
    BY <1>9 DEF Encoded, Within
  <2>2. Becomes(t, Idle) \/ Becomes(t, [pc |-> "encoded", ticket |-> 0])
    BY <1>9 DEF Encoded, Encoding
  <2>3. PICK r : Becomes(t, r) /\ r.pc # "push"
    BY <2>2 DEF Idle
  <2> QED
    BY <2>1, <2>3, AuditBecomes
<1>10. ASSUME NEW t \in Tasks, CutPanics(t) \/ Cancel(t) PROVE AuditInv'
  <2>1. UNCHANGED <<alone, nextId, log>> /\ turn[t].pc # "push" /\ Becomes(t, Idle) /\ Idle.pc # "push"
    BY <1>10 DEF CutPanics, Cancel, Within, Idle
  <2> QED
    BY <2>1, AuditBecomes
<1>11. ASSUME NEW t \in Tasks, EditDiary(t) \/ Profiles(t) PROVE AuditInv'
  <2>1. UNCHANGED <<alone, nextId, log, turn>>
    BY <1>11 DEF EditDiary, Profiles, Starts, Within, chatVars
  <2> QED
    BY <1>1, <2>1
<1>12. CASE Pool
  BY <1>1, <1>12 DEF Pool, chatVars, Within
<1>13. CASE Restart
  <2>1. /\ alone' = alone /\ nextId' = 1 /\ log' = <<>>
        /\ \A t \in Tasks : turn'[t] = Idle
    BY <1>13 DEF Restart
  <2>2. Ends(0, <<>>)
    <3>1. 0 = LeastOf(MaxAudit, 0)
      BY AgentChatAssumption DEF LeastOf
    <3>2. Len(<<>>) = 0 /\ DOMAIN <<>> = 1..0
      OBVIOUS
    <3> QED
      BY <3>1, <3>2 DEF Ends
  <2> QED
    BY <2>1, <2>2 DEF AuditInv, Idle
<1>14. CASE UNCHANGED vars
  BY <1>1, <1>14 DEF vars, chatVars
<1> QED
  BY <1>2, <1>3, <1>4, <1>5, <1>6, <1>7, <1>8, <1>9, <1>10, <1>11, <1>12, <1>13, <1>14, AuditEvents DEF Next


(* h has the first sequences of s put together.                                 *)
Joins(h, s, M) ==
    /\ M \in Nat \ {0} /\ Len(s) = M /\ h = [i \in 1..M |-> h[i]]
    /\ h[1] = s[1] /\ \A i \in 2..M : h[i] = h[i - 1] \o s[i]

(* The recursion of FlattenSeq has the only values it can have.                  *)
LEMMA FlattenedIs ==
    ASSUME NEW M, NEW s, NEW h, Joins(h, s, M)
    PROVE  FlattenSeq(s) = h[M]
<1> USE DEF Joins
<1> DEFINE Joined(x, i) == x \o s[i]
           Eq(g) == [i \in 1..M |-> IF i = 1 THEN s[i] ELSE Joined(g[i - 1], i)]
           f == CHOOSE g : g = Eq(g)
<1>0. \A i \in 2..M : h[i] = Joined(h[i - 1], i)
  OBVIOUS
<1>1. h = Eq(h)
  <2> HIDE DEF Joined
  <2>1. \A i \in 1..M : i = 1 \/ i \in 2..M
    OBVIOUS
  <2>2. \A i \in 1..M : h[i] = IF i = 1 THEN s[i] ELSE Joined(h[i - 1], i)
    BY <1>0, <2>1
  <2> QED
    BY <2>2
<1>2. f = Eq(f)
  <2> HIDE DEF Eq
  <2> QED
    BY <1>1
<1>3. FlattenSeq(s) = f[M]
  BY DEF FlattenSeq
<1> HIDE DEF f
<1>4. ASSUME NEW g, g = Eq(g)
      PROVE  g[1] = s[1] /\ \A i \in 2..M : g[i] = Joined(g[i - 1], i)
  <2> HIDE DEF Joined
  <2>1. \A i \in 1..M : g[i] = IF i = 1 THEN s[i] ELSE Joined(g[i - 1], i)
    BY <1>4
  <2>2. 1 \in 1..M /\ \A i \in 2..M : i \in 1..M /\ i # 1
    OBVIOUS
  <2> QED
    BY <2>1, <2>2
<1> HIDE DEF Joined, Eq
<1> DEFINE S == {i \in 0..M : i = 0 \/ f[i] = h[i]}
<1>5. 0 \in S
  OBVIOUS
<1>6. ASSUME NEW n \in 0..(M - 1), n \in S
      PROVE  n + 1 \in S
  <2>1. CASE n = 0
    <3>1. f[1] = s[1] /\ h[1] = s[1]
      BY <1>1, <1>2, <1>4
    <3> QED
      BY <2>1, <3>1
  <2>2. CASE n # 0
    <3>1. n + 1 \in 2..M /\ (n + 1) - 1 = n /\ f[n] = h[n]
      BY <1>6, <2>2
    <3>2. f[n + 1] = Joined(f[n], n + 1)
      BY <1>2, <1>4, <3>1
    <3>3. h[n + 1] = Joined(h[n], n + 1)
      BY <1>0, <3>1
    <3> QED
      BY <3>1, <3>2, <3>3
  <2> QED
    BY <2>1, <2>2
<1> HIDE DEF S
<1>7. \A n \in 0..M : n \in S
  BY <1>5, <1>6, Induction
<1>8. M \in 0..M /\ M # 0
  OBVIOUS
<1> QED
  BY <1>3, <1>7, <1>8 DEF S

(* One event to a page, and pages past the last event are empty.                 *)
PagesOf(g, N, E, s, M) ==
    /\ M \in Nat \ {0} /\ N \in 0..M /\ g \in [1..N -> E]
    /\ Len(s) = M /\ \A k \in 1..M : s[k] = IF k <= N THEN <<g[k]>> ELSE <<>>

LEMMA Pages ==
    ASSUME NEW M, NEW N, NEW E, NEW g, NEW s, PagesOf(g, N, E, s, M)
    PROVE  FlattenSeq(s) = g
<1> USE DEF PagesOf
<1> DEFINE h == [i \in 1..M |-> [n \in 1..LeastOf(i, N) |-> g[n]]]
<1>0. N \in Nat /\ Len(s) = M
  OBVIOUS
<1>1. ASSUME NEW i \in 2..M
      PROVE  h[i] = h[i - 1] \o s[i]
  <2>1. i \in 1..M /\ i - 1 \in 1..M /\ i \in Nat
    OBVIOUS
  <2>2. CASE i <= N
    <3>1. LeastOf(i, N) = i /\ LeastOf(i - 1, N) = i - 1
      BY <1>0, <2>1, <2>2 DEF LeastOf
    <3>2. PICK p : p = [n \in 1..(i - 1) |-> g[n]]
      OBVIOUS
    <3>3. PICK m \in Nat : m = i - 1 /\ p \in [1..m -> E]
      BY <2>1, <2>2, <3>2
    <3>4. p \in Seq(E) /\ Len(p) = i - 1
      <4>1. \A q \in [1..m -> E] : q \in Seq(E) /\ Len(q) = m
        OBVIOUS
      <4> QED
        BY <3>3, <4>1
    <3>5. g[i] \in E /\ s[i] = <<g[i]>>
      BY <2>1, <2>2
    <3>6. h[i - 1] = p /\ h[i] = [n \in 1..i |-> g[n]]
      BY <2>1, <3>1, <3>2
    <3>7. [n \in 1..i |-> g[n]] = p \o <<g[i]>>
      <4>1. PICK e : e = g[i] /\ e \in E
        BY <3>5
      <4>2. p \o <<e>> = [n \in 1..i |-> IF n <= i - 1 THEN p[n] ELSE e]
        BY <2>1, <3>4, <4>1
      <4>3. \A n \in 1..i : g[n] = IF n <= i - 1 THEN p[n] ELSE e
        BY <2>1, <3>2, <4>1
      <4> QED
        BY <4>1, <4>2, <4>3
    <3> QED
      BY <3>5, <3>6, <3>7
  <2>3. CASE ~(i <= N)
    <3>1. LeastOf(i, N) = N /\ LeastOf(i - 1, N) = N
      BY <1>0, <2>1, <2>3 DEF LeastOf
    <3>2. h[i] = [n \in 1..N |-> g[n]] /\ h[i - 1] = [n \in 1..N |-> g[n]]
      BY <2>1, <3>1
    <3>3. [n \in 1..N |-> g[n]] = g /\ g \in Seq(E) /\ s[i] = <<>>
      BY <1>0, <2>1, <2>3
    <3>4. g \o <<>> = g
      BY <3>3
    <3> QED
      BY <3>2, <3>3, <3>4
  <2> QED
    BY <2>2, <2>3
<1>2. h[1] = s[1]
  <2>1. CASE N = 0
    <3>1. LeastOf(1, N) = 0 /\ s[1] = <<>>
      BY <2>1 DEF LeastOf
    <3>2. h[1] = [n \in 1..0 |-> g[n]]
      BY <3>1
    <3> QED
      BY <3>1, <3>2
  <2>2. CASE N # 0
    <3>1. LeastOf(1, N) = 1 /\ s[1] = <<g[1]>>
      BY <1>0, <2>2 DEF LeastOf
    <3>2. h[1] = [n \in 1..1 |-> g[n]]
      BY <3>1
    <3>3. PICK e : e = g[1]
      OBVIOUS
    <3>4. [n \in 1..1 |-> g[n]] = <<e>>
      BY <3>3
    <3> QED
      BY <3>1, <3>2, <3>3, <3>4
  <2> QED
    BY <2>1, <2>2
<1>3. h[M] = g
  <2>1. LeastOf(M, N) = N
    BY <1>0 DEF LeastOf
  <2>2. h[M] = [n \in 1..N |-> g[n]]
    BY <2>1
  <2> QED
    BY <2>2
<1>4. h = [i \in 1..M |-> h[i]]
  <2>1. DOMAIN h = 1..M /\ h = [i \in DOMAIN h |-> h[i]]
    OBVIOUS
  <2> HIDE DEF h
  <2> QED
    BY <2>1
<1> HIDE DEF h
<1>5. FlattenSeq(s) = h[M]
  <2>1. \A i \in 2..M : h[i] = h[i - 1] \o s[i]
    BY <1>1
  <2>2. Joins(h, s, M)
    BY <1>0, <1>2, <1>4, <2>1 DEF Joins
  <2> QED
    BY <2>2, FlattenedIs
<1> QED
  BY <1>3, <1>5


(* What a query finds: its events, the newest first; the whole of it, or a page.  *)
Finds(labels, found, f, N) ==
    /\ found = {k \in DOMAIN log : log[k].label \in labels}
    /\ f = Ranked(found, Descending(found)) /\ N = Cardinality(found)

LEMMA QueryIs ==
    ASSUME ChatInv, NEW labels, NEW found, NEW f, NEW N, Finds(labels, found, f, N)
    PROVE  /\ Lists(f, found, Descending(found)) /\ N \in 0..MaxAudit
           /\ [n \in 1..N |-> log[f[n]]] \in [1..N -> Range(log)]
           /\ Queried(labels, 0, 0) = [n \in 1..N |-> log[f[n]]]
           /\ \A k \in 1..MaxAudit : Queried(labels, k - 1, 1) = IF k <= N THEN <<log[f[k]]>> ELSE <<>>
<1> USE DEF Finds
<1>0. /\ MaxAudit \in Nat \ {0} /\ Len(log) <= MaxAudit
      /\ log \in Seq([id : 1..(nextId - 1), label : Labels])
  BY AgentChatAssumption DEF ChatInv, RestInv
<1>4. found \in SUBSET DOMAIN log
  OBVIOUS
<1>5. /\ IsFiniteSet(found) /\ N \in Nat /\ found \in SUBSET Nat /\ N <= Len(log)
  BY <1>0, <1>4, PlacesFinite
<1>6. Lists(f, found, Descending(found)) /\ f \in [1..N -> found]
  <2>1. Lists(f, found, Descending(found))
    BY <1>5, Orders, RankedLists
  <2> QED
    BY <2>1 DEF Lists
<1>7. N \in 0..MaxAudit
  BY <1>0, <1>5
<1>8. [n \in 1..N |-> log[f[n]]] \in [1..N -> Range(log)]
  BY <1>4, <1>6 DEF Range
<1>10. Queried(labels, 0, 0) = [n \in 1..N |-> log[f[n]]]
  <2>1. N - 0 = N /\ \A n \in 1..N : 0 + n = n
    BY <1>5
  <2>2. Queried(labels, 0, 0) = [n \in 1..(N - 0) |-> log[f[0 + n]]]
    BY DEF Queried
  <2> QED
    BY <2>1, <2>2
<1>11. ASSUME NEW k \in 1..MaxAudit
       PROVE  Queried(labels, k - 1, 1) = IF k <= N THEN <<log[f[k]]>> ELSE <<>>
  <2>1. k \in Nat /\ (k - 1) + 1 = k
    BY <1>0
  <2>2. Queried(labels, k - 1, 1) = [n \in 1..(LeastOf(N, k) - (k - 1)) |-> log[f[(k - 1) + n]]]
    <3>1. PICK j : j = k - 1 /\ j + 1 = k
      BY <2>1
    <3>2. Queried(labels, j, 1) = [n \in 1..(LeastOf(N, j + 1) - j) |-> log[f[j + n]]]
      BY DEF Queried
    <3> QED
      BY <3>1, <3>2
  <2>3. CASE k <= N
    <3>1. LeastOf(N, k) - (k - 1) = 1
      BY <1>5, <2>1, <2>3 DEF LeastOf
    <3>2. PICK e : e = log[f[k]]
      OBVIOUS
    <3>3. \A n \in 1..1 : (k - 1) + n = k
      BY <2>1
    <3>4. Queried(labels, k - 1, 1) = [n \in 1..1 |-> e]
      BY <2>2, <3>1, <3>2, <3>3
    <3>5. [n \in 1..1 |-> e] = <<e>>
      OBVIOUS
    <3> QED
      BY <2>3, <3>2, <3>4, <3>5
  <2>4. CASE ~(k <= N)
    <3>1. 1..(LeastOf(N, k) - (k - 1)) = 1..0
      <4>1. PICK x \in Int : x = LeastOf(N, k) - (k - 1) /\ x <= 0
        <5>1. LeastOf(N, k) = N
          BY <1>5, <2>1, <2>4 DEF LeastOf
        <5>2. N - (k - 1) \in Int /\ N - (k - 1) <= 0
          BY <1>5, <2>1, <2>4
        <5> QED
          BY <5>1, <5>2
      <4>2. \A y \in Int : y <= 0 => 1..y = 1..0
        OBVIOUS
      <4> HIDE DEF Finds
      <4> QED
        BY <4>1, <4>2
    <3>2. PICK F : Queried(labels, k - 1, 1) = F /\ F = [n \in 1..0 |-> log[f[(k - 1) + n]]]
      BY <2>2, <3>1
    <3>3. F = <<>>
      BY <3>2
    <3> QED
      BY <2>4, <3>2, <3>3
  <2> QED
    BY <2>3, <2>4
<1> QED
  BY <1>6, <1>7, <1>8, <1>10, <1>11

LEMMA AuditIsSound == AuditChatInv => AuditIsOrdered
<1> SUFFICES ASSUME AuditChatInv, alone, \A t \in Tasks : turn[t].pc # "push",
                    NEW labels \in {{e.label} : e \in Range(log)} \cup {Labels}
             PROVE  LET pages == FlattenSeq([k \in 1..MaxAudit |-> Queried(labels, k - 1, 1)])
                    IN  /\ \A k \in 2..Len(pages) : pages[k].id < pages[k - 1].id
                        /\ pages = Queried(labels, 0, 0)
                        /\ labels = Labels =>
                              {e.id : e \in Range(pages)} = {k \in 1..(nextId - 1) : k >= nextId - MaxAudit}
  BY DEF AuditIsOrdered
<1>0. /\ ChatInv /\ Ends(nextId - 1, log)
      /\ MaxAudit \in Nat \ {0} /\ Len(log) <= MaxAudit /\ nextId \in Nat \ {0}
      /\ log \in Seq([id : 1..(nextId - 1), label : Labels])
  BY AgentChatAssumption DEF AuditChatInv, AuditInv, ChatInv, RestInv, TurnsInv
<1>1. PICK found : found = {k \in DOMAIN log : log[k].label \in labels}
  OBVIOUS
<1>2. PICK f : f = Ranked(found, Descending(found))
  OBVIOUS
<1>3. PICK N : N = Cardinality(found)
  OBVIOUS
<1>f. Finds(labels, found, f, N)
  BY <1>1, <1>2, <1>3 DEF Finds
<1>4. PICK g : g = [n \in 1..N |-> log[f[n]]]
  OBVIOUS
<1>5. /\ Lists(f, found, Descending(found)) /\ N \in 0..MaxAudit
      /\ g \in [1..N -> Range(log)] /\ Queried(labels, 0, 0) = g
  BY <1>0, <1>4, <1>f, QueryIs
<1>6. \A k \in 1..MaxAudit : Queried(labels, k - 1, 1) = IF k <= N THEN <<log[f[k]]>> ELSE <<>>
  BY <1>0, <1>f, QueryIs
<1>7. PICK s : s = [k \in 1..MaxAudit |-> Queried(labels, k - 1, 1)]
  OBVIOUS
<1>8. Len(s) = MaxAudit /\ \A k \in 1..MaxAudit : s[k] = IF k <= N THEN <<g[k]>> ELSE <<>>
  <2>1. \A k \in 1..MaxAudit : k <= N => g[k] = log[f[k]]
    BY <1>0, <1>4, <1>5
  <2>2. Len(s) = MaxAudit
    BY <1>0, <1>7
  <2> QED
    BY <1>6, <1>7, <2>1, <2>2
<1>9. FlattenSeq(s) = g
  <2>1. PICK E : E = Range(log) /\ g \in [1..N -> E]
    BY <1>5
  <2>2. PagesOf(g, N, E, s, MaxAudit)
    BY <1>0, <1>5, <1>8, <2>1 DEF PagesOf
  <2> QED
    BY <2>2, Pages
<1>10. PICK last : last = nextId - 1 /\ last \in Nat
  BY <1>0
<1>11. PICK n \in Nat : /\ n = Len(log) /\ DOMAIN log = 1..n /\ n = LeastOf(MaxAudit, last)
                        /\ \A k \in 1..n : log[k].id = last - n + k
  <2>1. Len(log) \in Nat /\ DOMAIN log = 1..Len(log)
    BY <1>0
  <2> QED
    BY <1>0, <1>10, <2>1 DEF Ends
<1>12. Len(g) = N /\ DOMAIN g = 1..N
  BY <1>5
<1>13. ASSUME NEW k \in 2..N PROVE g[k].id < g[k - 1].id
  <2>1. k \in 1..N /\ k - 1 \in 1..N /\ k - 1 < k
    BY <1>5
  <2>2. f[k] \in found /\ f[k - 1] \in found /\ <<f[k - 1], f[k]>> \in Descending(found)
    BY <1>3, <1>5, <2>1 DEF Lists
  <2>3. f[k] \in 1..n /\ f[k - 1] \in 1..n /\ f[k - 1] > f[k]
    BY <1>1, <1>11, <2>2 DEF Descending
  <2>4. g[k] = log[f[k]] /\ g[k - 1] = log[f[k - 1]]
    BY <1>4, <2>1
  <2> QED
    BY <1>10, <1>11, <2>3, <2>4
<1>14. ASSUME labels = Labels
       PROVE  {e.id : e \in Range(g)} = {k \in 1..(nextId - 1) : k >= nextId - MaxAudit}
  <2>1. found = 1..n
    <3>1. \A k \in DOMAIN log : log[k].label \in Labels
      <4>1. PICK E : E = [id : 1..(nextId - 1), label : Labels] /\ log \in Seq(E)
        BY <1>0
      <4>2. \A e \in E : e.label \in Labels
        BY <4>1
      <4>3. \A k \in DOMAIN log : log[k] \in E
        <5>1. \A l \in Seq(E) : \A k \in DOMAIN l : l[k] \in E
          OBVIOUS
        <5> QED
          BY <4>1, <5>1
      <4> QED
        BY <4>2, <4>3
    <3> QED
      BY <1>1, <1>11, <1>14, <3>1
  <2>2. {e.id : e \in Range(g)} = {log[k].id : k \in 1..n}
    <3>1. \A m \in 1..N : f[m] \in 1..n /\ g[m] = log[f[m]]
      BY <1>3, <1>4, <1>5, <2>1 DEF Lists
    <3>2. \A k \in 1..n : \E m \in 1..N : f[m] = k
      BY <1>3, <1>5, <2>1 DEF Lists
    <3>3. Range(g) = {g[m] : m \in 1..N}
      BY <1>12 DEF Range
    <3>4. Range(g) = {log[k] : k \in 1..n}
      BY <3>1, <3>2, <3>3
    <3> QED
      BY <3>4
  <2>3. {log[k].id : k \in 1..n} = {last - n + k : k \in 1..n}
    BY <1>11
  <2>4. {last - n + k : k \in 1..n} = {k \in 1..last : k >= last + 1 - MaxAudit}
    <3>1. ASSUME NEW k \in 1..n PROVE last - n + k \in 1..last /\ last - n + k >= last + 1 - MaxAudit
      BY <1>0, <1>10, <1>11 DEF LeastOf
    <3>2. ASSUME NEW k \in 1..last, k >= last + 1 - MaxAudit
          PROVE  \E m \in 1..n : last - n + m = k
      <4>1. k - (last - n) \in 1..n /\ last - n + (k - (last - n)) = k
        BY <1>0, <1>10, <1>11, <3>2 DEF LeastOf
      <4> QED
        BY <4>1
    <3> QED
      BY <3>1, <3>2
  <2>5. nextId - 1 = last /\ nextId - MaxAudit = last + 1 - MaxAudit
    BY <1>0, <1>10
  <2> QED
    BY <1>10, <2>2, <2>3, <2>4, <2>5
<1> QED
  BY <1>5, <1>7, <1>9, <1>12, <1>13, <1>14

LEMMA AuditInit == Init => AuditChatInv
<1>a. ASSUME Init PROVE AloneInv
  <2>1. Editors = Tasks
    BY AgentChatAssumption DEF Tasks
  <2>2. \A t \in Tasks : turn[t] = Idle /\ edit[t] = NoEdit
    BY <1>a, <2>1 DEF Init, ProfilesInit
  <2> QED
    BY <2>2 DEF AloneInv, Free
<1> SUFFICES ASSUME Init PROVE AuditInv
  BY <1>a, ChatInvInit DEF AuditChatInv
<1>1. PICK n \in Nat : n = Len(Earlier) /\ DOMAIN Earlier = 1..n /\ n <= MaxAudit /\ MaxAudit \in Nat
  BY AgentChatAssumption
<1>2. nextId = n + 1 /\ log = [k \in 1..n |-> [id |-> k, label |-> Earlier[k]]]
  BY <1>1 DEF Init
<1>3. Len(log) = n /\ DOMAIN log = 1..n /\ \A k \in 1..n : log[k].id = k
  <2>1. DOMAIN log = 1..n
    BY <1>2
  <2>2. Len(log) = n
    BY <1>1, <1>2
  <2> QED
    BY <1>2, <2>1, <2>2
<1>4. Ends(nextId - 1, log)
  BY <1>1, <1>2, <1>3 DEF Ends, LeastOf
<1>5. \A t \in Tasks : turn[t].pc # "push"
  BY DEF Init, Idle
<1> QED
  BY <1>4, <1>5 DEF AuditInv

(* While requests do not overlap, the pages of the audit log are its events, newest *)
(* first, none twice and none left out, for any capacity, labels and evictions.    *)
THEOREM AuditStaysOrdered == Spec => []AuditIsOrdered
BY AuditInit, AuditInductive, AuditIsSound, PTL DEF Spec

=============================================================================
