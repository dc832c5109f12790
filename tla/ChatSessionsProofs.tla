------------------------- MODULE ChatSessionsProofs -------------------------
(***************************************************************************)
(* Proofs about ChatSessions and ChatHistory, for any sets of sessions,     *)
(* requests and titles, any faults, any number of turns and any limits.      *)
(***************************************************************************)
EXTENDS ChatHistory, FiniteSetTheorems, SequenceTheorems, TLAPS

(* A write that was spawned has a turn to write.                           *)
SavesHaveTurn == \A w \in saves : w.copy.turns # <<>>

TypeInv == TypeOK /\ SavesHaveTurn

-----------------------------------------------------------------------------
(* Types *)

LEMMA SessionIs ==
    ASSUME NEW x \in Session
    PROVE  /\ x.title \in Titles \cup {AutoTitle} /\ x.turns \in Seq(Turns)
           /\ x.turns # <<>> => NewestTurn(x) \in Turns
BY DEF Session, NewestTurn

LEMMA WithTurnIs ==
    ASSUME NEW x \in Session, turns \in Nat, turns < MaxTurns, MaxTurns \in Nat
    PROVE  /\ WithTurn(x) \in Session /\ WithTurn(x).title = x.title
           /\ WithTurn(x).turns = Append(x.turns, turns + 1)
           /\ WithTurn(x).turns # <<>> /\ NewestTurn(WithTurn(x)) = turns + 1
<1>1. x.turns \in Seq(Turns) /\ turns + 1 \in Turns
  BY DEF Session, Turns
<1>2. \A v \in Seq(Turns) :
        /\ [x EXCEPT !.turns = v] \in Session
        /\ [x EXCEPT !.turns = v].title = x.title /\ [x EXCEPT !.turns = v].turns = v
  BY DEF Session
<1>3. \A q \in Seq(Turns), n \in Turns :
        /\ Append(q, n) \in Seq(Turns) /\ Append(q, n) # <<>>
        /\ Append(q, n)[Len(Append(q, n))] = n
  OBVIOUS
<1>4. /\ WithTurn(x) \in Session /\ WithTurn(x).title = x.title
      /\ WithTurn(x).turns = Append(x.turns, turns + 1)
  BY <1>1, <1>2, <1>3 DEF WithTurn
<1> QED
  BY <1>1, <1>3, <1>4 DEF NewestTurn

LEMMA CallIs ==
    ASSUME TypeOK, NEW c \in Calls
    PROVE  /\ call[c].pc \in {"idle", "generating"}
           /\ call[c].pc = "idle" => call[c] = Idle
           /\ call[c].pc = "generating" => call[c] \in CallType
BY DEF TypeOK, CallType, Idle

LEMMA BeginNextType ==
    ASSUME TypeInv, NEW c \in Calls, NEW s \in Sessions, BeginNext(c, s)
    PROVE  TypeInv'
<1>1. rows[s] \in Session
  BY DEF TypeInv, TypeOK, BeginNext
<1>2. [pc |-> "generating", sid |-> s, copy |-> rows[s], contested |-> Busy(s)] \in CallType
  BY <1>1 DEF CallType, Busy
<1>3. \A d \in Calls : d \in Generating(s) => [call[d] EXCEPT !.contested = TRUE] \in CallType
  BY CallIs DEF TypeInv, Generating, CallType
<1>4. \A d \in Calls : call'[d] \in {Idle} \cup CallType
  <2> SUFFICES ASSUME NEW d \in Calls PROVE call'[d] \in {Idle} \cup CallType
    OBVIOUS
  <2>1. CASE d = c
    BY <2>1, <1>2 DEF BeginNext
  <2>2. CASE d # c /\ call[d] = Idle
    <3>1. d \notin Generating(s)
      BY <2>2 DEF Generating, Idle
    <3> QED
      BY <2>2, <3>1 DEF BeginNext
  <2>3. CASE d # c /\ call[d] \in CallType
    BY <2>3 DEF BeginNext, CallType
  <2> QED
    BY <2>1, <2>2, <2>3 DEF TypeInv, TypeOK
<1>5. {NewestTurn(w.copy) : w \in Unsaved(s)} \subseteq Turns
  BY SessionIs DEF TypeInv, TypeOK, SavesHaveTurn, Unsaved
<1> QED
  BY <1>4, <1>5 DEF BeginNext, TypeInv, TypeOK, SavesHaveTurn

LEMMA SpawnSaveType ==
    ASSUME TypeInv, NEW c \in Calls, SpawnSave(c)
    PROVE  /\ saves' \subseteq [sid : Sessions, copy : Session] /\ SavesHaveTurn'
           /\ turns' \in 0..MaxTurns /\ contested' \subseteq Turns
           /\ call' \in [Calls -> {Idle} \cup CallType]
<1>1. call[c].sid \in Sessions /\ call[c].copy \in Session /\ turns \in Nat
  BY CallIs DEF TypeInv, TypeOK, SpawnSave, CallType
<1>2. turns < MaxTurns /\ turns + 1 \in Turns
  BY <1>1, ChatSessionsAssumption DEF SpawnSave, Turns
<1>3. WithTurn(call[c].copy) \in Session /\ WithTurn(call[c].copy).turns # <<>>
  BY <1>1, <1>2, WithTurnIs, ChatSessionsAssumption
<1>4. saves' \subseteq [sid : Sessions, copy : Session] /\ SavesHaveTurn'
  BY <1>1, <1>3 DEF SpawnSave, TypeInv, TypeOK, SavesHaveTurn
<1> QED
  BY <1>1, <1>2, <1>4, ChatSessionsAssumption DEF SpawnSave, TypeInv, TypeOK, Turns

LEMMA TypeInductive == TypeInv /\ [Next]_vars => TypeInv'
<1> SUFFICES ASSUME TypeInv, [Next]_vars PROVE TypeInv'
  OBVIOUS
<1>1. ASSUME NEW c \in Calls, NEW s \in Sessions, BeginNew(c, s) PROVE TypeInv'
  <2>1. \A h \in Histories :
           [pc |-> "generating", sid |-> s, contested |-> FALSE,
            copy |-> [title |-> AutoTitle, brought |-> h, turns |-> <<>>]] \in CallType
    BY DEF CallType, Session
  <2> QED
    BY <1>1, <2>1 DEF BeginNew, history, TypeInv, TypeOK, SavesHaveTurn
<1>2. ASSUME NEW c \in Calls, NEW s \in Sessions, BeginNext(c, s) PROVE TypeInv'
  BY <1>2, BeginNextType
<1>3. ASSUME NEW c \in Calls, CallFails(c) PROVE TypeInv'
  BY <1>3 DEF CallFails, history, TypeInv, TypeOK, SavesHaveTurn
<1>4. ASSUME NEW c \in Calls, Respond(c) PROVE TypeInv'
  <2>1. call[c].sid \in Sessions
    BY <1>4, CallIs DEF Respond, SpawnSave, TypeInv, CallType
  <2> QED
    BY <1>4, <2>1, SpawnSaveType DEF Respond, SpawnSave, TypeInv, TypeOK
<1>5. ASSUME NEW c \in Calls, PreviewPanics(c) PROVE TypeInv'
  BY <1>5, SpawnSaveType DEF PreviewPanics, SpawnSave, TypeInv, TypeOK
<1>6. ASSUME NEW w \in saves, Save(w) PROVE TypeInv'
  <2>1. w.sid \in Sessions /\ w.copy \in Session /\ NewestTurn(w.copy) \in Turns
    BY SessionIs DEF TypeInv, TypeOK, SavesHaveTurn
  <2> QED
    BY <1>6, <2>1 DEF Save, TypeInv, TypeOK, SavesHaveTurn
<1>7. ASSUME NEW w \in saves, SaveFails(w) PROVE TypeInv'
  BY <1>7 DEF SaveFails, history, TypeInv, TypeOK, SavesHaveTurn
<1>8. ASSUME NEW s \in Sessions, NEW t \in Titles, Create(s, t) PROVE TypeInv'
  <2>1. [title |-> t, brought |-> NoHistory, turns |-> <<>>] \in Session
    BY ChatSessionsAssumption DEF Session
  <2> QED
    BY <1>8, <2>1 DEF Create, TypeInv, TypeOK, SavesHaveTurn
<1>9. ASSUME NEW s \in Sessions, NEW t \in Titles, Rename(s, t) PROVE TypeInv'
  <2>1. [rows[s] EXCEPT !.title = t] \in Session
    BY <1>9 DEF Rename, Session, TypeInv, TypeOK
  <2> QED
    BY <1>9, <2>1 DEF Rename, TypeInv, TypeOK, SavesHaveTurn
<1>10. ASSUME NEW s \in Sessions, Delete(s) PROVE TypeInv'
  BY <1>10 DEF Delete, TypeInv, TypeOK, SavesHaveTurn
<1>11. CASE Crash
  BY <1>11 DEF Crash, history, TypeInv, TypeOK, SavesHaveTurn
<1>12. CASE UNCHANGED vars
  BY <1>12 DEF vars, history, TypeInv, TypeOK, SavesHaveTurn
<1> QED
  BY <1>1, <1>2, <1>3, <1>4, <1>5, <1>6, <1>7, <1>8, <1>9, <1>10, <1>11, <1>12 DEF Next

LEMMA InitType == Init => TypeInv
BY ChatSessionsAssumption DEF Init, TypeInv, TypeOK, SavesHaveTurn

LEMMA TypeAlways == Spec => []TypeInv
BY InitType, TypeInductive, PTL DEF Spec

(* Every reachable state is well typed, whatever overlaps and fails.       *)
THEOREM ChatTypeCorrect == Spec => []TypeOK
BY TypeAlways, PTL DEF TypeInv

-----------------------------------------------------------------------------
(* Quiet deletions *)

(* Nothing is under way for a session deleted when nothing overlapped.     *)
GoneInv == \A s \in gone : rows[s] = NoSession /\ ~Busy(s)

LEMMA GoneInductive == TypeInv /\ GoneInv /\ [Next]_vars => GoneInv'
<1> SUFFICES ASSUME TypeInv, GoneInv, [Next]_vars, NEW s \in Sessions, s \in gone'
             PROVE  rows'[s] = NoSession /\ ~Busy(s)'
  BY TypeInductive DEF GoneInv, TypeInv, TypeOK
<1>a. s \in gone => /\ rows[s] = NoSession
                    /\ \A c \in Calls : ~(call[c].pc = "generating" /\ call[c].sid = s)
                    /\ \A w \in saves : w.sid # s
  BY DEF GoneInv, Busy, Generating, Unsaved
<1> SUFFICES /\ rows'[s] = NoSession
             /\ \A c \in Calls : ~(call'[c].pc = "generating" /\ call'[c].sid = s)
             /\ \A w \in saves' : w.sid # s
  BY DEF Busy, Generating, Unsaved
<1>1. ASSUME NEW c \in Calls, NEW r \in Sessions, BeginNew(c, r) \/ BeginNext(c, r)
      PROVE  /\ rows'[s] = NoSession
             /\ \A d \in Calls : ~(call'[d].pc = "generating" /\ call'[d].sid = s)
             /\ \A w \in saves' : w.sid # s
  <2>1. UNCHANGED <<rows, saves, gone>> /\ r # s
    BY <1>1, <1>a DEF BeginNew, BeginNext, Fresh, history
  <2>2. \A d \in Calls : call'[d].pc = "generating" /\ call'[d].sid = s =>
                         call[d].pc = "generating" /\ call[d].sid = s
    BY <1>1, <2>1, CallIs DEF BeginNew, BeginNext, CallType, Generating, TypeInv, TypeOK
  <2> QED
    BY <1>a, <2>1, <2>2
<1>2. ASSUME NEW c \in Calls, CallFails(c)
      PROVE  /\ rows'[s] = NoSession
             /\ \A d \in Calls : ~(call'[d].pc = "generating" /\ call'[d].sid = s)
             /\ \A w \in saves' : w.sid # s
  BY <1>2, <1>a DEF CallFails, history, Idle, TypeInv, TypeOK
<1>3. ASSUME NEW c \in Calls, SpawnSave(c)
      PROVE  /\ rows'[s] = NoSession
             /\ \A d \in Calls : ~(call'[d].pc = "generating" /\ call'[d].sid = s)
             /\ \A w \in saves' : w.sid # s
  BY <1>3, <1>a DEF SpawnSave, Idle, TypeInv, TypeOK
<1>4. ASSUME NEW w \in saves, Save(w) \/ SaveFails(w)
      PROVE  /\ rows'[s] = NoSession
             /\ \A d \in Calls : ~(call'[d].pc = "generating" /\ call'[d].sid = s)
             /\ \A v \in saves' : v.sid # s
  BY <1>4, <1>a DEF Save, SaveFails, history, TypeInv, TypeOK
<1>5. ASSUME NEW r \in Sessions, NEW t \in Titles, Create(r, t) \/ Rename(r, t)
      PROVE  /\ rows'[s] = NoSession
             /\ \A d \in Calls : ~(call'[d].pc = "generating" /\ call'[d].sid = s)
             /\ \A w \in saves' : w.sid # s
  BY <1>5, <1>a DEF Create, Rename, Fresh, TypeInv, TypeOK
<1>6. ASSUME NEW r \in Sessions, Delete(r)
      PROVE  /\ rows'[s] = NoSession
             /\ \A d \in Calls : ~(call'[d].pc = "generating" /\ call'[d].sid = s)
             /\ \A w \in saves' : w.sid # s
  BY <1>6, <1>a DEF Delete, Busy, Generating, Unsaved, TypeInv, TypeOK
<1>7. CASE Crash
  BY <1>7, <1>a DEF Crash, history, Idle
<1>8. CASE UNCHANGED vars
  BY <1>8, <1>a DEF vars, history
<1> QED
  BY <1>1, <1>2, <1>3, <1>4, <1>5, <1>6, <1>7, <1>8 DEF Next, Respond, PreviewPanics

(* A session deleted while no request on it was under way stays deleted:   *)
(* no later write, rename or chat request brings it back.                  *)
THEOREM QuietDeletions == Spec => []QuietDeletionsHold
<1>1. Init => GoneInv
  BY DEF Init, GoneInv
<1>2. GoneInv => QuietDeletionsHold
  BY DEF GoneInv, QuietDeletionsHold
<1> QED
  BY <1>1, <1>2, GoneInductive, TypeAlways, PTL DEF Spec

-----------------------------------------------------------------------------
(* Versions of a session: its row and the copies requests are working on.  *)

Copies(s) == {call[c].copy : c \in Generating(s)} \cup {w.copy : w \in Unsaved(s)}

Versions(s) == Copies(s) \cup ({rows[s]} \ {NoSession})

LEMMA VersionsAre ==
    ASSUME TypeInv, NEW s \in Sessions, NEW x \in Versions(s)
    PROVE  x \in Session
<1>1. ASSUME NEW c \in Generating(s) PROVE call[c].copy \in Session
  BY CallIs DEF Generating, CallType, TypeInv
<1> QED
  BY <1>1 DEF Versions, Copies, Unsaved, TypeInv, TypeOK

(* The request that answers in this step, if any, is one.                  *)
LEMMA OneAnswer ==
    ASSUME TypeInv, NEW c \in Calls, NEW d \in Calls, SpawnSave(c), SpawnSave(d)
    PROVE  c = d
<1>1. call'[c] = Idle
  BY DEF SpawnSave, TypeInv, TypeOK
<1>2. c # d => call'[c] = call[c]
  BY DEF SpawnSave, TypeInv, TypeOK
<1> QED
  BY <1>1, <1>2 DEF SpawnSave, Idle

(* Where a version comes from: an earlier one, perhaps with a new title;   *)
(* nothing, in a session nobody has used; or an answer.                    *)
Kept(x, s) == \E y \in Versions(s) :
    y.turns = x.turns /\ (y.title = x.title \/ \E t \in Titles : Rename(s, t))
Born(x, s) == Fresh(s) /\ x.turns = <<>>
Answered(x, s) == \E c \in Calls :
    SpawnSave(c) /\ call[c].sid = s /\ x = WithTurn(call[c].copy) /\ call[c].copy \in Versions(s)

LEMMA VersionStep ==
    ASSUME TypeInv, [Next]_vars, NEW s \in Sessions, NEW x, x \in Versions(s)'
    PROVE  Kept(x, s) \/ Born(x, s) \/ Answered(x, s)
<1>1. \/ \E d \in Calls : call'[d].pc = "generating" /\ call'[d].sid = s /\ x = call'[d].copy
      \/ \E w \in saves' : w.sid = s /\ x = w.copy
      \/ x = rows'[s] /\ rows'[s] # NoSession
  BY DEF Versions, Copies, Generating, Unsaved
<1>2. /\ \A d \in Calls : call[d].pc = "generating" /\ call[d].sid = s => call[d].copy \in Versions(s)
      /\ \A w \in saves : w.sid = s => w.copy \in Versions(s)
      /\ rows[s] # NoSession => rows[s] \in Versions(s)
  BY DEF Versions, Copies, Generating, Unsaved
<1>3. CASE x \in Versions(s)
  BY <1>3 DEF Kept
<1>4. ASSUME NEW c \in Calls, NEW r \in Sessions, BeginNew(c, r), x \notin Versions(s)
      PROVE  Born(x, s)
  <2>1. UNCHANGED <<rows, saves>> /\ Fresh(r)
    BY <1>4 DEF BeginNew
  <2>2. PICK d \in Calls : call'[d].pc = "generating" /\ call'[d].sid = s /\ x = call'[d].copy
    BY <1>1, <1>2, <1>4, <2>1
  <2>3. d = c
    BY <1>2, <1>4, <2>2 DEF BeginNew, TypeInv, TypeOK
  <2> QED
    BY <1>4, <2>1, <2>2, <2>3 DEF BeginNew, Born, TypeInv, TypeOK
<1>5. ASSUME NEW c \in Calls, NEW r \in Sessions, BeginNext(c, r)
      PROVE  x \in Versions(s)
  <2>1. UNCHANGED <<rows, saves>>
    BY <1>5 DEF BeginNext
  <2>2. CASE \E d \in Calls : call'[d].pc = "generating" /\ call'[d].sid = s /\ x = call'[d].copy
    <3>1. PICK d \in Calls : call'[d].pc = "generating" /\ call'[d].sid = s /\ x = call'[d].copy
      BY <2>2
    <3>2. CASE d = c
      BY <1>2, <1>5, <3>1, <3>2 DEF BeginNext, TypeInv, TypeOK
    <3>3. CASE d # c
      <4>1. call[d].pc = "generating" /\ call[d].sid = s /\ x = call[d].copy
        BY <1>5, <3>1, <3>3, CallIs DEF BeginNext, CallType, Generating, TypeInv, TypeOK
      <4> QED
        BY <4>1, <1>2
    <3> QED
      BY <3>2, <3>3
  <2> QED
    BY <1>1, <1>2, <2>1, <2>2
<1>6. ASSUME NEW c \in Calls, CallFails(c) PROVE x \in Versions(s)
  BY <1>1, <1>2, <1>6 DEF CallFails, Idle, TypeInv, TypeOK
<1>7. ASSUME NEW c \in Calls, SpawnSave(c), x \notin Versions(s) PROVE Answered(x, s)
  <2>1. x = WithTurn(call[c].copy) /\ call[c].sid = s
    BY <1>1, <1>2, <1>7 DEF SpawnSave, Idle, TypeInv, TypeOK
  <2>2. call[c].copy \in Versions(s)
    BY <1>2, <1>7, <2>1 DEF SpawnSave
  <2> QED
    BY <1>7, <2>1, <2>2 DEF Answered
<1>8. ASSUME NEW w \in saves, Save(w) \/ SaveFails(w) PROVE x \in Versions(s)
  BY <1>1, <1>2, <1>8 DEF Save, SaveFails, TypeInv, TypeOK
<1>9. ASSUME NEW r \in Sessions, NEW t \in Titles, Create(r, t), x \notin Versions(s)
      PROVE  Born(x, s)
  BY <1>1, <1>2, <1>9 DEF Create, Born, TypeInv, TypeOK
<1>10. ASSUME NEW r \in Sessions, NEW t \in Titles, Rename(r, t), x \notin Versions(s)
      PROVE  Kept(x, s)
  <2>1. x = rows'[s] /\ r = s /\ rows[s] # NoSession
    BY <1>1, <1>2, <1>10 DEF Rename, TypeInv, TypeOK
  <2>2. x.turns = rows[s].turns
    BY <1>10, <2>1 DEF Rename, Session, TypeInv, TypeOK
  <2> QED
    BY <1>2, <1>10, <2>1, <2>2 DEF Kept
<1>11. ASSUME NEW r \in Sessions, Delete(r) PROVE x \in Versions(s)
  BY <1>1, <1>2, <1>11 DEF Delete, TypeInv, TypeOK
<1>12. CASE Crash
  BY <1>1, <1>2, <1>3, <1>12 DEF Crash, Idle
<1>13. CASE UNCHANGED vars
  BY <1>1, <1>2, <1>3, <1>13 DEF vars
<1> QED
  BY <1>3, <1>4, <1>5, <1>6, <1>7, <1>8, <1>9, <1>10, <1>11, <1>12, <1>13
     DEF Next, Respond, PreviewPanics

-----------------------------------------------------------------------------
(* Order *)

SaidIn(x, n) == \E k \in DOMAIN x.turns : x.turns[k] = n

Ascending(q) == \A j, k \in DOMAIN q : j < k => q[j] < q[k]

(* Of every version of a session, not of its row only: the turns are in    *)
(* order and no version of another session has one of them.                *)
OrderInv ==
    /\ \A s \in Sessions : \A x \in Versions(s) :
          Ascending(x.turns) /\ \A n : SaidIn(x, n) => n \in 1..turns
    /\ \A s, r \in Sessions : \A x \in Versions(s), y \in Versions(r), n \in Nat :
          SaidIn(x, n) /\ SaidIn(y, n) => s = r

LEMMA AnswerSays ==
    ASSUME TypeInv, NEW c \in Calls, SpawnSave(c)
    PROVE  LET y == call[c].copy
               x == WithTurn(y)
           IN  /\ y \in Session /\ x \in Session /\ turns \in Nat /\ turns' = turns + 1
               /\ x.title = y.title
               /\ \A n : SaidIn(x, n) <=> SaidIn(y, n) \/ n = turns + 1
               /\ Ascending(y.turns) /\ (\A n : SaidIn(y, n) => n \in 1..turns) => Ascending(x.turns)
               /\ NewestTurn(x) = turns + 1
<1> DEFINE y == call[c].copy
           x == WithTurn(y)
<1>1. y \in Session /\ turns \in Nat /\ turns' = turns + 1 /\ turns < MaxTurns
  BY CallIs DEF SpawnSave, CallType, TypeInv, TypeOK
<1>2. /\ x \in Session /\ x.title = y.title /\ x.turns = Append(y.turns, turns + 1)
      /\ NewestTurn(x) = turns + 1
  BY <1>1, WithTurnIs, ChatSessionsAssumption
<1>3. y.turns \in Seq(Turns)
  BY <1>1 DEF Session
<1>4. /\ DOMAIN x.turns = 1..(Len(y.turns) + 1) /\ DOMAIN y.turns = 1..Len(y.turns)
      /\ Len(y.turns) \in Nat
      /\ \A k \in DOMAIN y.turns : x.turns[k] = y.turns[k] /\ y.turns[k] \in Turns
      /\ x.turns[Len(y.turns) + 1] = turns + 1
  <2> HIDE DEF x, y
  <2> QED
    BY <1>2, <1>3
<1>5. \A n : SaidIn(x, n) <=> SaidIn(y, n) \/ n = turns + 1
  <2> HIDE DEF x, y
  <2> QED
    BY <1>4 DEF SaidIn
<1>6. Ascending(y.turns) /\ (\A n : SaidIn(y, n) => n \in 1..turns) => Ascending(x.turns)
  <2> HIDE DEF x, y
  <2> SUFFICES ASSUME Ascending(y.turns), \A n : SaidIn(y, n) => n \in 1..turns,
                      NEW j \in DOMAIN x.turns, NEW k \in DOMAIN x.turns, j < k
               PROVE  x.turns[j] < x.turns[k]
    BY DEF Ascending
  <2>1. j \in DOMAIN y.turns
    BY <1>4
  <2>2. y.turns[j] \in 1..turns
    BY <2>1 DEF SaidIn
  <2>3. CASE k \in DOMAIN y.turns
    BY <1>4, <2>1, <2>3 DEF Ascending
  <2>4. CASE k = Len(y.turns) + 1
    BY <1>1, <1>4, <2>1, <2>2, <2>4
  <2> QED
    BY <1>4, <2>3, <2>4
<1> QED
  BY <1>1, <1>2, <1>5, <1>6

LEMMA TurnsOnlyGrow ==
    ASSUME TypeInv, [Next]_vars
    PROVE  turns \in Nat /\ turns' \in Nat /\ turns <= turns'
<1>1. turns \in Nat
  BY ChatSessionsAssumption DEF TypeInv, TypeOK
<1>2. turns' = turns \/ turns' = turns + 1
  BY DEF Next, vars, BeginNew, BeginNext, CallFails, Respond, PreviewPanics, SpawnSave, Save,
         SaveFails, Create, Rename, Delete, Crash
<1> QED
  BY <1>1, <1>2

(* What a version says was said by a version before, or is the one answer  *)
(* of this step.                                                           *)
LEMMA SaidBefore ==
    ASSUME TypeInv, [Next]_vars, NEW s \in Sessions, NEW x \in Versions(s)', NEW n, SaidIn(x, n)
    PROVE  \/ \E y \in Versions(s) : SaidIn(y, n)
           \/ Answered(x, s) /\ n = turns + 1
<1>1. CASE Kept(x, s)
  BY <1>1 DEF Kept, SaidIn
<1>2. CASE Born(x, s)
  BY <1>2 DEF Born, SaidIn
<1>3. CASE Answered(x, s)
  BY <1>3, AnswerSays DEF Answered
<1> QED
  BY <1>1, <1>2, <1>3, VersionStep

LEMMA OrderInductive == TypeInv /\ OrderInv /\ [Next]_vars => OrderInv'
<1> SUFFICES ASSUME TypeInv, OrderInv, [Next]_vars PROVE OrderInv'
  OBVIOUS
<1>1. ASSUME NEW s \in Sessions, NEW x \in Versions(s)'
      PROVE  Ascending(x.turns) /\ \A n : SaidIn(x, n) => n \in 1..turns'
  <2>1. CASE Kept(x, s)
    BY <2>1, TurnsOnlyGrow DEF Kept, OrderInv, SaidIn
  <2>2. CASE Born(x, s)
    BY <2>2 DEF Born, SaidIn, Ascending
  <2>3. CASE Answered(x, s)
    <3>1. PICK c \in Calls : SpawnSave(c) /\ x = WithTurn(call[c].copy) /\ call[c].copy \in Versions(s)
      BY <2>3 DEF Answered
    <3>2. Ascending(call[c].copy.turns) /\ \A n : SaidIn(call[c].copy, n) => n \in 1..turns
      BY <3>1 DEF OrderInv
    <3> QED
      BY <3>1, <3>2, AnswerSays
  <2> QED
    BY <2>1, <2>2, <2>3, VersionStep
<1>2. ASSUME NEW s \in Sessions, NEW r \in Sessions, NEW x \in Versions(s)', NEW y \in Versions(r)',
             NEW n \in Nat, SaidIn(x, n), SaidIn(y, n)
      PROVE  s = r
  <2>1. (\E z \in Versions(s) : SaidIn(z, n)) \/ (\E z \in Versions(r) : SaidIn(z, n)) => n \in 1..turns
    BY DEF OrderInv
  <2>2. n = turns + 1 => n \notin 1..turns
    BY TurnsOnlyGrow
  <2>3. CASE n = turns + 1
    <3>1. Answered(x, s) /\ Answered(y, r)
      BY <1>2, <2>1, <2>2, <2>3, SaidBefore
    <3> QED
      BY <3>1, OneAnswer DEF Answered
  <2>4. CASE n # turns + 1
    BY <1>2, <2>4, SaidBefore DEF OrderInv
  <2> QED
    BY <2>3, <2>4
<1> QED
  BY <1>1, <1>2 DEF OrderInv

LEMMA InitVersions == ASSUME Init, NEW s \in Sessions PROVE Versions(s) = {}
BY DEF Init, Versions, Copies, Generating, Unsaved, Idle

(* Stored turns are in the order they were answered in, none twice, none   *)
(* in two sessions, whichever writes overtake one another.                 *)
THEOREM ChatOrder == Spec => []StoredInOrder
<1>1. Init => OrderInv
  BY InitVersions DEF OrderInv
<1>2. TypeInv /\ OrderInv => StoredInOrder
  <2> SUFFICES ASSUME TypeInv, OrderInv, NEW s \in Sessions, rows[s] # NoSession
               PROVE  /\ Ascending(rows[s].turns)
                      /\ \A r \in Sessions \ {s} : rows[r] # NoSession =>
                            \A j \in DOMAIN rows[s].turns, k \in DOMAIN rows[r].turns :
                               rows[s].turns[j] # rows[r].turns[k]
    BY DEF StoredInOrder, Ascending
  <2>1. \A r \in Sessions : rows[r] # NoSession => rows[r] \in Versions(r)
    BY DEF Versions
  <2>2. ASSUME NEW r \in Sessions \ {s}, rows[r] # NoSession,
               NEW j \in DOMAIN rows[s].turns, NEW k \in DOMAIN rows[r].turns,
               rows[s].turns[j] = rows[r].turns[k]
        PROVE  FALSE
    <3>1. SaidIn(rows[s], rows[s].turns[j]) /\ SaidIn(rows[r], rows[s].turns[j])
      BY <2>2 DEF SaidIn
    <3>2. rows[s].turns[j] \in Nat
      BY <2>1, <3>1, TurnsOnlyGrow, ChatSessionsAssumption DEF OrderInv, TypeInv, TypeOK
    <3> QED
      BY <2>1, <2>2, <3>1, <3>2 DEF OrderInv
  <2> QED
    BY <2>1, <2>2 DEF OrderInv
<1> QED
  BY <1>1, <1>2, OrderInductive, TypeAlways, PTL DEF Spec

-----------------------------------------------------------------------------
(* Uncontested requests *)

Sole(c) ==
    /\ \A d \in Calls : call[d].pc = "generating" /\ call[d].sid = call[c].sid => d = c
    /\ \A w \in saves : w.sid # call[c].sid

SoleSave(w) ==
    /\ \A v \in saves : v.sid = w.sid => v = w
    /\ \A c \in Calls : ~(call[c].pc = "generating" /\ call[c].sid = w.sid)

(* A call, or a spawned write, that has met no other request is alone on   *)
(* its session.                                                            *)
AloneInv ==
    /\ \A c \in Calls : call[c].pc = "generating" /\ ~call[c].contested => Sole(c)
    /\ \A w \in saves : NewestTurn(w.copy) \notin contested => SoleSave(w)

LEMMA AloneInductive == TypeInv /\ AloneInv /\ [Next]_vars => AloneInv'
<1> SUFFICES ASSUME TypeInv, AloneInv, [Next]_vars PROVE AloneInv'
  OBVIOUS
<1>a. DOMAIN call = Calls /\ \A c \in Calls : call[c].pc = "generating" => call[c].contested \in BOOLEAN
  BY CallIs DEF TypeInv, TypeOK, CallType
<1>1. ASSUME NEW c \in Calls, NEW s \in Sessions, BeginNew(c, s) PROVE AloneInv'
  <2>1. /\ \A d \in Calls : ~(call[d].pc = "generating" /\ call[d].sid = s)
        /\ \A w \in saves : w.sid # s
    BY <1>1 DEF BeginNew, Fresh, Busy, Generating, Unsaved
  <2> QED
    BY <1>1, <1>a, <2>1 DEF BeginNew, history, AloneInv, Sole, SoleSave
<1>2. ASSUME NEW c \in Calls, NEW s \in Sessions, BeginNext(c, s) PROVE AloneInv'
  <2>1. /\ call[c].pc = "idle" /\ UNCHANGED saves
        /\ call'[c].pc = "generating" /\ call'[c].sid = s /\ call'[c].contested = Busy(s)
    BY <1>2, <1>a DEF BeginNext
  <2>2. \A d \in Calls \ {c} :
          /\ call'[d].pc = call[d].pc /\ call'[d].sid = call[d].sid
          /\ call[d].pc = "generating" /\ call[d].sid = s => call'[d].contested
          /\ ~(call[d].pc = "generating" /\ call[d].sid = s) => call'[d] = call[d]
    BY <1>2, <1>a, CallIs DEF BeginNext, Generating, CallType, TypeInv
  <2>3. /\ contested \subseteq contested'
        /\ \A w \in saves : w.sid = s => NewestTurn(w.copy) \in contested'
    BY <1>2 DEF BeginNext, Unsaved
  <2>4. ~Busy(s) => /\ \A d \in Calls : ~(call[d].pc = "generating" /\ call[d].sid = s)
                    /\ \A w \in saves : w.sid # s
    BY DEF Busy, Generating, Unsaved
  <2>5. ASSUME NEW d \in Calls, call'[d].pc = "generating", ~call'[d].contested PROVE Sole(d)'
    <3>1. CASE d = c
      BY <2>1, <2>2, <2>4, <2>5, <3>1 DEF Sole
    <3>2. CASE d # c
      <4>1. call'[d] = call[d] /\ call[d].sid # s
        BY <2>2, <2>5, <3>2
      <4> QED
        BY <2>1, <2>2, <2>5, <3>2, <4>1 DEF Sole, AloneInv
    <3> QED
      BY <3>1, <3>2
  <2>6. ASSUME NEW w \in saves, NewestTurn(w.copy) \notin contested' PROVE SoleSave(w)'
    BY <2>1, <2>2, <2>3, <2>6 DEF SoleSave, AloneInv
  <2> QED
    BY <2>1, <2>5, <2>6 DEF AloneInv, NewestTurn
<1>3. ASSUME NEW c \in Calls, CallFails(c) PROVE AloneInv'
  BY <1>3, <1>a DEF CallFails, history, Idle, AloneInv, Sole, SoleSave
<1>4. ASSUME NEW c \in Calls, SpawnSave(c) PROVE AloneInv'
  <2> DEFINE v == [sid |-> call[c].sid, copy |-> WithTurn(call[c].copy)]
  <2>1. /\ saves' = saves \cup {v} /\ call'[c].pc = "idle" /\ contested \subseteq contested'
        /\ call[c].pc = "generating" /\ v.sid = call[c].sid /\ NewestTurn(v.copy) = turns + 1
        /\ call[c].contested => turns + 1 \in contested'
    BY <1>4, <1>a, AnswerSays DEF SpawnSave, Idle
  <2>2. \A d \in Calls \ {c} : call'[d] = call[d]
    BY <1>4, <1>a DEF SpawnSave
  <2> HIDE DEF v
  <2>3. ASSUME NEW d \in Calls, call'[d].pc = "generating", ~call'[d].contested PROVE Sole(d)'
    <3>1. d # c /\ call'[d] = call[d] /\ Sole(d)
      BY <2>1, <2>2, <2>3 DEF AloneInv
    <3> QED
      BY <2>1, <2>2, <3>1 DEF Sole
  <2>4. ASSUME NEW w \in saves', NewestTurn(w.copy) \notin contested' PROVE SoleSave(w)'
    <3>1. CASE w \in saves /\ w # v
      <4>1. SoleSave(w)
        BY <2>1, <2>4, <3>1 DEF AloneInv
      <4> QED
        BY <2>1, <2>2, <3>1, <4>1 DEF SoleSave
    <3>2. CASE w = v
      <4>1. Sole(c)
        BY <1>a, <2>1, <2>4, <3>2 DEF AloneInv
      <4> QED
        BY <2>1, <2>2, <3>2, <4>1 DEF Sole, SoleSave
    <3> QED
      BY <2>1, <3>1, <3>2
  <2> QED
    BY <2>3, <2>4 DEF AloneInv, NewestTurn
<1>5. ASSUME NEW w \in saves, Save(w) \/ SaveFails(w) PROVE AloneInv'
  BY <1>5 DEF Save, SaveFails, history, AloneInv, Sole, SoleSave, NewestTurn
<1>6. ASSUME NEW s \in Sessions, NEW t \in Titles, Create(s, t) \/ Rename(s, t) \/ Delete(s)
      PROVE  AloneInv'
  BY <1>6 DEF Create, Rename, Delete, AloneInv, Sole, SoleSave, NewestTurn
<1>7. ASSUME NEW s \in Sessions, Delete(s) PROVE AloneInv'
  BY <1>7 DEF Delete, AloneInv, Sole, SoleSave, NewestTurn
<1>8. CASE Crash
  BY <1>8 DEF Crash, Idle, AloneInv
<1>9. CASE UNCHANGED vars
  BY <1>9 DEF vars, history, AloneInv, Sole, SoleSave, NewestTurn
<1> QED
  BY <1>1, <1>2, <1>3, <1>4, <1>5, <1>6, <1>7, <1>8, <1>9 DEF Next, Respond, PreviewPanics

-----------------------------------------------------------------------------
(* Landed turns *)

(* An uncontested turn that was written is in the row and in every copy.   *)
KeptInv ==
    \A s \in Sessions : \A n \in landed[s] :
        rows[s] # NoSession /\ \A x \in Versions(s) : SaidIn(x, n)

LEMMA RowStays ==
    ASSUME TypeInv, [Next]_vars, NEW s \in Sessions, rows[s] # NoSession
    PROVE  rows'[s] # NoSession \/ (landed'[s] = {} /\ s \in known')
<1>a. rows[s] \in Session /\ \A x \in Session : x # NoSession
  BY ChatSessionsAssumption DEF TypeInv, TypeOK
<1>1. ASSUME NEW w \in saves, Save(w) PROVE rows'[s] # NoSession
  BY <1>1, <1>a DEF Save, TypeInv, TypeOK
<1>2. ASSUME NEW r \in Sessions, NEW t \in Titles, Rename(r, t) PROVE rows'[s] # NoSession
  <2>1. [rows[s] EXCEPT !.title = t] \in Session
    BY <1>a DEF Session
  <2> QED
    BY <1>2, <1>a, <2>1 DEF Rename, TypeInv, TypeOK
<1>3. ASSUME NEW r \in Sessions, NEW t \in Titles, Create(r, t) PROVE rows'[s] # NoSession
  BY <1>3, <1>a DEF Create, Fresh, TypeInv, TypeOK
<1>4. ASSUME NEW r \in Sessions, Delete(r) PROVE rows'[s] # NoSession \/ (landed'[s] = {} /\ s \in known')
  BY <1>4, <1>a DEF Delete, TypeInv, TypeOK
<1>5. UNCHANGED rows => rows'[s] # NoSession
  BY <1>a
<1> QED
  BY <1>1, <1>2, <1>3, <1>4, <1>5
     DEF Next, vars, BeginNew, BeginNext, CallFails, Respond, PreviewPanics, SpawnSave, SaveFails, Crash

LEMMA KeptInductive == TypeInv /\ AloneInv /\ KeptInv /\ [Next]_vars => KeptInv'
<1> SUFFICES ASSUME TypeInv, AloneInv, KeptInv, [Next]_vars,
                    NEW s \in Sessions, NEW n \in landed'[s]
             PROVE  rows'[s] # NoSession /\ \A x \in Versions(s)' : SaidIn(x, n)
  BY DEF KeptInv, SaidIn
<1>1. CASE n \in landed[s]
  <2>1. \A x \in Versions(s) : SaidIn(x, n)
    BY <1>1 DEF KeptInv
  <2>2. rows[s] # NoSession
    BY <1>1 DEF KeptInv
  <2>3. rows'[s] # NoSession
    BY <2>2, RowStays
  <2>4. ASSUME NEW x \in Versions(s)' PROVE SaidIn(x, n)
    <3>1. ~Born(x, s)
      BY <2>2 DEF Born, Fresh
    <3>2. CASE Kept(x, s)
      BY <2>1, <3>2 DEF Kept, SaidIn
    <3>3. CASE Answered(x, s)
      BY <2>1, <3>3, AnswerSays DEF Answered
    <3> QED
      BY <3>1, <3>2, <3>3, VersionStep
  <2> QED
    BY <2>3, <2>4
<1>2. CASE n \notin landed[s]
  <2>1. PICK w \in saves : Save(w) /\ w.sid = s /\ NewestTurn(w.copy) \notin contested
                           /\ n = NewestTurn(w.copy)
    BY <1>2 DEF Next, vars, history, BeginNew, BeginNext, CallFails, Respond, PreviewPanics,
            SpawnSave, Save, SaveFails, Create, Rename, Delete, Crash, TypeInv, TypeOK
  <2>2. SoleSave(w)
    BY <2>1 DEF AloneInv
  <2>3. rows'[s] = w.copy /\ UNCHANGED call /\ saves' = saves \ {w}
    BY <2>1 DEF Save, TypeInv, TypeOK
  <2>4. \A x \in Versions(s)' : x = w.copy
    BY <2>1, <2>2, <2>3 DEF SoleSave, Versions, Copies, Generating, Unsaved
  <2>5. SaidIn(w.copy, n)
    <3>1. w.copy.turns \in Seq(Turns) /\ w.copy.turns # <<>>
      BY DEF TypeInv, TypeOK, SavesHaveTurn, Session
    <3>2. Len(w.copy.turns) \in DOMAIN w.copy.turns
      BY <3>1
    <3> QED
      BY <2>1, <3>2 DEF SaidIn, NewestTurn
  <2>6. rows'[s] # NoSession
    BY <2>1, <2>3, ChatSessionsAssumption DEF TypeInv, TypeOK
  <2> QED
    BY <2>4, <2>5, <2>6
<1> QED
  BY <1>1, <1>2

(* However requests overlap, a turn whose call and write met no other      *)
(* request is in the stored session from its write to the session's        *)
(* deletion: no write of an older copy drops it.                           *)
THEOREM UncontestedTurns == Spec => []UncontestedTurnsKept
<1>1. Init => AloneInv /\ KeptInv
  BY DEF Init, AloneInv, KeptInv, Idle
<1>2. KeptInv => UncontestedTurnsKept
  <2> SUFFICES ASSUME KeptInv, NEW s \in Sessions, NEW n \in landed[s]
               PROVE  rows[s] # NoSession /\ SaidIn(rows[s], n)
    BY DEF UncontestedTurnsKept, SaidIn
  <2> QED
    BY DEF KeptInv, Versions
<1>3. TypeInv /\ (AloneInv /\ KeptInv) /\ [Next]_vars => (AloneInv /\ KeptInv)'
  BY AloneInductive, KeptInductive
<1> QED
  BY <1>1, <1>2, <1>3, TypeAlways, PTL DEF Spec

-----------------------------------------------------------------------------
(* Quiet renames *)

(* A title given when nothing overlapped is the title of the row and of    *)
(* every copy; and the session is one somebody has used.                   *)
NamedInv ==
    \A s \in Sessions : named[s] # NoTitle =>
        /\ s \in known \/ rows[s] # NoSession
        /\ \A x \in Versions(s) : x.title = named[s]

LEMMA NamedStep ==
    ASSUME TypeInv, [Next]_vars, NEW s \in Sessions, named'[s] # NoTitle
    PROVE  \/ named'[s] = named[s] /\ ~\E t \in Titles : Rename(s, t)
           \/ \E t \in Titles : Rename(s, t) /\ ~Busy(s) /\ named'[s] = t
           \/ \E t \in Titles : Create(s, t) /\ named'[s] = t
<1>1. ASSUME NEW r \in Sessions, NEW t \in Titles, Rename(r, t)
      PROVE  r = s => ~Busy(s) /\ named'[s] = t
  BY <1>1 DEF Rename, TypeInv, TypeOK
<1>2. ASSUME NEW r \in Sessions, NEW t \in Titles, Create(r, t)
      PROVE  IF r = s THEN named'[s] = t ELSE named'[s] = named[s]
  BY <1>2 DEF Create, TypeInv, TypeOK
<1>3. ASSUME NEW r \in Sessions, NEW t \in Titles, Rename(r, t), r # s
      PROVE  named'[s] = named[s]
  BY <1>3 DEF Rename, TypeInv, TypeOK
<1> QED
  BY <1>1, <1>2, <1>3
     DEF Next, vars, history, BeginNew, BeginNext, CallFails, Respond, PreviewPanics, SpawnSave,
         Save, SaveFails, Delete, Crash

LEMMA NamedInductive == TypeInv /\ NamedInv /\ [Next]_vars => NamedInv'
<1> SUFFICES ASSUME TypeInv, NamedInv, [Next]_vars, NEW s \in Sessions, named'[s] # NoTitle
             PROVE  /\ s \in known' \/ rows'[s] # NoSession
                    /\ \A x \in Versions(s)' : x.title = named'[s]
  BY DEF NamedInv
<1>1. ASSUME NEW t \in Titles, Rename(s, t), ~Busy(s), named'[s] = t
      PROVE  /\ s \in known' \/ rows'[s] # NoSession
             /\ \A x \in Versions(s)' : x.title = named'[s]
  <2>1. /\ rows[s] \in Session /\ rows'[s] = [rows[s] EXCEPT !.title = t]
        /\ UNCHANGED <<call, saves>>
    BY <1>1 DEF Rename, TypeInv, TypeOK
  <2>2. rows'[s] \in Session /\ rows'[s].title = t
    BY <2>1 DEF Session
  <2>3. \A x \in Versions(s)' : x = rows'[s]
    BY <1>1, <2>1 DEF Busy, Versions, Copies, Generating, Unsaved
  <2> QED
    BY <1>1, <2>2, <2>3, ChatSessionsAssumption
<1>2. ASSUME NEW t \in Titles, Create(s, t), named'[s] = t
      PROVE  /\ s \in known' \/ rows'[s] # NoSession
             /\ \A x \in Versions(s)' : x.title = named'[s]
  <2>1. rows'[s].title = t /\ s \in known' /\ UNCHANGED <<call, saves>> /\ ~Busy(s)
    BY <1>2 DEF Create, Fresh, TypeInv, TypeOK
  <2>2. \A x \in Versions(s)' : x = rows'[s]
    BY <2>1 DEF Busy, Versions, Copies, Generating, Unsaved
  <2> QED
    BY <1>2, <2>1, <2>2
<1>3. ASSUME named'[s] = named[s], ~\E t \in Titles : Rename(s, t)
      PROVE  /\ s \in known' \/ rows'[s] # NoSession
             /\ \A x \in Versions(s)' : x.title = named'[s]
  <2>1. /\ s \in known \/ rows[s] # NoSession
        /\ \A x \in Versions(s) : x.title = named[s]
    BY <1>3 DEF NamedInv
  <2>2. known \subseteq known'
    BY DEF Next, vars, BeginNew, BeginNext, CallFails, Respond, PreviewPanics, SpawnSave,
           Save, SaveFails, Create, Rename, Delete, Crash
  <2>3. s \in known' \/ rows'[s] # NoSession
    BY <2>1, <2>2, RowStays
  <2>4. ASSUME NEW x \in Versions(s)' PROVE x.title = named'[s]
    <3>1. ~Born(x, s)
      BY <2>1 DEF Born, Fresh
    <3>2. CASE Kept(x, s)
      BY <1>3, <2>1, <3>2 DEF Kept
    <3>3. CASE Answered(x, s)
      BY <1>3, <2>1, <3>3, AnswerSays DEF Answered
    <3> QED
      BY <3>1, <3>2, <3>3, VersionStep
  <2> QED
    BY <2>3, <2>4
<1> QED
  BY <1>1, <1>2, <1>3, NamedStep

(* A title given while no request on the session was under way is the      *)
(* title of the stored session until the next rename: no answer that was   *)
(* begun before or after it brings another one back.                       *)
THEOREM QuietRenames == Spec => []QuietRenamesHold
<1>1. Init => NamedInv
  BY DEF Init, NamedInv
<1>2. NamedInv => QuietRenamesHold
  BY DEF NamedInv, QuietRenamesHold, Versions
<1> QED
  BY <1>1, <1>2, NamedInductive, TypeAlways, PTL DEF Spec

-----------------------------------------------------------------------------
(* The abstract log *)

NewSession(h) == [title |-> AutoTitle, brought |-> h, turns |-> <<>>]

(* Requests that wait for each other contest nothing, and the session a    *)
(* call read is still the stored one when the call answers.                *)
WaitingInv ==
    /\ contested = {}
    /\ \A c \in Calls : call[c].pc = "generating" =>
          /\ ~call[c].contested
          /\ \/ rows[call[c].sid] # NoSession /\ call[c].copy = rows[call[c].sid]
             \/ rows[call[c].sid] = NoSession /\ \E h \in Histories : call[c].copy = NewSession(h)

LogInv == TypeInv /\ AloneInv /\ WaitingInv

(* Such requests leave each session to one call or one write at a time.    *)
LEMMA OneAtATime ==
    ASSUME LogInv
    PROVE  /\ \A c \in Calls : call[c].pc = "generating" => Sole(c)
           /\ \A w \in saves : SoleSave(w)
BY DEF LogInv, AloneInv, WaitingInv

LEMMA AtRest ==
    ASSUME NEW s \in Sessions, ~Busy(s)
    PROVE  /\ Unsaved(s) = {} /\ Generating(s) = {}
           /\ \A c \in Calls : ~(call[c].pc = "generating" /\ call[c].sid = s)
BY DEF Busy, Generating, Unsaved

LEMMA WaitingInductive ==
    ASSUME ~Overlap, LogInv, [Next]_vars
    PROVE  WaitingInv'
<1>a. /\ DOMAIN call = Calls /\ DOMAIN rows = Sessions
      /\ \A c \in Calls : call[c].pc = "generating" => call[c].sid \in Sessions
  BY CallIs DEF LogInv, TypeInv, TypeOK, CallType
<1>b. Idle.pc = "idle"
  BY DEF Idle
<1>1. ASSUME NEW c \in Calls, NEW s \in Sessions, BeginNew(c, s) PROVE WaitingInv'
  BY <1>1, <1>a DEF BeginNew, Fresh, history, LogInv, WaitingInv, NewSession
<1>2. ASSUME NEW c \in Calls, NEW s \in Sessions, BeginNext(c, s) PROVE WaitingInv'
  <2>a. ~Busy(s)
    BY <1>2 DEF BeginNext, MayUse
  <2>b. Busy(s) = FALSE
    BY <2>a DEF Busy
  <2>1. Busy(s) = FALSE /\ Unsaved(s) = {} /\ Generating(s) = {}
    BY <2>a, <2>b, AtRest
  <2>2. /\ rows[s] # NoSession /\ rows' = rows
        /\ call' = [d \in Calls |->
                      IF d = c THEN [pc |-> "generating", sid |-> s, copy |-> rows[s],
                                     contested |-> FALSE]
                      ELSE call[d]]
    BY <1>2, <2>1 DEF BeginNext
  <2>3. contested' = contested
    BY <1>2, <2>1 DEF BeginNext
  <2> QED
    BY <2>2, <2>3 DEF LogInv, WaitingInv
<1>3. ASSUME NEW c \in Calls, CallFails(c) PROVE WaitingInv'
  BY <1>3, <1>a, <1>b DEF CallFails, history, LogInv, WaitingInv
<1>4. ASSUME NEW c \in Calls, SpawnSave(c) PROVE WaitingInv'
  BY <1>4, <1>a, <1>b DEF SpawnSave, LogInv, WaitingInv
<1>5. ASSUME NEW w \in saves, Save(w) PROVE WaitingInv'
  <2>1. \A c \in Calls : call[c].pc = "generating" => call[c].sid # w.sid
    BY OneAtATime DEF SoleSave
  <2> QED
    BY <1>5, <1>a, <2>1 DEF Save, LogInv, WaitingInv
<1>6. ASSUME NEW w \in saves, SaveFails(w) PROVE WaitingInv'
  BY <1>6 DEF SaveFails, history, LogInv, WaitingInv
<1>7. ASSUME NEW s \in Sessions, NEW t \in Titles, Create(s, t) \/ Rename(s, t) PROVE WaitingInv'
  <2>1. \A c \in Calls : call[c].pc = "generating" => call[c].sid # s
    BY <1>7, AtRest DEF Create, Fresh, Rename, MayUse
  <2>2. UNCHANGED <<call, contested>> /\ \A r \in Sessions \ {s} : rows'[r] = rows[r]
    BY <1>7, <1>a DEF Create, Rename
  <2> QED
    BY <1>a, <2>1, <2>2 DEF LogInv, WaitingInv
<1>8. ASSUME NEW s \in Sessions, Delete(s) PROVE WaitingInv'
  <2>1. \A c \in Calls : call[c].pc = "generating" => call[c].sid # s
    BY <1>8, AtRest DEF Delete, MayUse
  <2>2. UNCHANGED <<call, contested>> /\ \A r \in Sessions \ {s} : rows'[r] = rows[r]
    BY <1>8, <1>a DEF Delete
  <2> QED
    BY <1>a, <2>1, <2>2 DEF LogInv, WaitingInv
<1>9. CASE Crash
  BY <1>9, <1>b DEF Crash, history, LogInv, WaitingInv
<1>10. CASE UNCHANGED vars
  BY <1>10 DEF vars, history, LogInv, WaitingInv
<1> QED
  BY <1>1, <1>2, <1>3, <1>4, <1>5, <1>6, <1>7, <1>8, <1>9, <1>10 DEF Next, Respond, PreviewPanics

LEMMA LogInvAlways == ASSUME ~Overlap PROVE Spec => []LogInv
<1>1. Init => TypeInv /\ AloneInv /\ WaitingInv
  <2>1. Init => AloneInv /\ WaitingInv
    BY DEF Init, Idle, AloneInv, WaitingInv
  <2> QED
    BY <2>1, InitType
<1>2. LogInv /\ [Next]_vars => LogInv'
  BY WaitingInductive, AloneInductive, TypeInductive DEF LogInv
<1> QED
  BY <1>1, <1>2, PTL DEF Spec, LogInv

(* What the client has been told of s: the spawned write, or the row.      *)
LogOf(s) == IF Unsaved(s) # {} THEN (CHOOSE w \in Unsaved(s) : TRUE).copy ELSE rows[s]

LogNow == [s \in Sessions |-> LogOf(s)]

LogsAre ==
    \A s \in Sessions :
        /\ Unsaved(s) = {} => LogOf(s) = rows[s]
        /\ \A w \in saves : w.sid = s => LogOf(s) = w.copy /\ Unsaved(s) = {w}

LEMMA LogsAreKnown == LogInv => LogsAre
<1> SUFFICES ASSUME LogInv, NEW s \in Sessions
             PROVE  /\ Unsaved(s) = {} => LogOf(s) = rows[s]
                    /\ \A w \in saves : w.sid = s => LogOf(s) = w.copy /\ Unsaved(s) = {w}
  BY DEF LogsAre
<1>1. ASSUME NEW w \in saves, w.sid = s PROVE LogOf(s) = w.copy /\ Unsaved(s) = {w}
  <2>1. Unsaved(s) = {w}
    BY <1>1, OneAtATime DEF SoleSave, Unsaved
  <2>2. (CHOOSE v \in {w} : TRUE) = w
    OBVIOUS
  <2> QED
    BY <2>1, <2>2 DEF LogOf
<1> QED
  BY <1>1 DEF LogOf

LEMMA LogsAreKnownNext == LogInv' => LogsAre'
BY LogsAreKnown, PTL

(* A step that leaves a session's row and spawned write alone leaves what  *)
(* its client sees alone.                                                  *)
LEMMA LogStays ==
    ASSUME NEW s \in Sessions, rows'[s] = rows[s], Unsaved(s)' = Unsaved(s)
    PROVE  LogOf(s)' = LogOf(s)
BY DEF LogOf

(* An answered turn is in what the client sees, though not in the row.     *)
LEMMA AnswerIsAbstract ==
    ASSUME LogInv, LogInv', NEW c \in Calls, SpawnSave(c)
    PROVE  Log!Next
<1>1. /\ call[c].pc = "generating" /\ call[c].sid \in Sessions /\ call[c].copy \in Session
      /\ turns \in Nat /\ turns < MaxTurns
  BY CallIs DEF SpawnSave, LogInv, TypeInv, TypeOK, CallType
<1>2. turns + 1 \in Turns
  BY <1>1, ChatSessionsAssumption DEF Turns
<1>3. PICK s \in Sessions, n \in Turns : s = call[c].sid /\ n = turns + 1
  BY <1>1, <1>2
<1>4. PICK w : w = [sid |-> s, copy |-> WithTurn(call[c].copy)]
  OBVIOUS
<1>5. /\ saves' = saves \cup {w} /\ UNCHANGED rows /\ w.sid = s
      /\ w.copy = WithTurn(call[c].copy)
  BY <1>1, <1>3, <1>4 DEF SpawnSave
<1>6. Unsaved(s) = {} /\ LogOf(s) = rows[s]
  BY <1>1, <1>3, OneAtATime, LogsAreKnown DEF Sole, Unsaved, LogsAre
<1>7. LogOf(s)' = WithTurn(call[c].copy)
  BY <1>5, LogsAreKnownNext DEF LogsAre
<1>8. \A r \in Sessions \ {s} : LogOf(r)' = LogOf(r)
  BY <1>5, LogStays DEF Unsaved
<1>9. PICK h \in Histories :
         WithTurn(call[c].copy) = IF rows[s] = NoSession
                                  THEN [title |-> AutoTitle, brought |-> h, turns |-> <<n>>]
                                  ELSE Log!Longer(rows[s], n)
  <2>1. CASE rows[s] # NoSession
    BY <1>1, <1>3, <2>1, ChatSessionsAssumption DEF LogInv, WaitingInv, WithTurn, Log!Longer
  <2>2. CASE rows[s] = NoSession
    <3>1. PICK h \in Histories : call[c].copy = [title |-> AutoTitle, brought |-> h, turns |-> <<>>]
      BY <1>1, <1>3, <2>2 DEF LogInv, WaitingInv, NewSession
    <3>2. Append(<<>>, n) = <<n>>
      OBVIOUS
    <3>3. WithTurn([title |-> AutoTitle, brought |-> h, turns |-> <<>>])
             = [title |-> AutoTitle, brought |-> h, turns |-> Append(<<>>, n)]
      BY <1>3 DEF WithTurn
    <3> QED
      BY <2>2, <3>1, <3>2, <3>3
  <2> QED
    BY <2>1, <2>2
<1>10. LogNow' = [LogNow EXCEPT ![s] =
                    IF @ = NoSession THEN [title |-> AutoTitle, brought |-> h, turns |-> <<n>>]
                    ELSE Log!Longer(@, n)]
  BY <1>3, <1>6, <1>7, <1>8, <1>9 DEF LogNow
<1>11. Log!Answer(s, AutoTitle, h, n)
  BY <1>5, <1>10 DEF Log!Answer, LogNow, LogOf
<1> QED
  BY <1>11 DEF Log!Next

(* The step that runs a spawned write, or loses it.                        *)
LEMMA WriteIsAbstract ==
    ASSUME LogInv, LogInv', NEW w \in saves, Save(w) \/ SaveFails(w)
    PROVE  Log!Next
<1>1. w.sid \in Sessions /\ w.copy \in Session
  BY DEF LogInv, TypeInv, TypeOK
<1>2. PICK s \in Sessions : s = w.sid
  BY <1>1
<1>3. LogOf(s) = w.copy /\ Unsaved(s) = {w}
  BY <1>2, LogsAreKnown DEF LogsAre
<1>4. saves' = saves \ {w}
  BY DEF Save, SaveFails
<1>5. Unsaved(s)' = {}
  BY <1>3, <1>4 DEF Unsaved
<1>6. LogOf(s)' = rows'[s]
  BY <1>5, LogsAreKnownNext DEF LogsAre
<1>7. \A r \in Sessions \ {s} : rows'[r] = rows[r]
  BY <1>2 DEF Save, SaveFails, LogInv, TypeInv, TypeOK
<1>8. \A r \in Sessions \ {s} : LogOf(r)' = LogOf(r)
  BY <1>2, <1>4, <1>7, LogStays DEF Unsaved
<1>9. CASE Save(w)
  <2>1. rows' = [rows EXCEPT ![s] = w.copy]
    BY <1>2, <1>9 DEF Save
  <2>2. LogOf(s)' = LogOf(s)
    BY <1>3, <1>6, <2>1 DEF LogInv, TypeInv, TypeOK
  <2>3. LogNow' = LogNow
    BY <1>8, <2>2 DEF LogNow
  <2>4. rows' = [rows EXCEPT ![s] = LogNow[s]]
    BY <1>3, <2>1 DEF LogNow
  <2>5. Log!Store(s)
    BY <2>3, <2>4 DEF Log!Store, LogNow, LogOf
  <2> QED
    BY <2>5 DEF Log!Next
<1>10. CASE SaveFails(w)
  <2>1. rows' = rows
    BY <1>10 DEF SaveFails
  <2>2. LogNow' = [r \in Sessions |-> IF r \in {s} THEN rows[r] ELSE LogNow[r]]
    BY <1>6, <1>8, <2>1 DEF LogNow
  <2>3. Log!Lose({s})
    BY <2>1, <2>2 DEF Log!Lose, LogNow, LogOf
  <2> QED
    BY <2>3 DEF Log!Next
<1> QED
  BY <1>9, <1>10

(* Renames and deletions wait for the writes before them.                  *)
LEMMA SessionIsAbstract ==
    ASSUME ~Overlap, LogInv, LogInv', NEW s \in Sessions, NEW t \in Titles,
           Create(s, t) \/ Rename(s, t)
    PROVE  Log!Next
<1>1. /\ ~Busy(s) /\ UNCHANGED saves
      /\ \A r \in Sessions \ {s} : rows'[r] = rows[r]
  BY DEF Create, Fresh, Rename, MayUse, LogInv, TypeInv, TypeOK
<1>2. Unsaved(s) = {} /\ \A r \in Sessions : Unsaved(r)' = Unsaved(r)
  BY <1>1, AtRest DEF Unsaved
<1>3. LogOf(s) = rows[s] /\ LogOf(s)' = rows'[s]
  BY <1>2, LogsAreKnown, LogsAreKnownNext DEF LogsAre
<1>4. \A r \in Sessions \ {s} : LogOf(r)' = LogOf(r)
  BY <1>1, <1>2, LogStays
<1>5. DOMAIN rows = Sessions
  BY DEF LogInv, TypeInv, TypeOK
<1>6. CASE Create(s, t)
  <2>1. /\ rows[s] = NoSession
        /\ rows' = [rows EXCEPT ![s] = [title |-> t, brought |-> NoHistory, turns |-> <<>>]]
    BY <1>6 DEF Create, Fresh
  <2>2. LogNow' = [LogNow EXCEPT ![s] = [title |-> t, brought |-> NoHistory, turns |-> <<>>]]
    BY <1>3, <1>4, <1>5, <2>1 DEF LogNow
  <2>3. LogNow[s] = NoSession /\ rows' = [rows EXCEPT ![s] = LogNow'[s]]
    BY <1>3, <1>5, <2>1 DEF LogNow
  <2>4. Log!Create(s, t)
    BY <2>2, <2>3 DEF Log!Create, LogNow, LogOf
  <2> QED
    BY <2>4 DEF Log!Next
<1>7. CASE Rename(s, t)
  <2>1. rows[s] # NoSession /\ rows' = [rows EXCEPT ![s].title = t]
    BY <1>7 DEF Rename
  <2>2. LogNow' = [LogNow EXCEPT ![s].title = t]
    BY <1>3, <1>4, <1>5, <2>1 DEF LogNow
  <2>3. LogNow[s] # NoSession /\ rows' = [rows EXCEPT ![s] = LogNow'[s]]
    BY <1>3, <1>5, <2>1 DEF LogNow
  <2>4. Log!Rename(s, t)
    BY <2>2, <2>3 DEF Log!Rename, LogNow, LogOf
  <2> QED
    BY <2>4 DEF Log!Next
<1> QED
  BY <1>6, <1>7

LEMMA DeleteIsAbstract ==
    ASSUME ~Overlap, LogInv, LogInv', NEW s \in Sessions, Delete(s)
    PROVE  Log!Next
<1>1. /\ ~Busy(s) /\ UNCHANGED saves
      /\ rows' = [rows EXCEPT ![s] = NoSession] /\ DOMAIN rows = Sessions
  BY DEF Delete, MayUse, LogInv, TypeInv, TypeOK
<1>2. Unsaved(s) = {} /\ \A r \in Sessions : Unsaved(r)' = Unsaved(r)
  BY <1>1, AtRest DEF Unsaved
<1>3. LogOf(s)' = NoSession
  BY <1>1, <1>2, LogsAreKnownNext DEF LogsAre
<1>4. \A r \in Sessions \ {s} : LogOf(r)' = LogOf(r)
  BY <1>1, <1>2, LogStays
<1>5. LogNow' = [LogNow EXCEPT ![s] = NoSession]
  BY <1>3, <1>4 DEF LogNow
<1>6. Log!Delete(s)
  BY <1>1, <1>5 DEF Log!Delete, LogNow, LogOf
<1> QED
  BY <1>6 DEF Log!Next

LEMMA StepIsAbstract ==
    ASSUME ~Overlap, LogInv, LogInv', [Next]_vars
    PROVE  Log!Next \/ UNCHANGED Log!logVars
<1>1. ASSUME UNCHANGED <<rows, saves>> PROVE UNCHANGED Log!logVars
  BY <1>1 DEF Log!logVars, Unsaved
<1>2. ASSUME NEW c \in Calls, NEW s \in Sessions, BeginNew(c, s) \/ BeginNext(c, s)
      PROVE  UNCHANGED <<rows, saves>>
  BY <1>2 DEF BeginNew, BeginNext
<1>3. ASSUME NEW c \in Calls, CallFails(c) PROVE UNCHANGED <<rows, saves>>
  BY <1>3 DEF CallFails
<1>4. ASSUME NEW c \in Calls, Respond(c) \/ PreviewPanics(c) PROVE Log!Next
  BY <1>4, AnswerIsAbstract DEF Respond, PreviewPanics
<1>5. ASSUME NEW w \in saves, Save(w) \/ SaveFails(w) PROVE Log!Next
  BY <1>5, WriteIsAbstract
<1>6. ASSUME NEW s \in Sessions, NEW t \in Titles, Create(s, t) \/ Rename(s, t) PROVE Log!Next
  BY <1>6, SessionIsAbstract
<1>7. ASSUME NEW s \in Sessions, Delete(s) PROVE Log!Next
  BY <1>7, DeleteIsAbstract
<1>8. CASE Crash
  <2>1. rows' = rows /\ \A r \in Sessions : Unsaved(r)' = {}
    BY <1>8 DEF Crash, Unsaved
  <2>2. LogNow' = [r \in Sessions |-> IF r \in Sessions THEN rows[r] ELSE LogNow[r]]
    BY <2>1, LogsAreKnownNext DEF LogNow, LogsAre
  <2>3. Log!Lose(Sessions)
    BY <2>1, <2>2 DEF Log!Lose, LogNow, LogOf
  <2> QED
    BY <2>3 DEF Log!Next
<1>9. CASE UNCHANGED vars
  BY <1>1, <1>9 DEF vars
<1> QED
  BY <1>1, <1>2, <1>3, <1>4, <1>5, <1>6, <1>7, <1>8, <1>9 DEF Next

LEMMA InitIsAbstract == Init => Log!Init
<1> SUFFICES ASSUME Init PROVE Log!Init
  OBVIOUS
<1>1. \A s \in Sessions : LogOf(s) = NoSession
  BY DEF Init, LogOf, Unsaved
<1>2. LogNow = [s \in Sessions |-> NoSession] /\ rows = LogNow
  BY <1>1 DEF LogNow, Init
<1> QED
  BY <1>2 DEF Log!Init, LogNow, LogOf

(* If requests on a session wait for each other and for the writes they    *)
(* spawned, the replacing of whole rows is a log per session: each step    *)
(* appends a turn, stores or loses what was not stored yet, or is the      *)
(* creation, the renaming or the deletion a client asked for.              *)
THEOREM LogKept ==
    ASSUME ~Overlap
    PROVE  Spec => ChatKeepsLog
<1>1. LogInv /\ LogInv' /\ [Next]_vars => [Log!Next]_(Log!logVars)
  BY StepIsAbstract
<1> QED
  BY <1>1, LogInvAlways, InitIsAbstract, PTL DEF Spec, ChatKeepsLog, Log!Spec

-----------------------------------------------------------------------------
(* Induction over an interval, and what a recursive function is, as facts      *)
(* about sets                                                               *)

LEMMA Least ==
    ASSUME NEW N \in Nat, NEW T \in SUBSET (0..N), T # {}
    PROVE  \E n \in T : \A m \in T : n <= m
<1> DEFINE below == {0..n : n \in T}
<1>1. below # {} /\ below \subseteq FiniteSubsetsOf(0..N)
  <2>1. ASSUME NEW n \in T
        PROVE  0..n \in FiniteSubsetsOf(0..N)
    BY FS_Interval DEF FiniteSubsetsOf
  <2> QED
    BY <2>1
<1>2. IsWellFoundedOn(StrictSubsetOrdering(0..N), FiniteSubsetsOf(0..N))
  BY FS_StrictSubsetOrderingWellFounded
<1>3. \E x \in below : \A y \in below : <<y, x>> \notin StrictSubsetOrdering(0..N)
  <2> HIDE DEF below
  <2> QED
    BY <1>1, <1>2, WFMin
<1>4. PICK n \in T : \A y \in below : <<y, 0..n>> \notin StrictSubsetOrdering(0..N)
  BY <1>3
<1>5. ASSUME NEW m \in T, m < n
      PROVE  FALSE
  <2>1. 0..m \in below /\ m \in Nat /\ n \in Nat /\ n <= N
    OBVIOUS
  <2>2. 0..m \subseteq 0..n /\ n \in 0..n /\ n \notin 0..m /\ 0..n \subseteq 0..N
    BY <1>5, <2>1
  <2>3. <<0..m, 0..n>> \in StrictSubsetOrdering(0..N)
    BY <2>2 DEF StrictSubsetOrdering
  <2> QED
    BY <1>4, <2>1, <2>3
<1> QED
  BY <1>5

LEMMA Induction ==
    ASSUME NEW N \in Nat, NEW S, 0 \in S, \A n \in 0..(N - 1) : n \in S => n + 1 \in S
    PROVE  \A n \in 0..N : n \in S
<1> DEFINE T == {n \in 0..N : n \notin S}
<1>1. CASE T = {}
  BY <1>1
<1>2. CASE T # {}
  <2>1. PICK n \in T : \A m \in T : n <= m
    BY <1>2, Least
  <2>2. n \in Nat /\ n # 0 /\ n - 1 \in 0..(N - 1) /\ n - 1 \in 0..N
    BY <2>1
  <2>3. n - 1 \notin T
    BY <2>1, <2>2
  <2> QED
    BY <2>1, <2>2, <2>3
<1> QED
  BY <1>1, <1>2

(* A value of D computed from the one before it, N times.                     *)
Steps(N, D) == [1..N -> [D -> D]]
Follows(f, N, D, base, step) ==
    f \in [0..N -> D] /\ f[0] = base /\ \A n \in 1..N : f[n] = step[n][f[n - 1]]

LEMMA RecursionExists ==
    ASSUME NEW N \in Nat, NEW D, NEW base \in D, NEW step \in Steps(N, D)
    PROVE  \E f : Follows(f, N, D, base, step)
<1> USE DEF Steps
<1> DEFINE S == {m \in 0..N : \E f \in [0..m -> D] :
                    f[0] = base /\ \A n \in 1..m : f[n] = step[n][f[n - 1]]}
<1>1. 0 \in S
  <2> DEFINE f == [n \in 0..0 |-> base]
  <2>1. f \in [0..0 -> D] /\ f[0] = base /\ \A n \in 1..0 : f[n] = step[n][f[n - 1]]
    OBVIOUS
  <2>2. 0 \in 0..N
    OBVIOUS
  <2> HIDE DEF f
  <2> QED
    BY <2>1, <2>2
<1>2. ASSUME NEW m \in 0..(N - 1), m \in S
      PROVE  m + 1 \in S
  <2>1. PICK f \in [0..m -> D] : f[0] = base /\ \A n \in 1..m : f[n] = step[n][f[n - 1]]
    BY <1>2
  <2>2. m \in Nat /\ m + 1 \in 1..N /\ m + 1 \in 0..N /\ m \in 0..m
    OBVIOUS
  <2>3. step[m + 1][f[m]] \in D
    BY <2>1, <2>2
  <2> DEFINE g == [n \in 0..(m + 1) |-> IF n = m + 1 THEN step[m + 1][f[m]] ELSE f[n]]
  <2>4. \A n \in 0..(m + 1) : n # m + 1 => n \in 0..m
    BY <2>2
  <2>5. g \in [0..(m + 1) -> D]
    BY <2>1, <2>3, <2>4
  <2>6. g[0] = base
    BY <2>1, <2>2
  <2>7. ASSUME NEW n \in 1..(m + 1)
        PROVE  g[n] = step[n][g[n - 1]]
    <3>1. n - 1 \in 0..m /\ g[n - 1] = f[n - 1]
      BY <2>2
    <3>2. CASE n = m + 1
      <4>1. n - 1 = m /\ n \in 0..(m + 1)
        BY <2>2, <3>2
      <4>2. g[n] = step[m + 1][f[m]]
        BY <3>2, <4>1
      <4> HIDE DEF g
      <4> QED
        BY <3>1, <3>2, <4>1, <4>2
    <3>3. CASE n # m + 1
      <4>1. n \in 1..m /\ n \in 0..(m + 1)
        BY <2>2, <3>3
      <4>2. g[n] = f[n] /\ f[n] = step[n][f[n - 1]]
        BY <2>1, <3>3, <4>1
      <4> HIDE DEF g
      <4> QED
        BY <3>1, <4>2
    <3> QED
      BY <3>2, <3>3
  <2> HIDE DEF g
  <2> QED
    BY <2>2, <2>5, <2>6, <2>7
<1> HIDE DEF S
<1>3. N \in S
  <2>1. \A n \in 0..N : n \in S
    BY <1>1, <1>2, Induction
  <2> QED
    BY <2>1
<1> QED
  BY <1>3 DEF S, Follows

(* Nothing else satisfies such equations.                                     *)
LEMMA RecursionStays ==
    ASSUME NEW N \in Nat, NEW D, NEW step \in Steps(N, D), NEW f, f[0] \in D,
           \A n \in 1..N : f[n - 1] \in D => f[n] = step[n][f[n - 1]]
    PROVE  \A n \in 0..N : f[n] \in D
<1> DEFINE S == {n \in 0..N : f[n] \in D}
<1>1. 0 \in S
  OBVIOUS
<1>2. ASSUME NEW n \in 0..(N - 1), n \in S
      PROVE  n + 1 \in S
  <2>1. n + 1 \in 1..N /\ n + 1 \in 0..N /\ (n + 1) - 1 = n
    OBVIOUS
  <2>2. f[n] \in D /\ f[n + 1] = step[n + 1][f[n]]
    BY <1>2, <2>1
  <2> QED
    BY <2>1, <2>2 DEF Steps
<1> HIDE DEF S
<1>3. \A n \in 0..N : n \in S
  BY <1>1, <1>2, Induction
<1> QED
  BY <1>3 DEF S

-----------------------------------------------------------------------------
(* The history a call sends                                                  *)

Reader == [kept : Seq(Message), budget : Nat, open : BOOLEAN]
Unread == [kept |-> <<>>, budget |-> MaxTokens, open |-> TRUE]

(* The n-th message from the end.                                             *)
FromEnd(all, n) == all[Len(all) - n + 1]

Costs(all) ==
    CHOOSE f : f = [n \in 0..Len(all) |-> IF n = 0 THEN 0 ELSE f[n - 1] + Tokens(all[Len(all) - n + 1])]
Candidates(all) == IF Len(all) <= MaxMessages THEN Len(all) ELSE MaxMessages
Readings(all) ==
    CHOOSE f : f = [n \in 0..Candidates(all) |->
                      IF n = 0 THEN [kept |-> <<>>, budget |-> MaxTokens, open |-> TRUE]
                      ELSE Taken(f[n - 1], all[Len(all) - n + 1])]

LEMMA TokensAre == \A m \in Message : Tokens(m) \in Nat
<1> SUFFICES ASSUME NEW m \in Message PROVE Tokens(m) \in Nat
  OBVIOUS
<1>1. PICK x \in Nat, y \in Nat : x = m.ascii /\ y = m.wide
  BY DEF Message
<1>2. (x + 4 * y + 3) \div 4 \in Nat
  OBVIOUS
<1> QED
  BY <1>1, <1>2 DEF Tokens

LEMMA FromEndIs ==
    ASSUME NEW all \in Seq(Message), NEW n \in 1..Len(all)
    PROVE  FromEnd(all, n) \in Message
<1>1. Len(all) - n + 1 \in 1..Len(all)
  OBVIOUS
<1> QED
  BY <1>1 DEF FromEnd

LEMMA CostsAre ==
    ASSUME NEW all \in Seq(Message)
    PROVE  /\ Costs(all)[0] = 0 /\ \A n \in 0..Len(all) : Costs(all)[n] \in Nat
           /\ \A n \in 1..Len(all) : Costs(all)[n] = Costs(all)[n - 1] + Tokens(FromEnd(all, n))
<1> DEFINE N == Len(all)
           Eq(f) == [n \in 0..Len(all) |-> IF n = 0 THEN 0 ELSE f[n - 1] + Tokens(all[Len(all) - n + 1])]
           step == [n \in 1..N |-> [b \in Nat |-> b + Tokens(FromEnd(all, n))]]
           f == Costs(all)
<1>1. N \in Nat /\ \A n \in 1..N : Tokens(FromEnd(all, n)) \in Nat
  BY FromEndIs, TokensAre
<1>2. step \in Steps(N, Nat)
  BY <1>1 DEF Steps
<1>3. \E g : g = Eq(g)
  <2> HIDE DEF N, step
  <2>1. 0 \in Nat /\ N \in Nat
    BY <1>1
  <2>2. PICK g : Follows(g, N, Nat, 0, step)
    BY <1>2, <2>1, RecursionExists
  <2>3. \A n \in 0..N : g[n] = IF n = 0 THEN 0 ELSE g[n - 1] + Tokens(FromEnd(all, n))
    <3>1. ASSUME NEW n \in 1..N
          PROVE  g[n] = g[n - 1] + Tokens(FromEnd(all, n))
      <4>1. n - 1 \in 0..N /\ g[n - 1] \in Nat
        BY <1>1, <2>2 DEF Follows
      <4> QED
        BY <2>2, <4>1 DEF step, Follows
    <3> QED
      BY <1>1, <2>2, <3>1 DEF Follows
  <2>4. g = Eq(g)
    BY <2>2, <2>3 DEF N, Follows, FromEnd
  <2> HIDE DEF Eq
  <2> QED
    BY <2>4
<1>4. f = CHOOSE g : g = Eq(g)
  BY DEF Costs
<1>5. f = Eq(f)
  <2> HIDE DEF Eq
  <2> QED
    BY <1>3, <1>4
<1> HIDE DEF f
<1>6. f[0] = 0 /\ \A n \in 1..N : f[n] = f[n - 1] + Tokens(FromEnd(all, n))
  <2>1. \A n \in 0..N : f[n] = IF n = 0 THEN 0 ELSE f[n - 1] + Tokens(FromEnd(all, n))
    BY <1>5 DEF FromEnd
  <2> QED
    BY <1>1, <2>1
<1>7. \A n \in 0..N : f[n] \in Nat
  <2>1. \A n \in 1..N : f[n - 1] \in Nat => f[n] = step[n][f[n - 1]]
    BY <1>6
  <2> HIDE DEF N, step
  <2>2. f[0] \in Nat
    BY <1>6
  <2> QED
    BY <1>1, <1>2, <2>1, <2>2, RecursionStays
<1> QED
  BY <1>6, <1>7 DEF f

LEMMA TakenIs ==
    ASSUME NEW acc \in Reader, NEW m \in Message
    PROVE  /\ Taken(acc, m) \in Reader
           /\ acc.open /\ Tokens(m) <= acc.budget =>
                 /\ Taken(acc, m).kept = <<m>> \o acc.kept
                 /\ Taken(acc, m).budget = acc.budget - Tokens(m) /\ Taken(acc, m).open = TRUE
           /\ ~(acc.open /\ Tokens(m) <= acc.budget) =>
                 /\ Taken(acc, m).kept = acc.kept /\ Taken(acc, m).budget = acc.budget
                 /\ Taken(acc, m).open = FALSE
<1>1. Tokens(m) \in Nat
  BY TokensAre
<1>2. CASE acc.open /\ Tokens(m) <= acc.budget
  <2>1. PICK kept, budget : kept = <<m>> \o acc.kept /\ budget = acc.budget - Tokens(m)
    OBVIOUS
  <2>2. kept \in Seq(Message)
    <3>1. acc.kept \in Seq(Message) /\ <<m>> \in Seq(Message)
      BY DEF Reader
    <3> QED
      BY <2>1, <3>1, ConcatProperties
  <2>3. budget \in Nat
    BY <1>1, <1>2, <2>1 DEF Reader
  <2>4. Taken(acc, m) = [acc EXCEPT !.kept = kept, !.budget = budget]
    BY <1>2, <2>1 DEF Taken
  <2>5. /\ [acc EXCEPT !.kept = kept, !.budget = budget] \in Reader
        /\ [acc EXCEPT !.kept = kept, !.budget = budget].kept = kept
        /\ [acc EXCEPT !.kept = kept, !.budget = budget].budget = budget
        /\ [acc EXCEPT !.kept = kept, !.budget = budget].open = acc.open
    BY <2>2, <2>3 DEF Reader
  <2>6. acc.open = TRUE
    BY <1>2 DEF Reader
  <2> QED
    BY <1>2, <2>1, <2>4, <2>5, <2>6
<1>3. CASE ~(acc.open /\ Tokens(m) <= acc.budget)
  <2>1. Taken(acc, m) = [acc EXCEPT !.open = FALSE]
    BY <1>3 DEF Taken
  <2> QED
    BY <1>3, <2>1 DEF Reader
<1> QED
  BY <1>2, <1>3


LEMMA ReadingsAre ==
    ASSUME NEW all \in Seq(Message)
    PROVE  /\ Candidates(all) \in 0..Len(all)
           /\ Truncated(all) = Readings(all)[Candidates(all)].kept
           /\ Readings(all)[0] = Unread /\ \A n \in 0..Candidates(all) : Readings(all)[n] \in Reader
           /\ \A n \in 1..Candidates(all) : Readings(all)[n] = Taken(Readings(all)[n - 1], FromEnd(all, n))
<1> DEFINE N == Candidates(all)
           Eq(f) == [n \in 0..Candidates(all) |->
                       IF n = 0 THEN [kept |-> <<>>, budget |-> MaxTokens, open |-> TRUE]
                       ELSE Taken(f[n - 1], all[Len(all) - n + 1])]
           step == [n \in 1..N |-> [acc \in Reader |-> Taken(acc, FromEnd(all, n))]]
           f == Readings(all)
<1>1. N \in Nat /\ N \in 0..Len(all) /\ Unread \in Reader
  <2>1. MaxMessages \in Nat /\ MaxTokens \in Nat
    BY ChatHistoryAssumption
  <2>2. N \in Nat /\ N \in 0..Len(all)
    BY <2>1 DEF Candidates
  <2>3. <<>> \in Seq(Message)
    OBVIOUS
  <2> QED
    BY <2>1, <2>2, <2>3 DEF Unread, Reader
<1>2. step \in Steps(N, Reader)
  <2>1. \A n \in 1..N : FromEnd(all, n) \in Message
    BY <1>1, FromEndIs
  <2> QED
    BY <2>1, TakenIs DEF Steps
<1>3. \E g : g = Eq(g)
  <2> HIDE DEF N, step
  <2>1. PICK g : Follows(g, N, Reader, Unread, step)
    BY <1>1, <1>2, RecursionExists
  <2>2. \A n \in 0..N : g[n] = IF n = 0 THEN Unread ELSE Taken(g[n - 1], FromEnd(all, n))
    <3>1. ASSUME NEW n \in 1..N
          PROVE  g[n] = Taken(g[n - 1], FromEnd(all, n))
      <4>1. n - 1 \in 0..N /\ g[n - 1] \in Reader
        BY <1>1, <2>1 DEF Follows
      <4> QED
        BY <2>1, <4>1 DEF step, Follows
    <3> QED
      BY <1>1, <2>1, <3>1 DEF Follows
  <2>3. g = [n \in 0..N |-> g[n]]
    BY <2>1 DEF Follows
  <2>4. g = [n \in 0..N |-> IF n = 0 THEN Unread ELSE Taken(g[n - 1], FromEnd(all, n))]
    BY <2>2, <2>3
  <2>5. g = Eq(g)
    BY <2>4 DEF N, FromEnd, Unread
  <2> HIDE DEF Eq
  <2> QED
    BY <2>5
<1>4. f = CHOOSE g : g = Eq(g)
  BY DEF Readings
<1>5. f = Eq(f)
  <2> HIDE DEF Eq
  <2> QED
    BY <1>3, <1>4
<1> HIDE DEF f
<1>6. f[0] = Unread /\ \A n \in 1..N : f[n] = Taken(f[n - 1], FromEnd(all, n))
  <2>1. \A n \in 0..N : f[n] = IF n = 0 THEN Unread ELSE Taken(f[n - 1], FromEnd(all, n))
    BY <1>5 DEF FromEnd, Unread
  <2> HIDE DEF N
  <2> QED
    BY <1>1, <2>1
<1>7. \A n \in 0..N : f[n] \in Reader
  <2>1. \A n \in 1..N : f[n - 1] \in Reader => f[n] = step[n][f[n - 1]]
    BY <1>6
  <2> HIDE DEF N, step
  <2>2. f[0] \in Reader
    BY <1>1, <1>6
  <2> QED
    BY <1>1, <1>2, <2>1, <2>2, RecursionStays
<1>8. Truncated(all) = f[N].kept
  BY DEF Truncated, Readings, Candidates, f
<1> HIDE DEF N
<1> QED
  BY <1>1, <1>6, <1>7, <1>8 DEF f, N

(* Where the reading stands after n messages: it has the newest of them, and if  *)
(* it has not all of them, the next one exceeds the budget.                     *)
Stands(acc, all, n, cost) ==
    LET have == Len(acc.kept)
    IN  /\ have \in 0..n /\ acc.kept = Newest(all, have) /\ acc.budget = MaxTokens - cost[have]
        /\ acc.open => have = n
        /\ ~acc.open => have < n /\ cost[have + 1] > MaxTokens

LEMMA NewestGrows ==
    ASSUME NEW all \in Seq(Message), NEW n \in 0..(Len(all) - 1)
    PROVE  /\ Newest(all, n) \in Seq(Message) /\ Len(Newest(all, n)) = n
           /\ <<FromEnd(all, n + 1)>> \o Newest(all, n) = Newest(all, n + 1)
           /\ Len(Newest(all, n + 1)) = n + 1
<1>1. PICK L \in Nat : L = Len(all)
  OBVIOUS
<1>2. \A k \in 0..L : /\ Newest(all, k) \in Seq(Message) /\ Len(Newest(all, k)) = k
                      /\ \A i \in 1..k : Newest(all, k)[i] = all[L - k + i]
  <2> SUFFICES ASSUME NEW k \in 0..L
               PROVE  /\ Newest(all, k) \in Seq(Message) /\ Len(Newest(all, k)) = k
                      /\ \A i \in 1..k : Newest(all, k)[i] = all[L - k + i]
    OBVIOUS
  <2>1. Newest(all, k) = [i \in 1..k |-> all[L - k + i]]
    <3>1. L - k + 1 \in Nat /\ L - (L - k + 1) + 1 = k /\ \A i \in 1..k : (L - k + 1) + i - 1 = L - k + i
      OBVIOUS
    <3> QED
      BY <1>1, <3>1 DEF Newest
  <2>2. \A i \in 1..k : all[L - k + i] \in Message
    BY <1>1
  <2>3. [i \in 1..k |-> all[L - k + i]] \in [1..k -> Message]
    BY <2>2
  <2>4. \A s \in [1..k -> Message] : s \in Seq(Message) /\ Len(s) = k
    OBVIOUS
  <2> QED
    BY <2>1, <2>3, <2>4
<1>3. PICK s, t, e : s = Newest(all, n) /\ t = Newest(all, n + 1) /\ e = FromEnd(all, n + 1)
  OBVIOUS
<1>4. n \in 0..L /\ n + 1 \in 0..L /\ n \in Nat
  BY <1>1
<1>5. /\ s \in Seq(Message) /\ Len(s) = n /\ \A i \in 1..n : s[i] = all[L - n + i]
      /\ t \in Seq(Message) /\ Len(t) = n + 1 /\ \A i \in 1..(n + 1) : t[i] = all[L - (n + 1) + i]
  BY <1>2, <1>3, <1>4
<1>6. e = all[L - n] /\ e \in Message
  <2>1. L - (n + 1) + 1 = L - n /\ L - n \in 1..L
    BY <1>1, <1>4
  <2> QED
    BY <1>1, <1>3, <2>1 DEF FromEnd
<1>7. <<e>> \o s = t
  <2>1. <<e>> \in Seq(Message) /\ Len(<<e>>) = 1 /\ <<e>>[1] = e
    BY <1>6
  <2>2. PICK u : u = <<e>> \o s
    OBVIOUS
  <2>3. /\ u \in Seq(Message) /\ Len(u) = n + 1
        /\ \A i \in 1..(n + 1) : u[i] = IF i <= 1 THEN <<e>>[i] ELSE s[i - 1]
    BY <1>5, <2>1, <2>2, ConcatProperties
  <2>4. ASSUME NEW i \in 1..(n + 1) PROVE u[i] = t[i]
    <3>1. CASE i = 1
      <4>1. L - (n + 1) + 1 = L - n
        BY <1>4
      <4> QED
        BY <1>4, <1>5, <1>6, <2>1, <2>3, <3>1, <4>1
    <3>2. CASE i # 1
      <4>1. i - 1 \in 1..n /\ L - n + (i - 1) = L - (n + 1) + i /\ ~(i <= 1)
        BY <1>4, <3>2
      <4>2. u[i] = s[i - 1] /\ s[i - 1] = all[L - n + (i - 1)] /\ t[i] = all[L - (n + 1) + i]
        BY <1>5, <2>3, <4>1
      <4> QED
        BY <4>1, <4>2
    <3> QED
      BY <3>1, <3>2
  <2>5. u = t
    BY <1>5, <2>3, <2>4, SeqEqual
  <2> QED
    BY <2>2, <2>5
<1> QED
  BY <1>3, <1>5, <1>7


LEMMA ReadingStands ==
    ASSUME NEW all \in Seq(Message), NEW n \in 0..Candidates(all)
    PROVE  Stands(Readings(all)[n], all, n, Costs(all))
<1>0. PICK N \in Nat, L \in Nat : N = Candidates(all) /\ L = Len(all) /\ N <= L
  BY ReadingsAre
<1>1. PICK f : f = Readings(all)
  OBVIOUS
<1>2. PICK cost : cost = Costs(all)
  OBVIOUS
<1>3. /\ f[0] = Unread /\ \A k \in 0..N : f[k] \in Reader
      /\ \A k \in 1..N : f[k] = Taken(f[k - 1], FromEnd(all, k))
  BY <1>0, <1>1, ReadingsAre
<1>4. /\ cost[0] = 0 /\ \A k \in 0..L : cost[k] \in Nat
      /\ \A k \in 1..L : cost[k] = cost[k - 1] + Tokens(FromEnd(all, k))
  BY <1>0, <1>2, CostsAre
<1>5. MaxTokens \in Nat
  BY ChatHistoryAssumption
<1> DEFINE S == {k \in 0..N : Stands(f[k], all, k, cost)}
<1>6. 0 \in S
  <2>1. Len(f[0].kept) = 0 /\ f[0].kept = <<>> /\ f[0].budget = MaxTokens /\ f[0].open = TRUE
    BY <1>3 DEF Unread
  <2>2. Newest(all, 0) = <<>>
    BY <1>0 DEF Newest
  <2> QED
    BY <1>0, <1>4, <1>5, <2>1, <2>2 DEF Stands
<1>7. ASSUME NEW k \in 0..(N - 1), k \in S
      PROVE  k + 1 \in S
  <2>1. PICK acc \in Reader, have \in Nat :
             /\ acc = f[k] /\ have = Len(acc.kept) /\ have <= k /\ acc.kept = Newest(all, have)
             /\ acc.budget = MaxTokens - cost[have]
             /\ acc.open => have = k
             /\ ~acc.open => have < k /\ cost[have + 1] > MaxTokens
    <3>1. f[k] \in Reader /\ Stands(f[k], all, k, cost) /\ k \in Nat
      BY <1>3, <1>7
    <3> QED
      BY <3>1 DEF Stands
  <2>2. /\ k \in Nat /\ k + 1 \in 1..N /\ k + 1 \in 0..N /\ k + 1 \in 1..L /\ (k + 1) - 1 = k
        /\ k \in 0..(Len(all) - 1)
    BY <1>0
  <2>3. PICK m \in Message : m = FromEnd(all, k + 1)
    BY <1>0, <2>2, FromEndIs
  <2>4. f[k + 1] = Taken(acc, m)
    BY <1>3, <2>1, <2>2, <2>3
  <2>5. Tokens(m) \in Nat /\ cost[k + 1] = cost[k] + Tokens(m) /\ cost[k] \in Nat /\ cost[have] \in Nat
    <3>1. Tokens(m) \in Nat
      BY TokensAre
    <3>2. cost[k + 1] = cost[k] + Tokens(m)
      BY <1>4, <2>2, <2>3
    <3>3. k \in 0..L /\ have \in 0..L
      BY <1>0, <2>1, <2>2
    <3> QED
      BY <1>4, <3>1, <3>2, <3>3
  <2>6. PICK later : later = f[k + 1]
    OBVIOUS
  <2>7. CASE acc.open /\ Tokens(m) <= acc.budget
    <3>1. /\ later.kept = <<m>> \o acc.kept /\ later.budget = acc.budget - Tokens(m)
          /\ later.open = TRUE /\ have = k
      <4>1. /\ Taken(acc, m).kept = <<m>> \o acc.kept
            /\ Taken(acc, m).budget = acc.budget - Tokens(m) /\ Taken(acc, m).open = TRUE
        BY <2>7, TakenIs
      <4>2. later = Taken(acc, m) /\ have = k
        BY <2>1, <2>4, <2>6, <2>7
      <4> QED
        BY <4>1, <4>2
    <3>2. later.kept = Newest(all, k + 1) /\ Len(later.kept) = k + 1
      BY <2>1, <2>2, <2>3, <3>1, NewestGrows
    <3>3. later.budget = MaxTokens - cost[k + 1]
      BY <1>5, <2>1, <2>5, <3>1
    <3>4. Stands(later, all, k + 1, cost)
      BY <2>2, <3>1, <3>2, <3>3 DEF Stands
    <3> QED
      BY <2>2, <2>6, <3>4
  <2>8. CASE ~(acc.open /\ Tokens(m) <= acc.budget)
    <3>1. later.kept = acc.kept /\ later.budget = acc.budget /\ later.open = FALSE
      <4>1. /\ Taken(acc, m).kept = acc.kept /\ Taken(acc, m).budget = acc.budget
            /\ Taken(acc, m).open = FALSE
        BY <2>8, TakenIs
      <4>2. later = Taken(acc, m)
        BY <2>4, <2>6
      <4> QED
        BY <4>1, <4>2
    <3>2. cost[have + 1] > MaxTokens
      <4>1. CASE acc.open
        <5>1. have = k /\ acc.budget = MaxTokens - cost[k] /\ ~(Tokens(m) <= acc.budget)
          BY <2>1, <2>8, <4>1
        <5> QED
          BY <1>5, <2>5, <5>1
      <4>2. CASE ~acc.open
        BY <2>1, <4>2
      <4> QED
        BY <4>1, <4>2
    <3>3. have \in 0..(k + 1) /\ have < k + 1
      BY <2>1, <2>2
    <3>4. Stands(later, all, k + 1, cost)
      BY <2>1, <3>1, <3>2, <3>3 DEF Stands
    <3> QED
      BY <2>2, <2>6, <3>4
  <2> QED
    BY <2>7, <2>8
<1> HIDE DEF S
<1>8. \A k \in 0..N : k \in S
  BY <1>6, <1>7, Induction
<1> QED
  BY <1>0, <1>1, <1>2, <1>8 DEF S

LEMMA CostsRise ==
    ASSUME NEW all \in Seq(Message), NEW n \in 0..Len(all)
    PROVE  \A k \in n..Len(all) : Costs(all)[n] <= Costs(all)[k]
<1>1. PICK L, cost : L \in Nat /\ L = Len(all) /\ cost = Costs(all)
  OBVIOUS
<1>2. /\ \A k \in 0..L : cost[k] \in Nat
      /\ \A k \in 1..L : cost[k] = cost[k - 1] + Tokens(FromEnd(all, k)) /\ Tokens(FromEnd(all, k)) \in Nat
  BY <1>1, CostsAre, FromEndIs, TokensAre
<1> DEFINE S == {k \in 0..L : n <= k => cost[n] <= cost[k]}
<1>3. 0 \in S
  BY <1>1, <1>2
<1>4. ASSUME NEW k \in 0..(L - 1), k \in S
      PROVE  k + 1 \in S
  <2>1. k + 1 \in 1..L /\ k + 1 \in 0..L /\ k \in 0..L /\ (k + 1) - 1 = k /\ n \in 0..L
    BY <1>1
  <2>2. cost[k + 1] >= cost[k] /\ cost[k] \in Nat /\ cost[k + 1] \in Nat /\ cost[n] \in Nat
    BY <1>2, <2>1
  <2>3. CASE n = k + 1
    BY <2>1, <2>2, <2>3
  <2>4. CASE n # k + 1
    BY <1>4, <2>1, <2>2, <2>4
  <2> QED
    BY <2>3, <2>4
<1> HIDE DEF S
<1>5. \A k \in 0..L : k \in S
  BY <1>1, <1>3, <1>4, Induction
<1> QED
  BY <1>1, <1>5 DEF S

(* The longest run of newest messages within both limits.                      *)
LEMMA HistoryIs ==
    ASSUME NEW all \in Seq(Message)
    PROVE  LET sent == Truncated(all)
           IN  /\ sent = Newest(all, Len(sent))
               /\ Len(sent) <= MaxMessages /\ Costs(all)[Len(sent)] <= MaxTokens
               /\ \A n \in (Len(sent) + 1)..Len(all) : n > MaxMessages \/ Costs(all)[n] > MaxTokens
<1>1. PICK N, L, cost : /\ N \in Nat /\ N = Candidates(all) /\ L \in Nat /\ L = Len(all) /\ N <= L
                      /\ cost = Costs(all)
  BY ReadingsAre
<1>2. PICK acc \in Reader : acc = Readings(all)[N] /\ Truncated(all) = acc.kept
  BY <1>1, ReadingsAre
<1>3. Stands(acc, all, N, cost)
  BY <1>1, <1>2, ReadingStands
<1>4. PICK have \in Nat :
          /\ have = Len(acc.kept) /\ have <= N /\ acc.kept = Newest(all, have)
          /\ acc.budget = MaxTokens - cost[have] /\ acc.budget \in Nat
          /\ acc.open => have = N
          /\ ~acc.open => have < N /\ cost[have + 1] > MaxTokens
  BY <1>1, <1>3 DEF Stands, Reader
<1>5. MaxMessages \in Nat /\ MaxTokens \in Nat
  BY ChatHistoryAssumption
<1>6. N = (IF L <= MaxMessages THEN L ELSE MaxMessages)
  BY <1>1 DEF Candidates
<1>7. \A k \in 0..L : cost[k] \in Nat
  BY <1>1, CostsAre
<1>8. have <= MaxMessages /\ cost[have] <= MaxTokens
  <2>1. have \in 0..L /\ cost[have] \in Nat
    BY <1>1, <1>4, <1>7
  <2>2. have <= MaxMessages
    BY <1>1, <1>4, <1>5, <1>6
  <2>3. PICK x \in Nat, b \in Nat : x = cost[have] /\ b = acc.budget
    BY <1>4, <2>1
  <2>4. b = MaxTokens - x
    BY <1>4, <2>3
  <2>5. x <= MaxTokens
    BY <1>5, <2>4
  <2> QED
    BY <2>2, <2>3, <2>5
<1>9. ASSUME NEW n \in (have + 1)..L
      PROVE  n > MaxMessages \/ cost[n] > MaxTokens
  <2>1. CASE acc.open
    BY <1>1, <1>4, <1>5, <1>6, <2>1
  <2>2. CASE ~acc.open
    <3>1. have + 1 \in 0..L /\ n \in (have + 1)..L /\ n \in 0..L
      BY <1>1, <1>4, <2>2
    <3>2. cost[have + 1] <= cost[n]
      BY <1>1, <3>1, CostsRise
    <3> QED
      BY <1>4, <1>5, <1>7, <2>2, <3>1, <3>2
  <2> QED
    BY <2>1, <2>2
<1> QED
  BY <1>1, <1>2, <1>4, <1>8, <1>9

LEMMA MessagesAre ==
    ASSUME NEW x \in Session
    PROVE  Messages(x) \in Seq(Message)
<1>1. PICK L \in Nat : L = Len(x.turns) /\ \A k \in 1..L : x.turns[k] \in Turns
  BY DEF Session
<1>2. \A k \in 1..(2 * L) : (k + 1) \div 2 \in 1..L
  BY <1>1
<1>3. TurnMessages(x) = [k \in 1..(2 * L) |->
                           MessageOf(x.turns[(k + 1) \div 2],
                                     IF k % 2 = 1 THEN "user" ELSE "assistant")]
  BY <1>1 DEF TurnMessages
<1>4. TurnMessages(x) \in [1..(2 * L) -> Message]
  <2>1. \A n \in Turns, role \in Roles : MessageOf(n, role) \in Message
    BY ChatHistoryAssumption DEF MessageOf, Message
  <2> QED
    BY <1>1, <1>2, <1>3, <2>1 DEF Roles
<1>5. PICK N \in Nat : N = 2 * L
  BY <1>1
<1>6. \A s \in [1..N -> Message] : s \in Seq(Message)
  OBVIOUS
<1>7. TurnMessages(x) \in Seq(Message) /\ Brought[x.brought] \in Seq(Message)
  BY <1>4, <1>5, <1>6, ChatHistoryAssumption DEF Session
<1> QED
  BY <1>7 DEF Messages

LEMMA HistoryIsSound == TypeInv => HistoryIsNewest
<1> SUFFICES ASSUME TypeInv, NEW c \in Calls, call[c].pc = "generating"
             PROVE  LET all == Messages(call[c].copy)
                        sent == Truncated(all)
                        cost == Costs(all)
                    IN  /\ sent = Newest(all, Len(sent))
                        /\ Len(sent) <= MaxMessages /\ cost[Len(sent)] <= MaxTokens
                        /\ \A n \in (Len(sent) + 1)..Len(all) : n > MaxMessages \/ cost[n] > MaxTokens
  BY DEF HistoryIsNewest, Costs
<1>1. call[c].copy \in Session
  BY DEF TypeInv, TypeOK, CallType, Idle
<1>2. Messages(call[c].copy) \in Seq(Message)
  BY <1>1, MessagesAre
<1>3. PICK all \in Seq(Message) : all = Messages(call[c].copy)
  BY <1>2
<1> QED
  BY <1>3, HistoryIs

(* What a call sends of its session is the longest run of newest messages that  *)
(* both limits allow, for sessions of any length, messages of any size and any   *)
(* limits.                                                                   *)
THEOREM HistoryStaysNewest == Spec => []HistoryIsNewest
BY TypeAlways, HistoryIsSound, PTL

=============================================================================
