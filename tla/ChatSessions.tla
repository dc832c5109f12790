--------------------------- MODULE ChatSessions ---------------------------
(***************************************************************************)
(* Chat sessions (umms-api, handlers/chat.rs, handlers/sessions.rs and      *)
(* session/store.rs).                                                       *)
(*                                                                          *)
(* A chat call reads the whole session, generates an answer (retrieval and  *)
(* a model call: long), appends the turn to its copy, spawns a task that    *)
(* writes the whole copy back with INSERT OR REPLACE, and answers without   *)
(* waiting for that task.  Calls on one session may overlap, a rename or a  *)
(* deletion may fall between the read and the write, and a spawned write    *)
(* may fail or be lost with the process.                                    *)
(***************************************************************************)
EXTENDS Naturals, FiniteSets, Sequences

CONSTANTS
    Sessions,   \* session ids
    Calls,      \* concurrent chat requests
    Titles,     \* titles a user may give
    AutoTitle,  \* the title a session is born with
    Histories,  \* what a client may bring to a new session, NoHistory among them
    NoHistory,  \* nothing
    NoSession,  \* "no row with this id", "no session"
    NoTitle,    \* history: "no title that has to stay"
    Overlap,    \* may requests on a session overlap?
    Faults,     \* which of "model", "store", "crash" and "preview" happen
    MaxTurns    \* bound: turns ever answered

Turns == 1..MaxTurns

(* A ChatSession: the messages a client brought, then pairs of a user's and   *)
(* the assistant's.                                                         *)
Session == [title : Titles \cup {AutoTitle}, brought : Histories, turns : Seq(Turns)]

ASSUME ChatSessionsAssumption ==
    /\ AutoTitle \notin Titles
    /\ NoTitle \notin Titles \cup {AutoTitle}
    /\ NoHistory \in Histories
    /\ NoSession \notin Sessions \cup Session
    /\ Overlap \in BOOLEAN
    /\ Faults \subseteq {"model", "store", "crash", "preview"}
    /\ MaxTurns \in Nat

VARIABLES
    rows,       \* rows[s]: the stored session
    call,       \* call[c]: the chat request c is working on
    saves,      \* spawned writes that have not run yet
    turns,      \* turns answered so far; a turn is its number
    known,      \* ids clients have been told
    contested,  \* history: turns whose call or write overlapped another request
    landed,     \* history: uncontested turns of s written since it was deleted last
    named,      \* history: the title given to s when nothing overlapped
    gone        \* history: sessions deleted when nothing overlapped

history == <<contested, landed, named, gone>>
vars == <<rows, call, saves, turns, known, history>>

Idle == [pc |-> "idle", sid |-> NoSession, copy |-> NoSession, contested |-> FALSE]

CallType == [pc : {"generating"}, sid : Sessions, copy : Session, contested : BOOLEAN]

(* Every variable has its type, and a running call has its session.         *)
TypeOK ==
    /\ rows \in [Sessions -> Session \cup {NoSession}]
    /\ call \in [Calls -> {Idle} \cup CallType]
    /\ saves \subseteq [sid : Sessions, copy : Session]
    /\ turns \in 0..MaxTurns
    /\ known \subseteq Sessions /\ gone \subseteq Sessions
    /\ contested \subseteq Turns
    /\ landed \in [Sessions -> SUBSET Turns]
    /\ named \in [Sessions -> Titles \cup {AutoTitle, NoTitle}]

Init ==
    /\ rows = [s \in Sessions |-> NoSession]
    /\ call = [c \in Calls |-> Idle]
    /\ saves = {} /\ turns = 0 /\ known = {}
    /\ contested = {} /\ gone = {}
    /\ landed = [s \in Sessions |-> {}]
    /\ named = [s \in Sessions |-> NoTitle]

-----------------------------------------------------------------------------

Generating(s) == {c \in Calls : call[c].pc = "generating" /\ call[c].sid = s}
Unsaved(s) == {w \in saves : w.sid = s}
Busy(s) == Generating(s) # {} \/ Unsaved(s) # {}

(* A client that does not overlap its requests waits until s is at rest.    *)
MayUse(s) == Overlap \/ ~Busy(s)

NewestTurn(copy) == copy.turns[Len(copy.turns)]

(* A uuid nobody has used.                                                  *)
Fresh(s) == s \notin known /\ ~Busy(s) /\ rows[s] = NoSession /\ s \notin gone

-----------------------------------------------------------------------------
(* POST /api/chat *)

(* A call without a session id starts a session of its own, in memory, with   *)
(* the history it brings, which other calls are not asked for.              *)
BeginNew(c, s) ==
    /\ call[c].pc = "idle" /\ Fresh(s)
    /\ \E h \in Histories :
          call' = [call EXCEPT ![c] =
              [pc |-> "generating", sid |-> s, contested |-> FALSE,
               copy |-> [title |-> AutoTitle, brought |-> h, turns |-> <<>>]]]
    /\ UNCHANGED <<rows, saves, turns, known, history>>

(* Mutant: a missing row is not noticed.                                    *)
BeginNextUnchecked(c, s) ==
    /\ call[c].pc = "idle" /\ s \in known /\ MayUse(s)
    /\ call' = [d \in Calls |->
                  IF d = c THEN [pc |-> "generating", sid |-> s, copy |-> rows[s],
                                 contested |-> Busy(s)]
                  ELSE IF d \in Generating(s) THEN [call[d] EXCEPT !.contested = TRUE]
                  ELSE call[d]]
    /\ contested' = contested \cup {NewestTurn(w.copy) : w \in Unsaved(s)}
    /\ UNCHANGED <<rows, saves, turns, known, landed, named, gone>>

(* A call with a session id reads the session; without a row it fails.      *)
BeginNext(c, s) ==
    /\ call[c].pc = "idle" /\ MayUse(s) /\ rows[s] # NoSession
    /\ call' = [d \in Calls |->
                  IF d = c THEN [pc |-> "generating", sid |-> s, copy |-> rows[s],
                                 contested |-> Busy(s)]
                  ELSE IF d \in Generating(s) THEN [call[d] EXCEPT !.contested = TRUE]
                  ELSE call[d]]
    /\ contested' = contested \cup {NewestTurn(w.copy) : w \in Unsaved(s)}
    /\ UNCHANGED <<rows, saves, turns, known, landed, named, gone>>

(* Retrieval, the prompt or the model fails: nothing is stored.             *)
CallFails(c) ==
    /\ "model" \in Faults
    /\ call[c].pc = "generating"
    /\ call' = [call EXCEPT ![c] = Idle]
    /\ UNCHANGED <<rows, saves, turns, known, history>>

(* Mutants: the earlier turns are dropped; the new turn is put first; the   *)
(* title is made up again.                                                  *)
WithTurnOnly(copy) == [copy EXCEPT !.turns = <<turns + 1>>]
WithTurnFirst(copy) == [copy EXCEPT !.turns = <<turns + 1>> \o @]
WithAutoTitle(copy) == [copy EXCEPT !.turns = Append(@, turns + 1), !.title = AutoTitle]

WithTurn(copy) == [copy EXCEPT !.turns = Append(@, turns + 1)]

(* The turn is appended to the copy and the write of the copy spawned.      *)
SpawnSave(c) ==
    /\ call[c].pc = "generating" /\ turns < MaxTurns
    /\ turns' = turns + 1
    /\ saves' = saves \cup {[sid |-> call[c].sid, copy |-> WithTurn(call[c].copy)]}
    /\ contested' = IF call[c].contested THEN contested \cup {turns + 1} ELSE contested
    /\ call' = [call EXCEPT ![c] = Idle]
    /\ UNCHANGED <<rows, landed, named, gone>>

Respond(c) ==
    /\ SpawnSave(c)
    /\ known' = known \cup {call[c].sid}

(* The audit preview cuts the message at byte 100; inside a character that  *)
(* panics, after the write was spawned: the client gets no answer.          *)
PreviewPanics(c) ==
    /\ "preview" \in Faults
    /\ SpawnSave(c)
    /\ UNCHANGED known

(* save_session(): the whole row is replaced, or written again.             *)
Save(w) ==
    /\ w \in saves
    /\ rows' = [rows EXCEPT ![w.sid] = w.copy]
    /\ saves' = saves \ {w}
    /\ landed' = IF NewestTurn(w.copy) \in contested THEN landed
                 ELSE [landed EXCEPT ![w.sid] = @ \cup {NewestTurn(w.copy)}]
    /\ UNCHANGED <<call, turns, known, contested, named, gone>>

SaveFails(w) ==
    /\ "store" \in Faults
    /\ w \in saves
    /\ saves' = saves \ {w}
    /\ UNCHANGED <<rows, call, turns, known, history>>

-----------------------------------------------------------------------------
(* /api/sessions *)

Create(s, t) ==
    /\ Fresh(s)
    /\ rows' = [rows EXCEPT ![s] = [title |-> t, brought |-> NoHistory, turns |-> <<>>]]
    /\ known' = known \cup {s}
    /\ named' = [named EXCEPT ![s] = t]
    /\ UNCHANGED <<call, saves, turns, contested, landed, gone>>

(* Mutant: the rename inserts a missing row.                                *)
RenameUpserts(s, t) ==
    /\ s \in known /\ MayUse(s)
    /\ rows' = [rows EXCEPT ![s] = IF @ = NoSession
                                   THEN [title |-> t, brought |-> NoHistory, turns |-> <<>>]
                                   ELSE [@ EXCEPT !.title = t]]
    /\ named' = [named EXCEPT ![s] = IF Busy(s) THEN NoTitle ELSE t]
    /\ UNCHANGED <<call, saves, turns, known, contested, landed, gone>>

Rename(s, t) ==
    /\ MayUse(s) /\ rows[s] # NoSession
    /\ rows' = [rows EXCEPT ![s].title = t]
    /\ named' = [named EXCEPT ![s] = IF Busy(s) THEN NoTitle ELSE t]
    /\ UNCHANGED <<call, saves, turns, known, contested, landed, gone>>

Delete(s) ==
    /\ s \in known \/ rows[s] # NoSession
    /\ MayUse(s)
    /\ known' = known \cup {s}
    /\ rows' = [rows EXCEPT ![s] = NoSession]
    /\ landed' = [landed EXCEPT ![s] = {}]
    /\ gone' = IF Busy(s) THEN gone ELSE gone \cup {s}
    /\ UNCHANGED <<call, saves, turns, contested, named>>

(* The process dies with its calls and its spawned writes.                  *)
Crash ==
    /\ "crash" \in Faults
    /\ call' = [c \in Calls |-> Idle]
    /\ saves' = {}
    /\ UNCHANGED <<rows, turns, known, history>>

Next ==
    \/ \E c \in Calls, s \in Sessions : BeginNew(c, s) \/ BeginNext(c, s)
    \/ \E c \in Calls : CallFails(c) \/ Respond(c) \/ PreviewPanics(c)
    \/ \E w \in saves : Save(w) \/ SaveFails(w)
    \/ \E s \in Sessions, t \in Titles : Create(s, t) \/ Rename(s, t)
    \/ \E s \in Sessions : Delete(s)
    \/ Crash

Spec == Init /\ [][Next]_vars

-----------------------------------------------------------------------------
(* Properties *)

(* A client that lets each request, and its spawned write, finish before    *)
(* the next request on the session sees the abstract log: the write of the  *)
(* whole row then is the append of one turn.                                *)
Log == INSTANCE ChatLog WITH
    Titles <- Titles \cup {AutoTitle}, Turns <- Turns,
    log <- [s \in Sessions |->
              IF Unsaved(s) # {} THEN (CHOOSE w \in Unsaved(s) : TRUE).copy ELSE rows[s]],
    disk <- rows

ChatKeepsLog == Log!Spec

(* However requests overlap, a turn whose call and write met no other       *)
(* request on its session is in the session from its write on.              *)
UncontestedTurnsKept ==
    \A s \in Sessions : \A n \in landed[s] :
        rows[s] # NoSession /\ \E k \in DOMAIN rows[s].turns : rows[s].turns[k] = n

(* Stored turns are in the order they were answered in, none twice, none in *)
(* two sessions: overlapped writes lose turns but never reorder or mix them. *)
StoredInOrder ==
    \A s \in Sessions : rows[s] # NoSession =>
        /\ \A j, k \in DOMAIN rows[s].turns : j < k => rows[s].turns[j] < rows[s].turns[k]
        /\ \A r \in Sessions \ {s} : rows[r] # NoSession =>
              \A j \in DOMAIN rows[s].turns, k \in DOMAIN rows[r].turns :
                 rows[s].turns[j] # rows[r].turns[k]

(* A rename and a deletion that overlap nothing hold: no write spawned      *)
(* earlier, no call that read the session earlier, undoes them.             *)
QuietRenamesHold ==
    \A s \in Sessions : rows[s] # NoSession /\ named[s] # NoTitle => rows[s].title = named[s]

QuietDeletionsHold == \A s \in gone : rows[s] = NoSession

=============================================================================
