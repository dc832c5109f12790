----------------------------- MODULE AgentChat -----------------------------
(***************************************************************************)
(* A chat turn (handlers/chat.rs) across what it reads and leaves behind: the  *)
(* persona, the diary and the prompt configuration of its agent, the prompt    *)
(* PromptEngine builds of them, the model's answer, the audit log, and the     *)
(* diary entries a background task makes of the turn (diary_generator.rs).     *)
(* Profiles are edited, texts embedded and diaries corrected meanwhile.         *)
(* Sessions are ChatSessions', what is retrieved is Retrieval's.  Of a diary     *)
(* only its length is kept: nothing compares the texts of its entries.           *)
(***************************************************************************)
EXTENDS AgentProfiles, ModelPool

CONSTANTS
    Mentions,       \* the variables a content names
    Bare,           \* contents that are nothing but variables
    DiaryLimit,     \* ChatConfig::diary_entries_in_prompt
    MaxAudit,       \* capacity of the audit log
    MaxTexts,       \* bound: texts of one batch
    MaxNotes,       \* bound: diary entries a model answers with
    Encoder,        \* the label of the encoder's events
    Earlier,        \* labels of the events other handlers have recorded at the start
    Modes,          \* does a request start only when nothing else is running?
    MaxRequests,    \* bound: requests and restarts
    Faults          \* which of "persona", "diary", "prompt", "cut", "preview", "cancel", "crash" happen

Variables == {"system_prompt", "memory_content", "diary_content", "history_content",
              "user_message"}

ASSUME AgentChatAssumption ==
    /\ Editors = Callers
    /\ Mentions \in [Contents -> SUBSET Variables] /\ Bare \subseteq Contents
    /\ {DiaryLimit, MaxTexts, MaxNotes, MaxRequests} \subseteq Nat /\ MaxAudit \in Nat \ {0}
    /\ ~Unrouted("chat")     \* a server without a chat model answers no turn
    /\ Modes \subseteq BOOLEAN /\ Encoder \notin Agents
    /\ Earlier \in Seq(Agents \cup {Encoder}) /\ Len(Earlier) <= MaxAudit

VARIABLES
    turn,       \* the turn, or the embedding, each request is making
    diary,      \* diary_entries: how many each agent has
    nextId, log,    \* AuditLog: events, [id, label], the oldest first
    alone, started

chatVars == <<turn, diary, nextId, log>>
vars == <<profileVars, poolVars, chatVars, alone, started>>

Tasks == Callers
Labels == Agents \cup {Encoder}

(* `filled' are the variables that have a value, `using' is the configuration its  *)
(* prompt was built from, `notes' how many entries are to be written.            *)
Idle == [pc |-> "idle"]
Turn(a, phase) ==
    [pc |-> phase, agent |-> a, filled |-> {}, using |-> NoRow, prompt |-> <<>>, ticket |-> 0,
     notes |-> 0]
Encoding(phase, ticket) == [pc |-> phase, ticket |-> ticket]

TurnPhases == {"diary", "build", "model", "audit", "push", "observe", "note"}

TypeOK ==
    /\ ProfilesTypeOK /\ PoolTypeOK
    /\ \A t \in Tasks :
          \/ turn[t] = Idle \/ turn[t] \in [pc : {"encode", "encoded", "push"}, ticket : Nat]
          \/ /\ turn[t].pc \in TurnPhases /\ turn[t].agent \in Agents
             /\ turn[t].filled \subseteq Variables
             /\ turn[t].notes \in Nat /\ turn[t].ticket < nextId
    /\ diary \in [Agents -> Nat] /\ alone \in BOOLEAN /\ started \in Nat
    /\ nextId \in Nat \ {0} /\ log \in Seq([id : 1..(nextId - 1), label : Labels]) /\ Len(log) <= MaxAudit
    /\ \A t \in Tasks : call[t] # NoCall => turn[t].pc \in {"model", "observe", "encode"}

Init ==
    /\ ProfilesInit /\ PoolInit
    /\ turn = [t \in Tasks |-> Idle]
    /\ diary = [a \in Agents |-> 0]
    /\ nextId = Len(Earlier) + 1
    /\ log = [k \in DOMAIN Earlier |-> [id |-> k, label |-> Earlier[k]]]
    /\ alone \in Modes /\ started = 0

Becomes(t, r) == turn' = [turn EXCEPT ![t] = r]
Goto(t, phase) == Becomes(t, [turn[t] EXCEPT !.pc = phase])
Free(t) == turn[t] = Idle /\ edit[t] = NoEdit

Starts(t) ==
    /\ Free(t) /\ started < MaxRequests
    /\ alone => \A u \in Tasks : Free(u)
    /\ started' = started + 1 /\ UNCHANGED alone
Within == UNCHANGED <<alone, started>>

-----------------------------------------------------------------------------
(* PromptEngine::build_prompt                                                *)

(* A mutant: the first variant is taken.                                      *)
ActiveFirst(b) == b.variants[1]

Active(b) == IF b.selected < Len(b.variants) THEN b.variants[b.selected + 1] ELSE b.content

Part(id, c, filled) == [id |-> id, content |-> c, shows |-> Mentions[c] \cap filled]
Whole(c, filled) == IF c = NoRow THEN <<>> ELSE <<Part(NoRow, c, filled)>>

Says(p) == p.content \notin Bare \/ p.shows # {}

(* sort_by_key(order), which is stable.                                       *)
InOrder(blocks, K) ==
    {p \in K \X K : \/ blocks[p[1]].order < blocks[p[2]].order
                    \/ blocks[p[1]].order = blocks[p[2]].order /\ p[1] < p[2]}

Modular(c, filled) ==
    LET PartOf(b) == Part(b.id, Active(b), filled)
        sent == {k \in DOMAIN c.blocks : c.blocks[k].enabled /\ Says(PartOf(c.blocks[k]))}
        order == Ranked(sent, InOrder(c.blocks, sent))
    IN  [n \in DOMAIN order |-> PartOf(c.blocks[order[n]])]

(* Without content, as with modular blocks all disabled, the prompt is empty.    *)
Built(c, filled) ==
    [original |-> Whole(c.original, filled), modular |-> Modular(c, filled),
     preset |-> Whole(c.preset, filled)][c.mode]

-----------------------------------------------------------------------------
(* POST /api/chat *)

(* Without a persona there is a sentence to stand for its prompt.               *)
StartTurn(t, a) ==
    /\ Starts(t)
    /\ LET p == personas[a]
       IN  Becomes(t, [Turn(a, "diary") EXCEPT !.filled = {"user_message"} \cup
              IF p # NoRow /\ p["system_prompt"] = Blank THEN {} ELSE {"system_prompt"}])
    /\ UNCHANGED <<profileVars, poolVars, diary, nextId, log>>

(* get_entries(): at most DiaryLimit of them.                                    *)
ReadDiary(t) ==
    /\ turn[t].pc = "diary"
    /\ \/ LET told == LeastOf(DiaryLimit, diary[turn[t].agent])
          IN  Becomes(t, [turn[t] EXCEPT !.pc = "build",
                            !.filled = @ \cup IF told = 0 THEN {} ELSE {"diary_content"}])
       \/ "diary" \in Faults /\ Goto(t, "build")
    /\ UNCHANGED <<profileVars, poolVars, diary, nextId, log>> /\ Within

(* What the retrieval gives, which may be nothing as for small talk or when the    *)
(* search fails, and what the session does.                                     *)
Recalled == SUBSET {"memory_content", "history_content"}

(* A configuration that cannot be read counts as none.                         *)
ConfigRead(a) == {configs[a]} \cup IF "prompt" \in Faults THEN {NoRow} ELSE {}

(* With no configuration the default template is rendered, which is left out.     *)
BuildPrompt(t) ==
    /\ turn[t].pc = "build"
    /\ StartCall(t, "chat", FALSE, 1)
    /\ \E r \in Recalled, c \in ConfigRead(turn[t].agent) :
          LET filled == turn[t].filled \cup r
          IN  Becomes(t, [turn[t] EXCEPT !.pc = "model", !.using = c, !.filled = filled,
                            !.prompt = IF c = NoRow THEN <<>> ELSE Built(c, filled)])
    /\ UNCHANGED <<profileVars, diary, nextId, log>> /\ Within

(* The limit of a section is a byte offset: inside a character the slice panics.  *)
CutPanics(t) ==
    /\ turn[t].pc = "build" /\ NoRow \in ConfigRead(turn[t].agent)
    /\ "cut" \in Faults
    /\ Becomes(t, Idle)
    /\ UNCHANGED <<profileVars, poolVars, diary, nextId, log>> /\ Within

(* The session is written, then the audit event made, whose preview of the         *)
(* message is cut at a byte offset too: a panic answers nothing, leaves no event     *)
(* and makes no diary.                                                        *)
ModelReturns(t) ==
    /\ turn[t].pc = "model"
    /\ \/ Return(t, TRUE) /\ Becomes(t, Turn(turn[t].agent, "audit"))
       \/ Return(t, TRUE) /\ "preview" \in Faults /\ Becomes(t, Idle)
       \/ Return(t, FALSE) /\ Becomes(t, Idle)
    /\ UNCHANGED <<profileVars, diary, nextId, log>> /\ Within

-----------------------------------------------------------------------------
(* AuditLog::record(): the id is fetched before the buffer is locked.             *)

TakeTicket(t) ==
    /\ turn[t].pc \in {"audit", "encoded"}
    /\ nextId' = nextId + 1
    /\ Becomes(t, [turn[t] EXCEPT !.pc = "push", !.ticket = nextId])
    /\ UNCHANGED <<profileVars, poolVars, diary, log>> /\ Within

(* A mutant: a full log keeps its oldest events.                               *)
PushedIfRoom(event) == IF Len(log) >= MaxAudit THEN log ELSE Append(log, event)

Pushed(event) == Append(IF Len(log) >= MaxAudit THEN Tail(log) ELSE log, event)

(* An event names its agent, or the encoder.                                   *)
LabelOf(t) == IF "agent" \in DOMAIN turn[t] THEN turn[t].agent ELSE Encoder

(* The request is answered; of a turn, the diary's task goes on.                 *)
PushEvent(t) ==
    /\ turn[t].pc = "push"
    /\ log' = Pushed([id |-> turn[t].ticket, label |-> LabelOf(t)])
    /\ LET observes == "agent" \in DOMAIN turn[t] /\ ~Unrouted("generation")
       IN  \/ observes /\ StartCall(t, "generation", FALSE, 1) /\ Goto(t, "observe")
           \/ ~observes /\ Becomes(t, Idle) /\ UNCHANGED poolVars
    /\ UNCHANGED <<profileVars, diary, nextId>> /\ Within

(* AuditLog::query(), newest first; a limit of 0 is none.                        *)
Queried(labels, offset, limit) ==
    LET found == {k \in DOMAIN log : log[k].label \in labels}
        newest == Ranked(found, Descending(found))
        last == IF limit = 0 THEN Cardinality(found) ELSE LeastOf(Cardinality(found), offset + limit)
    IN  [n \in 1..(last - offset) |-> log[newest[offset + n]]]

-----------------------------------------------------------------------------
(* DiaryGenerator::analyze_turn: the model is given the entries the turn read       *)
(* and asked for new ones.  Whatever it lists is taken, known or not; an answer       *)
(* that is no list of entries counts as an empty one.                             *)
Observe(t) ==
    /\ turn[t].pc = "observe"
    /\ \/ /\ Return(t, TRUE)
          /\ \E n \in 0..MaxNotes : Becomes(t, [turn[t] EXCEPT !.pc = "note", !.notes = n])
       \/ Return(t, FALSE) /\ Becomes(t, Idle)
    /\ UNCHANGED <<profileVars, diary, nextId, log>> /\ Within

Insert(a) == diary' = [diary EXCEPT ![a] = @ + 1]

AddNote(t) ==
    /\ turn[t].pc = "note"
    /\ \/ /\ turn[t].notes > 0
          /\ Insert(turn[t].agent) \/ ("diary" \in Faults /\ UNCHANGED diary)
          /\ Becomes(t, [turn[t] EXCEPT !.notes = @ - 1])
       \/ turn[t].notes = 0 /\ Becomes(t, Idle) /\ UNCHANGED diary
    /\ UNCHANGED <<profileVars, poolVars, nextId, log>> /\ Within

(* handlers/diary.rs: one statement each, on any agent's entry; an update leaves    *)
(* as many.                                                                    *)
EditDiary(t) ==
    /\ Starts(t)
    /\ \E a \in Agents : Insert(a) \/ (diary[a] > 0 /\ diary' = [diary EXCEPT ![a] = @ - 1])
    /\ UNCHANGED <<profileVars, poolVars, turn, nextId, log>>

-----------------------------------------------------------------------------
(* Embedding: a text through the encoder's endpoint, which records an event, or a    *)
(* batch for an ingestion.                                                     *)
StartEncode(t) ==
    /\ Starts(t)
    /\ \/ StartCall(t, "embedding", FALSE, 1)
       \/ \E n \in 0..MaxTexts : StartCall(t, "embedding", TRUE, n)
    /\ Becomes(t, Encoding("encode", 0))
    /\ UNCHANGED <<profileVars, diary, nextId, log>>

Encoded(t) ==
    /\ turn[t].pc = "encode"
    /\ \/ /\ Return(t, TRUE)
          /\ Becomes(t, IF call[t].batch THEN Idle ELSE Encoding("encoded", 0))
       \/ Return(t, FALSE) /\ Becomes(t, Idle)
    /\ UNCHANGED <<profileVars, diary, nextId, log>> /\ Within

-----------------------------------------------------------------------------

Profiles(t) ==
    \/ /\ Starts(t)
       /\ \/ \E a \in Agents : EditAgent(t, a) \/ EditConfig(t, a)
          \/ SaveWarehouse(t) \/ DeleteWarehouse(t)
       /\ UNCHANGED <<poolVars, chatVars>>
    \/ /\ SaveEdit(t) \/ SaveEditFails(t)
       /\ UNCHANGED <<poolVars, chatVars>> /\ Within

Pool == PoolStep /\ UNCHANGED <<profileVars, chatVars>> /\ Within

(* The client goes away before its answer: the handler is dropped where it waits.    *)
Cancel(t) ==
    /\ "cancel" \in Faults
    /\ turn[t].pc \in {"diary", "build", "model", "encode"}
    /\ call[t].pc \in {"none", "attempt"}
    /\ Becomes(t, Idle) /\ Dropped(t)
    /\ UNCHANGED <<profileVars, diary, nextId, log>> /\ Within

Restart ==
    /\ "crash" \in Faults /\ started < MaxRequests
    /\ started' = started + 1 /\ UNCHANGED alone
    /\ \E unread, failed \in SUBSET (IF "persona" \in Faults THEN Defaults ELSE {}) :
          ProfilesRestart(unread, failed)
    /\ PoolRestart
    /\ turn' = [t \in Tasks |-> Idle]
    /\ nextId' = 1 /\ log' = <<>>
    /\ UNCHANGED diary

Next ==
    \/ \E t \in Tasks :
          \/ \E a \in Agents : StartTurn(t, a)
          \/ ReadDiary(t) \/ BuildPrompt(t) \/ CutPanics(t) \/ ModelReturns(t)
          \/ TakeTicket(t) \/ PushEvent(t) \/ Observe(t) \/ AddNote(t) \/ EditDiary(t)
          \/ StartEncode(t) \/ Encoded(t) \/ Profiles(t) \/ Cancel(t)
    \/ Pool
    \/ Restart

Spec == Init /\ [][Next]_vars

-----------------------------------------------------------------------------
Sending == {t \in Tasks : turn[t].pc = "model"}

(* In modular mode the model is sent what the editor shows, if the two copies of     *)
(* each block's content agree: the content of each enabled block that says           *)
(* something, in the blocks' order, after any edits and reorderings.               *)
SentAsShown ==
    \A t \in Sending :
        turn[t].using # NoRow /\ turn[t].using.mode = "modular"
          /\ (\A b \in Range(turn[t].using.blocks) : Consistent(b)) =>
        LET sent == turn[t].prompt
            shown == {b \in Range(turn[t].using.blocks) :
                        b.enabled /\ (b.content \notin Bare \/ Mentions[b.content] \cap turn[t].filled # {})}
        IN  /\ {<<p.id, p.content>> : p \in Range(sent)} = {<<b.id, b.content>> : b \in shown}
            /\ \A j, k \in DOMAIN sent : j < k =>
                  \E b, c \in shown : /\ <<b.id, b.content>> = <<sent[j].id, sent[j].content>>
                                      /\ <<c.id, c.content>> = <<sent[k].id, sent[k].content>>
                                      /\ b.order <= c.order

(* While requests do not overlap, the pages of a query, put together, give the      *)
(* newest events there were of its label, "newest-first" (audit.rs:257), each on      *)
(* one page, whatever was evicted; with no label, every one of the last MaxAudit.    *)
AuditIsOrdered ==
    alone /\ (\A t \in Tasks : turn[t].pc # "push") =>
        \A labels \in {{e.label} : e \in Range(log)} \cup {Labels} :
           LET pages == FlattenSeq([k \in 1..MaxAudit |-> Queried(labels, k - 1, 1)])
           IN  /\ \A k \in 2..Len(pages) : pages[k].id < pages[k - 1].id
               /\ pages = Queried(labels, 0, 0)
               /\ labels = Labels =>
                     {e.id : e \in Range(pages)} = {k \in 1..(nextId - 1) : k >= nextId - MaxAudit}

(* What the model is sent is what the editor shows, and where these part, it is a     *)
(* client that sent a block so (engine.rs, prompts.rs).                            *)
PromptIsAsShown == TypeOK /\ SentAsShown /\ ContentIsActive

=============================================================================
