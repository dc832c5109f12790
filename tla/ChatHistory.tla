---------------------------- MODULE ChatHistory ----------------------------
(***************************************************************************)
(* The part of a session a chat call sends along: truncate_history           *)
(* (umms-api/src/session/mod.rs) over the messages the call has read.        *)
(***************************************************************************)
EXTENDS ChatSessions

CONSTANTS
    Size,               \* characters of each message of a turn: ASCII ones and others
    Brought,            \* the messages of each history a client brings
    MaxMessages,        \* ChatConfig::max_history_messages
    MaxTokens           \* ChatConfig::max_history_tokens

Roles == {"user", "assistant"}
Message == [turn : Turns \cup {0}, role : Roles, ascii : Nat, wide : Nat]

ASSUME ChatHistoryAssumption ==
    /\ Size \in [Turns -> [Roles -> [ascii : Nat, wide : Nat]]]
    /\ Brought \in [Histories -> Seq(Message)]
    /\ MaxMessages \in Nat /\ MaxTokens \in Nat

MessageOf(n, role) ==
    [turn |-> n, role |-> role, ascii |-> Size[n][role].ascii, wide |-> Size[n][role].wide]

(* A turn is two messages, the user's first.                                *)
TurnMessages(session) ==
    [k \in 1..(2 * Len(session.turns)) |->
        MessageOf(session.turns[(k + 1) \div 2], IF k % 2 = 1 THEN "user" ELSE "assistant")]

Messages(session) == Brought[session.brought] \o TurnMessages(session)

(* estimate_tokens(): a quarter of a token for an ASCII character, rounded up.  *)
Tokens(m) == (m.ascii + 4 * m.wide + 3) \div 4

(* Mutant: a message too long for what is left is skipped.                   *)
TakenIfFits(acc, m) ==
    IF Tokens(m) <= acc.budget
    THEN [acc EXCEPT !.kept = <<m>> \o @, !.budget = @ - Tokens(m)]
    ELSE acc

(* The first message too long for what is left ends the history.             *)
Taken(acc, m) ==
    IF acc.open /\ Tokens(m) <= acc.budget
    THEN [acc EXCEPT !.kept = <<m>> \o @, !.budget = @ - Tokens(m)]
    ELSE [acc EXCEPT !.open = FALSE]

Truncated(messages) ==
    LET candidates == IF Len(messages) <= MaxMessages THEN Len(messages) ELSE MaxMessages
        after[n \in 0..candidates] ==
            IF n = 0 THEN [kept |-> <<>>, budget |-> MaxTokens, open |-> TRUE]
            ELSE Taken(after[n - 1], messages[Len(messages) - n + 1])
    IN  after[candidates].kept

Newest(messages, n) == SubSeq(messages, Len(messages) - n + 1, Len(messages))

(* What a call sends of its session is the longest run of newest messages that  *)
(* both limits allow, without a gap and in order, whatever their sizes ("the    *)
(* most recent messages that fit", session/mod.rs:69).                        *)
HistoryIsNewest ==
    \A c \in Calls : call[c].pc = "generating" =>
        LET all == Messages(call[c].copy)
            sent == Truncated(all)
            cost[n \in 0..Len(all)] ==
                IF n = 0 THEN 0 ELSE cost[n - 1] + Tokens(all[Len(all) - n + 1])
        IN  /\ sent = Newest(all, Len(sent))
            /\ Len(sent) <= MaxMessages /\ cost[Len(sent)] <= MaxTokens
            /\ \A n \in (Len(sent) + 1)..Len(all) : n > MaxMessages \/ cost[n] > MaxTokens

=============================================================================
