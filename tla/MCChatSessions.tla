-------------------------- MODULE MCChatSessions --------------------------
(* Instances of ChatSessions for TLC: the two requests are interchangeable. *)
EXTENDS ChatHistory, TLC

Symmetry == Permutations(Calls) \cup Permutations(Sessions)

(* A history of an answer of one token and a question of two.                 *)
BroughtMessages ==
    [h \in Histories |->
        IF h = NoHistory THEN <<>>
        ELSE <<[turn |-> 0, role |-> "assistant", ascii |-> 4, wide |-> 0],
               [turn |-> 0, role |-> "user", ascii |-> 5, wide |-> 0]>>]

(* Questions of one token, answers of two, but the second is too long to be  *)
(* sent with anything newer, and the third question is a Chinese one.         *)
Sizes ==
    [n \in Turns |-> [r \in Roles |->
        CASE r = "assistant" /\ n = 2 -> [ascii |-> 25, wide |-> 0]
          [] r = "assistant" -> [ascii |-> 5, wide |-> 0]
          [] n = 3 -> [ascii |-> 1, wide |-> 1]
          [] OTHER -> [ascii |-> 4, wide |-> 0]]]

=============================================================================
