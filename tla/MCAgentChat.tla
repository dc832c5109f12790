---------------------------- MODULE MCAgentChat ----------------------------
(* Instances of AgentChat for TLC: an agent with the default persona and one  *)
(* that has none.                                                           *)
EXTENDS AgentChat

CONSTANTS a, other, b1, b2, c1, c2, p1, p2

(* c1 is text that names no variable, c2 nothing but the user's message.      *)
Names == [c \in Contents |-> IF c = c2 THEN {"user_message"} ELSE {}]

MCBlock(id, variants, n, order) ==
    [id |-> id, variants |-> variants, selected |-> n, content |-> variants[n + 1],
     enabled |-> TRUE, order |-> order]

(* One that shows what it sends, one that is disabled, one that shows another    *)
(* variant than it sends, and one whose selection is the next to be added.      *)
MCInputs == {MCBlock(b1, <<c1, c2>>, 1, 1), [MCBlock(b2, <<c2>>, 0, 0) EXCEPT !.enabled = FALSE],
             [MCBlock(b2, <<c2, c1>>, 1, 0) EXCEPT !.content = c2],
             [MCBlock(b1, <<c1>>, 0, 2) EXCEPT !.selected = 1]}

(* A request that names all fields but one, and two that name one or two.       *)
TwoBlocks == [mode |-> "modular", original |-> c1,
              blocks |-> <<MCBlock(b1, <<c1, c2>>, 1, 1), MCBlock(b2, <<c2>>, 0, 0)>>]
MCRequests == {TwoBlocks, [mode |-> "preset", preset |-> c2], [original |-> c2]}

NoneOrTwoBlocks == {[x \in Agents |-> NoRow],
                    [x \in Agents |-> IF x = a THEN ConfigOf(TwoBlocks) ELSE NoRow]}

(* One provider embeds, another does all else.                                 *)
TwoProviders == [task \in ModelTasks |-> IF task = "embedding" THEN p1 ELSE p2]

OneEvent == <<a>>

Symmetry == Permutations(Callers)

=============================================================================
