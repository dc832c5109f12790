--------------------------- MODULE AgentContexts ---------------------------
(***************************************************************************)
(* What an agent switch promises, with no cache, no snapshot table and no  *)
(* intermediate steps: every agent has a context, which holds whatever was *)
(* put and not released since; the current agent's can be added to; and    *)
(* switching to another agent changes who is current and no context.       *)
(***************************************************************************)
EXTENDS Naturals

CONSTANTS Agents, Mems, Layers, NoEntry, MaxPuts

VARIABLES
    ctx,        \* ctx[a][l][m]: a's entry for id m in layer l
    owed,       \* owed[a][l][m]: what was last put there and not released
    current,    \* the agent whose context is in use
    puts        \* entries created so far

absVars == <<ctx, owed, current, puts>>

NoContext == [l \in Layers |-> [m \in Mems |-> NoEntry]]

(* Some entries of old are gone, nothing else has changed.                 *)
Fewer(old, new) ==
    new = [a \in Agents |-> [l \in Layers |-> [m \in Mems |->
              IF new[a][l][m] = NoEntry THEN NoEntry ELSE old[a][l][m]]]]

Init ==
    /\ ctx = [a \in Agents |-> NoContext]
    /\ owed = [a \in Agents |-> NoContext]
    /\ current \in Agents
    /\ puts = 0

Put(m, l) ==
    LET e == [owner |-> current, mem |-> m, layer |-> l, ver |-> puts + 1] IN
    /\ puts < MaxPuts
    /\ puts' = puts + 1
    /\ ctx' = [ctx EXCEPT ![current][l][m] = e]
    /\ owed' = [owed EXCEPT ![current][l][m] = e]
    /\ UNCHANGED current

(* Entries are released: the client removes or evicts them, or they expire. *)
(* What is released leaves its context now or later, and for good; what is *)
(* still owed is in its context.                                           *)
Forget ==
    /\ Fewer(owed, owed') /\ Fewer(ctx, ctx')
    /\ \A a \in Agents, l \in Layers, m \in Mems :
          owed'[a][l][m] # NoEntry => ctx'[a][l][m] = owed'[a][l][m]
    /\ UNCHANGED <<current, puts>>

SwitchTo(a) ==
    /\ current' = a
    /\ UNCHANGED <<ctx, owed, puts>>

Next ==
    \/ \E m \in Mems, l \in Layers : Put(m, l)
    \/ Forget
    \/ \E a \in Agents : SwitchTo(a)

Spec == Init /\ [][Next]_absVars

=============================================================================
