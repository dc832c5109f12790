------------------------------ MODULE ChatLog ------------------------------
(***************************************************************************)
(* What chat sessions promise their client: a session is a title and a log *)
(* of turns that only grows until the session is deleted, for good.  The   *)
(* turns answered since the session was last stored may be lost; nothing   *)
(* stored ever is.                                                         *)
(***************************************************************************)
EXTENDS Naturals, Sequences

CONSTANTS Sessions, Titles, Histories, NoHistory, Turns, NoSession

VARIABLES
    log,    \* log[s]: NoSession, or the session's title, what it began with, and turns
    disk    \* disk[s]: what of it is stored

logVars == <<log, disk>>

Init ==
    /\ log = [s \in Sessions |-> NoSession]
    /\ disk = log

Create(s, t) ==
    /\ log[s] = NoSession
    /\ log' = [log EXCEPT ![s] = [title |-> t, brought |-> NoHistory, turns |-> <<>>]]
    /\ disk' = [disk EXCEPT ![s] = log'[s]]

Longer(x, n) == [x EXCEPT !.turns = Append(@, n)]

(* A turn is answered, in a session of its own, after what the client         *)
(* brought, if it has none.                                                 *)
Answer(s, t, h, n) ==
    /\ log' = [log EXCEPT ![s] = IF @ = NoSession
                                 THEN [title |-> t, brought |-> h, turns |-> <<n>>]
                                 ELSE Longer(@, n)]
    /\ UNCHANGED disk

Store(s) ==
    /\ disk' = [disk EXCEPT ![s] = log[s]]
    /\ UNCHANGED log

Lose(lost) ==
    /\ log' = [s \in Sessions |-> IF s \in lost THEN disk[s] ELSE log[s]]
    /\ UNCHANGED disk

Rename(s, t) ==
    /\ log[s] # NoSession
    /\ log' = [log EXCEPT ![s].title = t]
    /\ disk' = [disk EXCEPT ![s] = log'[s]]

Delete(s) ==
    /\ log' = [log EXCEPT ![s] = NoSession]
    /\ disk' = [disk EXCEPT ![s] = NoSession]

Next ==
    \/ \E s \in Sessions, t \in Titles : Create(s, t) \/ Rename(s, t)
    \/ \E s \in Sessions, t \in Titles, h \in Histories, n \in Turns : Answer(s, t, h, n)
    \/ \E s \in Sessions : Store(s) \/ Delete(s)
    \/ \E lost \in SUBSET Sessions : Lose(lost)

Spec == Init /\ [][Next]_logVars

=============================================================================
