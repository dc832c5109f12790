---------------------------- MODULE MemoryStore ----------------------------
(***************************************************************************)
(* The L2 memory table (umms-storage, vector/lance_store.rs) and the rules  *)
(* that move a memory between scopes (umms-storage, promotion.rs).          *)
(*                                                                          *)
(* Every VectorStore method locks the table for its own duration only, so   *)
(* one method is one step and a sequence of them is not.                    *)
(*                                                                          *)
(* Importance is on a logarithmic scale of levels: a day of decay            *)
(* multiplies it by 1 - rate, which takes one level off.  Level 1 is the     *)
(* floor and the archive threshold, MaxImp is what promotion asks for, and   *)
(* level 0 is the importance 0.0 of an archived memory.                      *)
(***************************************************************************)
EXTENDS Integers, FiniteSets, Sequences

CONSTANTS
    Agents,     \* agent identifiers
    Facts,      \* what a memory says
    Alike,      \* pairs of memories, by what they say, whose vectors are as similar as WKD asks for
    NoRow,      \* "no row with this id"
    MaxRows,    \* bound: rows ever inserted
    MaxImp      \* the highest importance level, at which a memory may be promoted

Ids == 1..MaxRows
Levels == 0..MaxImp
Floor == 1
Scopes == {"private", "shared"}
Marks == {"distilled", "archived"}

(* A MemoryEntry; accessed_at is born, for nothing ever moves it.           *)
Row == [id : Ids, agent : Agents, scope : Scopes, imp : Levels, facts : SUBSET Facts,
        tags : SUBSET Marks, born : Nat]

ASSUME MemoryStoreAssumption ==
    /\ Alike \subseteq (SUBSET Facts) \X (SUBSET Facts)
    /\ MaxRows \in Nat
    /\ MaxImp \in Nat /\ MaxImp > 1
    /\ NoRow \notin Row

VARIABLES
    rows,       \* rows[i]: the memory with id i; a higher id is a newer memory
    last        \* the newest id

storeVars == <<rows, last>>

StoreTypeOK ==
    /\ rows \in [Ids -> Row \cup {NoRow}]
    /\ last \in 0..MaxRows

StoreInit ==
    /\ rows = [i \in Ids |-> NoRow]
    /\ last = 0

Stored == {i \in Ids : rows[i] # NoRow}

-----------------------------------------------------------------------------

(* count() and list() select the agent's rows, with include_shared the      *)
(* shared ones as well; list() returns a page of them, newest first.        *)
Selected(a, shared) ==
    {i \in Stored : rows[i].agent = a \/ (shared /\ rows[i].scope = "shared")}

NewestFirst(ids) ==
    [k \in 1..Cardinality(ids) |-> CHOOSE i \in ids : Cardinality({j \in ids : j > i}) = k - 1]

List(a, offset, limit) ==
    LET ids == NewestFirst(Selected(a, FALSE))
        all == [k \in DOMAIN ids |-> rows[ids[k]]]
    IN  SubSeq(all, offset + 1, IF offset + limit > Len(all) THEN Len(all) ELSE offset + limit)

(* insert() of a new memory.                                                *)
Insert(a, scope, imp, facts, tags, day) ==
    /\ last < MaxRows
    /\ last' = last + 1
    /\ rows' = [rows EXCEPT ![last + 1] =
                   [id |-> last + 1, agent |-> a, scope |-> scope, imp |-> imp, facts |-> facts,
                    tags |-> tags, born |-> day]]

(* update_metadata(): columns of a row that may be gone by now.             *)
Update(i, new) ==
    /\ rows' = IF rows[i] = NoRow THEN rows ELSE [rows EXCEPT ![i] = new]
    /\ UNCHANGED last

WithImp(i, imp) == [rows[i] EXCEPT !.imp = imp]
WithTags(i, tags) == [rows[i] EXCEPT !.tags = tags]
WithScope(i, scope) == [rows[i] EXCEPT !.scope = scope]
WithOwner(i, a) == [rows[i] EXCEPT !.agent = a]

(* delete_all()                                                             *)
DeleteAll(a, shared) ==
    /\ rows' = [i \in Ids |-> IF i \in Selected(a, shared) THEN NoRow ELSE rows[i]]
    /\ UNCHANGED last

-----------------------------------------------------------------------------

(* What promote() and demote() ask of the row they have read.               *)
Promotable(i) == rows[i] # NoRow /\ rows[i].scope = "private"
Demotable(i) == rows[i] # NoRow /\ rows[i].scope = "shared"

=============================================================================
