--------------------------- MODULE AgentProfiles ---------------------------
(***************************************************************************)
(* What is configured of an agent: its persona (umms-persona, store.rs), its  *)
(* prompt configuration (umms-api, prompt/store.rs) and the warehouses of     *)
(* blocks to reuse, edited by handlers/agent.rs and handlers/prompts.rs.      *)
(*                                                                          *)
(* A method of a store is one statement under its lock.  An edit reads the     *)
(* row, changes its copy and writes the whole copy back: other edits run in    *)
(* between, and nothing compares what is written over.                        *)
(***************************************************************************)
EXTENDS Integers, FiniteSets, Sequences, SequencesExt, Ranking

CONSTANTS
    Agents,
    Defaults,       \* the agents default_personas() describes
    Blank, Named,   \* an empty field, and one that mentions the default's name
    Values,         \* values of a field of a persona
    NoRow,
    BlockIds,
    Contents,       \* contents of blocks
    Inputs,         \* blocks an editor sends, consistent or not
    Requests,       \* requests to save a configuration, whose fields are optional
    Saved,          \* what was saved of each agent before the server started
    Editors         \* requests that may edit at a time

Fields == {"name", "system_prompt"}     \* "name" stands for every other field
Persona == [Fields -> Values]
PromptModes == {"original", "modular", "preset"}
Block == [id : BlockIds, variants : Seq(Contents), selected : Nat, content : Contents,
          enabled : BOOLEAN, order : Nat]
Texts == Contents \cup {NoRow}           \* NoRow: empty or not given
Config == [mode : PromptModes, original : Texts, preset : Texts, blocks : Seq(Block)]

(* "Active content (convenience - always equals variants[selected_variant])":  *)
(* nothing compares the two copies in what a client sends.                     *)
Consistent(b) == b.selected + 1 \in DOMAIN b.variants /\ b.content = b.variants[b.selected + 1]

(* A field the request leaves out is cleared, whatever was stored.             *)
Omitted == [mode |-> "modular", original |-> NoRow, preset |-> NoRow, blocks |-> <<>>]
Given(r, f) == IF f \in DOMAIN r THEN r[f] ELSE Omitted[f]
ConfigOf(r) ==
    [mode |-> Given(r, "mode"), original |-> Given(r, "original"),
     preset |-> Given(r, "preset"), blocks |-> Given(r, "blocks")]

ASSUME ProfilesAssumption ==
    /\ Defaults \subseteq Agents
    /\ {Blank, Named} \subseteq Values
    /\ Inputs \subseteq Block
    /\ \A r \in Requests : ConfigOf(r) \in Config
    /\ Saved \subseteq [Agents -> {ConfigOf(r) : r \in Requests} \cup {NoRow}]

VARIABLES
    personas, configs,
    warehouse,      \* the global warehouse, a sequence of blocks
    edit            \* the edit each request is making

profileVars == <<personas, configs, warehouse, edit>>

(* `row' is what it edits, `new' the copy it will write, `names' the parts its  *)
(* request names; `stale' (history): the row was written since it was read.    *)
NoEdit == [row |-> NoRow]
Rows == {"persona", "config"} \X Agents
ProfilesTypeOK ==
    /\ personas \in [Agents -> Persona \cup {NoRow}]
    /\ \A a \in Agents : configs[a] = NoRow \/ configs[a] \in Config
    /\ warehouse = NoRow \/ warehouse \in Seq(Block)
    /\ \A e \in Editors :
          \/ edit[e] = NoEdit
          \/ /\ edit[e].row \in Rows /\ edit[e].stale \in BOOLEAN
             /\ edit[e].new \in IF edit[e].row[1] = "persona" THEN Persona ELSE Config

DefaultPersona == [f \in Fields |-> Named]

ProfilesInit ==
    /\ personas = [a \in Agents |-> IF a \in Defaults THEN DefaultPersona ELSE NoRow]
    /\ configs \in Saved
    /\ warehouse = NoRow
    /\ edit = [e \in Editors |-> NoEdit]

-----------------------------------------------------------------------------

Stored(row) == IF row[1] = "persona" THEN personas[row[2]] ELSE configs[row[2]]

(* The copy is made and changed in one go; the write comes later.              *)
Edits(e, row, new, names) ==
    /\ edit[e] = NoEdit
    /\ edit' = [edit EXCEPT ![e] = [row |-> row, new |-> new, names |-> names,
                                    stale |-> FALSE]]
    /\ UNCHANGED <<personas, configs, warehouse>>

(* Writing a row leaves the copies others made of it behind.                   *)
EditAfterWrite(row, e, rest) ==
    [d \in Editors |->
        IF d = e THEN rest
        ELSE IF edit[d] # NoEdit /\ edit[d].row = row THEN [edit[d] EXCEPT !.stale = TRUE]
        ELSE edit[d]]

Writes(e, row, value, rest) ==
    /\ personas' = IF row[1] = "persona" THEN [personas EXCEPT ![row[2]] = value] ELSE personas
    /\ configs' = IF row[1] = "config" THEN [configs EXCEPT ![row[2]] = value] ELSE configs
    /\ edit' = EditAfterWrite(row, e, rest)
    /\ UNCHANGED warehouse

Erases(e, row) == Writes(e, row, NoRow, NoEdit)

SaveEdit(e) ==
    /\ edit[e] # NoEdit
    /\ Writes(e, edit[e].row, edit[e].new, NoEdit)

SaveEditFails(e) ==
    /\ edit[e] # NoEdit
    /\ edit' = [edit EXCEPT ![e] = NoEdit]
    /\ UNCHANGED <<personas, configs, warehouse>>

-----------------------------------------------------------------------------
(* handlers/agent.rs                                                        *)

CreateAgent(e, a) ==
    /\ personas[a] = NoRow
    /\ \E v \in Values \ {Blank} :
          Edits(e, <<"persona", a>>, [f \in Fields |-> IF f = "name" THEN v ELSE Blank], Fields)

(* A mutant: a field left out of the request is cleared.                       *)
PatchedOrBlank(p, patch) ==
    [f \in Fields |-> IF f \in DOMAIN patch THEN patch[f] ELSE Blank]

Patched(p, patch) == [f \in Fields |-> IF f \in DOMAIN patch THEN patch[f] ELSE p[f]]

UpdateAgent(e, a) ==
    /\ personas[a] # NoRow
    /\ \E fields \in SUBSET Fields : \E patch \in [fields -> Values] :
          Edits(e, <<"persona", a>>, Patched(personas[a], patch), fields)

(* The memories, the configuration, the diary and the sessions of the agent     *)
(* stay, and an update under way brings the persona back.                      *)
DeleteAgent(e, a) ==
    /\ edit[e] = NoEdit
    /\ Erases(e, <<"persona", a>>)

-----------------------------------------------------------------------------
(* handlers/prompts.rs                                                      *)

Ids(c) == {b.id : b \in Range(c.blocks)}
WithBlocks(c, blocks) == [c EXCEPT !.blocks = blocks]

(* iter_mut().find(): the first block with this id.                            *)
Position(c, id) == CHOOSE k \in DOMAIN c.blocks :
    c.blocks[k].id = id /\ \A j \in 1..(k - 1) : c.blocks[j].id # id

SaveConfig(e, a) ==
    /\ edit[e] = NoEdit
    /\ \E r \in Requests : Writes(e, <<"config", a>>, ConfigOf(r), NoEdit)

SwitchMode(e, a) ==
    /\ configs[a] # NoRow
    /\ \E m \in PromptModes : Edits(e, <<"config", a>>, [configs[a] EXCEPT !.mode = m], {})

(* Its id may be one the configuration has.                                   *)
AddBlock(e, a) ==
    /\ configs[a] # NoRow
    /\ \E b \in Inputs :
          Edits(e, <<"config", a>>, WithBlocks(configs[a], Append(configs[a].blocks, b)), {b.id})

(* The id in the path says which block; one in the body is ignored.             *)
UpdateBlock(e, a) ==
    /\ configs[a] # NoRow
    /\ \E b \in Inputs, id \in Ids(configs[a]) :
          Edits(e, <<"config", a>>,
                [configs[a] EXCEPT !.blocks[Position(configs[a], id)] = [b EXCEPT !.id = id]], {id})

Without(c, id) ==
    WithBlocks(c, Only(c.blocks, {k \in DOMAIN c.blocks : c.blocks[k].id # id}))

DeleteBlock(e, a) ==
    /\ configs[a] # NoRow
    /\ \E id \in BlockIds : Edits(e, <<"config", a>>, Without(configs[a], id), {id})

(* Ids that name no block are passed over, blocks not named keep their order.    *)
Reordered(c, ids) ==
    WithBlocks(c, [k \in DOMAIN c.blocks |->
        IF k \in {Position(c, id) : id \in Range(ids) \cap Ids(c)}
        THEN [c.blocks[k] EXCEPT !.order =
                 (CHOOSE j \in DOMAIN ids : ids[j] = c.blocks[k].id) - 1]
        ELSE c.blocks[k]])

ReorderBlocks(e, a) ==
    /\ configs[a] # NoRow
    /\ \E S \in SUBSET BlockIds : \E ids \in SetToSeqs(S) :
          Edits(e, <<"config", a>>, Reordered(configs[a], ids), S)

AddVariant(e, a) ==
    /\ configs[a] # NoRow
    /\ \E id \in Ids(configs[a]), v \in Contents :
          Edits(e, <<"config", a>>,
                [configs[a] EXCEPT !.blocks[Position(configs[a], id)].variants = Append(@, v)], {id})

Selected(b, n) == [b EXCEPT !.selected = n, !.content = b.variants[n + 1]]

(* An index out of range is refused.                                          *)
SelectVariant(e, a) ==
    /\ configs[a] # NoRow
    /\ \E id \in Ids(configs[a]) :
          LET k == Position(configs[a], id)
              b == configs[a].blocks[k]
          IN  \E n \in 0..(Len(b.variants) - 1) :
                 Edits(e, <<"config", a>>, [configs[a] EXCEPT !.blocks[k] = Selected(b, n)], {id})

PutWarehouse(blocks) == warehouse' = blocks /\ UNCHANGED <<personas, configs, edit>>

(* Warehouses are written whole, whatever was there.                          *)
SaveWarehouse(e) == edit[e] = NoEdit /\ \E b \in Inputs : PutWarehouse(<<b>>)
DeleteWarehouse(e) == edit[e] = NoEdit /\ PutWarehouse(NoRow)

EditAgent(e, a) == CreateAgent(e, a) \/ UpdateAgent(e, a) \/ DeleteAgent(e, a)

EditConfig(e, a) ==
    \/ SaveConfig(e, a) \/ SwitchMode(e, a) \/ AddBlock(e, a) \/ UpdateBlock(e, a)
    \/ DeleteBlock(e, a) \/ ReorderBlocks(e, a) \/ AddVariant(e, a) \/ SelectVariant(e, a)

-----------------------------------------------------------------------------
(* AppState::new: at every start a default persona is written where there is      *)
(* none, or one whose prompt is empty or does not mention the default's name.    *)
(* One that cannot be read counts as none; a write that fails is passed over.     *)
Seeded(unread, failed) ==
    [a \in Agents |->
        IF /\ a \in Defaults \ failed
           /\ a \in unread \/ personas[a] = NoRow \/ personas[a]["system_prompt"] # Named
        THEN DefaultPersona ELSE personas[a]]

ProfilesRestart(unread, failed) ==
    /\ personas' = Seeded(unread, failed)
    /\ edit' = [e \in Editors |-> NoEdit]
    /\ UNCHANGED <<configs, warehouse>>

-----------------------------------------------------------------------------
(* A write changes only what its request names, unless the row was written      *)
(* since the request read it: overlapping edits are the only way to lose one.    *)
(* No write reaches another agent.                                            *)
EditsAreLocal ==
    [][\A e \in Editors : SaveEdit(e) /\ ~edit[e].stale =>
          LET row == edit[e].row
              old == Stored(row)
              new == IF row[1] = "persona" THEN personas'[row[2]] ELSE configs'[row[2]]
          IN  /\ \A a \in Agents \ {row[2]} :
                    personas'[a] = personas[a] /\ configs'[a] = configs[a]
              /\ old # NoRow /\ row[1] = "persona" =>
                    \A f \in Fields \ edit[e].names : new[f] = old[f]
              /\ old # NoRow /\ row[1] = "config" =>
                    \A id \in BlockIds \ edit[e].names :
                       {b \in Range(new.blocks) : b.id = id} = {b \in Range(old.blocks) : b.id = id}
      ]_profileVars

(* Blocks that clients send with two copies that differ.                       *)
SentApart ==
    {b \in Inputs \cup UNION {Range(ConfigOf(r).blocks) : r \in Requests} : ~Consistent(b)}

(* No edit of the server's own parts the active content from the variant that is  *)
(* sent (prompt/types.rs:33): in a stored block they differ only if a client sent  *)
(* that content with that selection, and only variants were added since.         *)
KeptOrSentApart(b) ==
    \/ Consistent(b)
    \/ \E s \in SentApart : /\ s.content = b.content /\ s.selected = b.selected
                           /\ IsPrefix(s.variants, b.variants)

ContentIsActive ==
    /\ \A a \in Agents : configs[a] # NoRow =>
          \A b \in Range(configs[a].blocks) : KeptOrSentApart(b)
    /\ warehouse # NoRow => \A b \in Range(warehouse) : KeptOrSentApart(b)

=============================================================================
