---------------------------- MODULE MemoryCache ----------------------------
(***************************************************************************)
(* The L0/L1 working-memory cache (umms-storage, cache/moka_cache.rs).     *)
(*                                                                         *)
(* Two moka caches share one key space, (agent id, memory id).  An entry   *)
(* says which of the two it belongs to: SensoryBuffer entries live in L0,  *)
(* every other layer in L1.  Nothing ties the key to the entry stored      *)
(* under it, so an entry keeps the owner and the id it was built with and  *)
(* the properties compare them with the place it is found at.              *)
(***************************************************************************)
EXTENDS Naturals, FiniteSets

CONSTANTS
    Agents,     \* agent identifiers
    Mems,       \* memory identifiers
    NoEntry,    \* "no entry under this key"
    MaxPuts     \* bound: how many entries the clients ever create

ASSUME MemoryCacheAssumption ==
    /\ MaxPuts \in Nat
    /\ NoEntry \notin [owner : Agents, mem : Mems, layer : {"L0", "L1"}, ver : Nat]

VARIABLES
    cache,      \* cache[l][a][m]: what cache l holds under the key (a, m)
    puts        \* entries created so far; the version of the newest entry

cacheVars == <<cache, puts>>

Layers == {"L0", "L1"}

(* A MemoryEntry, reduced to whose it is, its id, its layer and its age.   *)
Entries == [owner : Agents, mem : Mems, layer : Layers, ver : Nat]

CacheTypeOK ==
    /\ cache \in [Layers -> [Agents -> [Mems -> Entries \cup {NoEntry}]]]
    /\ puts \in 0..MaxPuts

EmptyCache == [l \in Layers |-> [a \in Agents |-> [m \in Mems |-> NoEntry]]]

CacheInit == cache = EmptyCache /\ puts = 0

-----------------------------------------------------------------------------

(* put(): the entry's own layer selects the cache, the caller's key the    *)
(* place in it.                                                            *)
Stored(c, a, m, e) == [c EXCEPT ![e.layer][a][m] = e]

(* invalidate() of one key in one cache.                                   *)
Invalidated(c, l, a, m) == [c EXCEPT ![l][a][m] = NoEntry]

(* The ids one cache holds under an agent's keys.                          *)
LiveKeys(c, l, a) == {m \in Mems : c[l][a][m] # NoEntry}

(* collect_agent_entries(): the entries of one cache under an agent's keys. *)
Live(c, l, a) == {c[l][a][m] : m \in LiveKeys(c, l, a)}

(* get(): L0 first, then L1.                                               *)
Lookup(c, a, m) == IF c["L0"][a][m] # NoEntry THEN c["L0"][a][m] ELSE c["L1"][a][m]

(* A fresh entry, as the clients of the cache build them: the key they     *)
(* store it under is the entry's own agent and id.                         *)
NewEntry(a, m, l) == [owner |-> a, mem |-> m, layer |-> l, ver |-> puts + 1]

-----------------------------------------------------------------------------
(* The operations of MemoryCache. *)

Put(a, m, l) ==
    /\ puts < MaxPuts
    /\ puts' = puts + 1
    /\ cache' = Stored(cache, a, m, NewEntry(a, m, l))

(* remove() invalidates the key in L0 and then in L1; each is awaited, so  *)
(* anything may come between the two, and a dropped call does the first    *)
(* only.                                                                   *)
Remove(a, m, l) ==
    /\ cache[l][a][m] # NoEntry
    /\ cache' = Invalidated(cache, l, a, m)
    /\ UNCHANGED puts

(* moka drops an entry on its own: capacity, and time to live or to idle   *)
(* where the caches are not configured as session aware.                   *)
Expire(a, m, l) ==
    /\ cache[l][a][m] # NoEntry
    /\ cache' = Invalidated(cache, l, a, m)
    /\ UNCHANGED puts

=============================================================================
