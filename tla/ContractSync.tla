----------------------------- MODULE ContractSync -----------------------------
(***************************************************************************)
(* ensure_contract_synced (sync/contract_sync.rs) as EmbeddedPxe calls it: *)
(* before a call reads private state, the contract's sync_state function   *)
(* is run, unless the cache says it has been run for the anchor block.     *)
(* sync_state is itself a utility call, so it brings the block state up to *)
(* date a second time, and the anchor may move while the cache is in use.  *)
(*                                                                         *)
(* The anchors are numbered in the order in which they become current; of  *)
(* a header only the hash matters here, and hashes may repeat.             *)
(***************************************************************************)
EXTENDS Naturals, Sequences

CONSTANTS
    Caller, Contract, Scope,
    HashOf   \* the hashes of the successive anchors, a bound on their number

VARIABLES
    anchor,      \* the current anchor, an index into HashOf
    changed,     \* BlockStateSynchronizer.anchor_changed
    cachedHash,  \* ContractSyncService.anchor_block_hash
    synced,      \* ContractSyncService.synced
    registered,  \* contracts with an instance and an artifact in ContractStore
    ranAt,       \* the latest anchor for which sync_state ran, 0 if it never did
    pc, loc,
    calm         \* no call named an unregistered contract, and the anchor moved
                 \* only while no other call was running

vars == <<anchor, changed, cachedHash, synced, registered, ranAt, pc, loc, calm>>
cache == <<cachedHash, synced>>

NoHash == "none"
Anchor == 1..Len(HashOf)
Hash == {HashOf[v] : v \in Anchor}

Locals == [contract : Contract, scopes : SUBSET Scope, anchor : Anchor,
           todo : SUBSET Scope, inner : BOOLEAN, at : Anchor]
NoLocals == [contract |-> CHOOSE k \in Contract : TRUE, scopes |-> {}, anchor |-> 1,
             todo |-> {}, inner |-> FALSE, at |-> 1]

TypeOK ==
    /\ anchor \in Anchor
    /\ changed \in BOOLEAN
    /\ cachedHash \in Hash \union {NoHash}
    /\ synced \subseteq Contract \X Scope
    /\ registered \subseteq Contract
    /\ ranAt \in [Contract \X Scope -> 0..Len(HashOf)]
    /\ pc \in [Caller -> {"idle", "sync", "take", "clear", "forget", "read", "check", "filter",
                          "lookup", "run", "mark", "ok"}]
    /\ loc \in [Caller -> Locals]
    /\ calm \in BOOLEAN

Init ==
    /\ anchor = 1
    /\ changed = TRUE
    /\ cachedHash = NoHash
    /\ synced = {}
    /\ registered = {}
    /\ ranAt = [k \in Contract \X Scope |-> 0]
    /\ pc = [c \in Caller |-> "idle"]
    /\ loc = [c \in Caller |-> NoLocals]
    /\ calm = TRUE

Goto(c, label) == pc' = [pc EXCEPT ![c] = label]
Leave(c) == Goto(c, "idle") /\ loc' = [loc EXCEPT ![c] = NoLocals]

(* register_contract leaves the cache alone. *)
RegisterContract(k) ==
    /\ k \notin registered
    /\ registered' = registered \union {k}
    /\ UNCHANGED <<anchor, changed, cache, ranAt, pc, loc, calm>>

(* execute_utility, get_private_events or prove_tx begins. *)
Call(c, k, scopes) ==
    /\ pc[c] = "idle"
    /\ calm' = (calm /\ k \in registered)
    /\ loc' = [loc EXCEPT ![c] = [@ EXCEPT !.contract = k, !.scopes = scopes, !.inner = FALSE]]
    /\ Goto(c, "sync")
    /\ UNCHANGED <<anchor, changed, cache, registered, ranAt>>

-----------------------------------------------------------------------------
(* sync_block_state.  The block synchronizer may store a new anchor, and may *)
(* fail before or after it did.                                              *)
BlockSync(c) ==
    /\ pc[c] = "sync"
    /\ \/ UNCHANGED <<anchor, changed, calm>>
       \/ /\ anchor < Len(HashOf)
          /\ anchor' = anchor + 1
          /\ changed' = TRUE
          /\ calm' = (calm /\ \A d \in Caller \ {c} : pc[d] = "idle")
    /\ (Goto(c, "take") /\ UNCHANGED loc) \/ Leave(c)
    /\ UNCHANGED <<cache, registered, ranAt>>

TakeAnchorChanged(c) ==
    /\ pc[c] = "take"
    /\ changed' = FALSE
    /\ Goto(c, IF changed THEN "clear" ELSE "read")
    /\ UNCHANGED <<anchor, cache, registered, ranAt, loc, calm>>

(* wipe takes one lock after the other. *)
WipeSynced(c) ==
    /\ pc[c] = "clear"
    /\ synced' = {}
    /\ Goto(c, "forget")
    /\ UNCHANGED <<anchor, changed, cachedHash, registered, ranAt, loc, calm>>

(* Mutant: the empty string for "no hash". *)
WipeHashEmpty(c) ==
    /\ pc[c] = "forget"
    /\ cachedHash' = ""
    /\ Goto(c, "read")
    /\ UNCHANGED <<anchor, changed, synced, registered, ranAt, loc, calm>>

WipeHash(c) ==
    /\ pc[c] = "forget"
    /\ cachedHash' = NoHash
    /\ Goto(c, "read")
    /\ UNCHANGED <<anchor, changed, synced, registered, ranAt, loc, calm>>

(* get_anchor_block_header, for the call or for its sync_state. *)
ReadAnchor(c) ==
    /\ pc[c] = "read"
    /\ IF loc[c].inner
       THEN loc' = [loc EXCEPT ![c].at = anchor] /\ Goto(c, "run")
       ELSE loc' = [loc EXCEPT ![c].anchor = anchor] /\ Goto(c, "check")
    /\ UNCHANGED <<anchor, changed, cache, registered, ranAt, calm>>

-----------------------------------------------------------------------------
(* ensure_contract_synced_with *)

(* Mutant: the hash is remembered but the cache is kept. *)
CheckHashOnly(c) ==
    /\ pc[c] = "check"
    /\ cachedHash' = HashOf[loc[c].anchor]
    /\ Goto(c, "filter")
    /\ UNCHANGED <<anchor, changed, synced, registered, ranAt, loc, calm>>

CheckHash(c) ==
    /\ pc[c] = "check"
    /\ cachedHash' = HashOf[loc[c].anchor]
    /\ synced' = IF cachedHash = HashOf[loc[c].anchor] THEN synced ELSE {}
    /\ Goto(c, "filter")
    /\ UNCHANGED <<anchor, changed, registered, ranAt, loc, calm>>

FilterScopes(c) ==
    /\ pc[c] = "filter"
    /\ LET todo == {s \in loc[c].scopes : <<loc[c].contract, s>> \notin synced}
       IN  /\ loc' = [loc EXCEPT ![c].todo = todo]
           /\ Goto(c, IF todo = {} THEN "ok" ELSE "lookup")
    /\ UNCHANGED <<anchor, changed, cache, registered, ranAt, calm>>

(* execute_sync_state_for_contract: Ok at once if the contract is unknown,   *)
(* else a utility call, which begins with sync_block_state.                  *)
LookUpContract(c) ==
    /\ pc[c] = "lookup"
    /\ loc' = [loc EXCEPT ![c].inner = TRUE]
    /\ Goto(c, IF loc[c].contract \in registered THEN "sync" ELSE "mark")
    /\ UNCHANGED <<anchor, changed, cache, registered, ranAt, calm>>

RunSyncState(c) ==
    /\ pc[c] = "run"
    /\ \/ /\ ranAt' = [k \in DOMAIN ranAt |-> IF k \in {loc[c].contract} \X loc[c].todo
                                                 /\ loc[c].at > ranAt[k]
                                              THEN loc[c].at ELSE ranAt[k]]
          /\ Goto(c, "mark")
          /\ UNCHANGED loc
       \/ Leave(c) /\ UNCHANGED ranAt
    /\ UNCHANGED <<anchor, changed, cache, registered, calm>>

MarkSynced(c) ==
    /\ pc[c] = "mark"
    /\ synced' = synced \union ({loc[c].contract} \X loc[c].todo)
    /\ Goto(c, "ok")
    /\ UNCHANGED <<anchor, changed, cachedHash, registered, ranAt, loc, calm>>

(* The call goes on to read the private state. *)
Return(c) ==
    /\ pc[c] = "ok"
    /\ Leave(c)
    /\ UNCHANGED <<anchor, changed, cache, registered, ranAt, calm>>

Step(c) ==
    \/ BlockSync(c) \/ TakeAnchorChanged(c) \/ WipeSynced(c) \/ WipeHash(c) \/ ReadAnchor(c)
    \/ CheckHash(c) \/ FilterScopes(c) \/ LookUpContract(c) \/ RunSyncState(c)
    \/ MarkSynced(c) \/ Return(c)

Next ==
    \/ \E k \in Contract : RegisterContract(k)
    \/ \E c \in Caller : Step(c)
    \/ \E c \in Caller, k \in Contract, scopes \in SUBSET Scope \ {{}} : Call(c, k, scopes)

Spec == Init /\ [][Next]_vars

-----------------------------------------------------------------------------
(* When ensure_contract_synced lets a call go on, sync_state has run for     *)
(* every scope of the call since its anchor became current: the cache never  *)
(* passes off the state of an earlier anchor as the state of this one.       *)
SyncedForAnchor ==
    \A c \in Caller : pc[c] = "ok" /\ loc[c].contract \in registered =>
        \A s \in loc[c].scopes : ranAt[<<loc[c].contract, s>>] >= loc[c].anchor

(* It does so for concurrent calls with overlapping scopes and failing syncs *)
(* as long as contracts are registered before they are used and the anchor   *)
(* moves only while no other call is running.                                *)
SyncedForAnchorIfCalm == calm => SyncedForAnchor
=============================================================================
