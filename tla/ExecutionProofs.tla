--------------------------- MODULE ExecutionProofs ---------------------------
(***************************************************************************)
(* Before and after an execution, for any callers, contracts and           *)
(* transactions. ContractSync: a call is let on only when its contract is  *)
(* synced for the anchor. RealKernelProver (Prover): a real proof is the   *)
(* caller's own. The components of this module have nothing to do with one *)
(* another: a theorem is about the specification it names, and a constant  *)
(* or variable that two of them use is universally quantified in each.     *)
(***************************************************************************)
EXTENDS ContractSync, TLAPS

(* There is an anchor and a contract, and no two anchors have one hash: with *)
(* the hash of an earlier anchor the cache is taken for a fresh one until    *)
(* the caller that took anchor_changed has wiped it.                         *)
Bounds ==
    /\ HashOf \in Seq(STRING)
    /\ Len(HashOf) > 0
    /\ \A v \in Anchor : HashOf[v] # NoHash
    /\ \A v, w \in Anchor : HashOf[v] = HashOf[w] => v = w
    /\ Contract # {}

Label == {"idle", "sync", "take", "clear", "forget", "read", "check", "filter",
          "lookup", "run", "mark", "ok"}

Ran(k, s, v) == ranAt[<<k, s>>] >= v

(* The scopes that sync_state has to run for have been chosen. *)
Decided(c) ==
    \/ pc[c] \in {"lookup", "run", "mark"}
    \/ loc[c].inner /\ pc[c] \in {"sync", "take", "clear", "forget", "read"}

(* The cached hash and the anchors that the calls hold have been current. *)
HashPast == cachedHash = NoHash \/ \E v \in Anchor : v <= anchor /\ cachedHash = HashOf[v]
Past(c) == loc[c].anchor <= anchor

(* A call that is running names a registered contract. *)
Known(c) == pc[c] # "idle" => loc[c].contract \in registered

(* A header read is the current one for as long as it decides anything. *)
Current(c) ==
    /\ pc[c] \in {"check", "filter", "lookup"} => loc[c].anchor = anchor
    /\ pc[c] \in {"run", "mark"} => loc[c].at = anchor

(* What a call need not run sync_state for has been brought to its anchor,   *)
(* what it has run sync_state for to the current one.                        *)
Done(c) ==
    /\ Decided(c) => \A s \in loc[c].scopes \ loc[c].todo : Ran(loc[c].contract, s, loc[c].anchor)
    /\ pc[c] = "mark" => \A s \in loc[c].todo : Ran(loc[c].contract, s, anchor)
    /\ pc[c] = "ok" => \A s \in loc[c].scopes : Ran(loc[c].contract, s, loc[c].anchor)

(* The cache may be trusted when its hash is the anchor's, and between the   *)
(* check of the hash and the choice of the scopes whatever its hash.         *)
Trusted == cachedHash = HashOf[anchor] \/ \E c \in Caller : pc[c] = "filter"
CacheTrue == Trusted => \A k \in Contract, s \in Scope : <<k, s>> \in synced => Ran(k, s, anchor)

(* The inductive invariant. *)
SyncInv ==
    /\ TypeOK
    /\ HashPast
    /\ \A c \in Caller : Past(c)
    /\ calm => CacheTrue /\ \A c \in Caller : Known(c) /\ Current(c) /\ Done(c)

-------------------------------------------------------------------------------
(* Type correctness. *)

LEMMA LocalsTyped ==
  ASSUME Bounds
  PROVE  NoLocals \in Locals
  <1>1. 1 \in Anchor
    BY DEF Bounds, Anchor
  <1>2. (CHOOSE k \in Contract : TRUE) \in Contract
    BY DEF Bounds
  <1> QED BY <1>1, <1>2 DEF NoLocals, Locals

LEMMA TypeInit ==
  ASSUME Bounds, Init
  PROVE  TypeOK
  <1>1. 1 \in Anchor
    BY DEF Bounds, Anchor
  <1>2. Len(HashOf) \in Nat
    BY DEF Bounds
  <1>3. loc \in [Caller -> Locals]
    BY LocalsTyped DEF Init
  <1>4. ranAt \in [Contract \X Scope -> 0..Len(HashOf)]
    BY <1>2 DEF Init
  <1> QED BY <1>1, <1>3, <1>4 DEF Init, TypeOK

(* What a step of c leaves to the others, and where it leaves c itself. *)
LEMMA Moved ==
  ASSUME Bounds, TypeOK, NEW c \in Caller, NEW l \in Label, Goto(c, l)
  PROVE  /\ pc' \in [Caller -> Label]
         /\ pc'[c] = l
         /\ \A d \in Caller \ {c} : pc'[d] = pc[d]
  BY DEF TypeOK, Goto, Label

LEMMA Held ==
  ASSUME Bounds, TypeOK, NEW c \in Caller, NEW r \in Locals, loc' = [loc EXCEPT ![c] = r]
  PROVE  /\ loc' \in [Caller -> Locals]
         /\ loc'[c] = r
         /\ \A d \in Caller \ {c} : loc'[d] = loc[d]
  BY DEF TypeOK

LEMMA Left ==
  ASSUME Bounds, TypeOK, NEW c \in Caller, Leave(c)
  PROVE  /\ pc' \in [Caller -> Label] /\ pc'[c] = "idle"
         /\ loc' \in [Caller -> Locals] /\ loc'[c] = NoLocals
         /\ \A d \in Caller \ {c} : pc'[d] = pc[d] /\ loc'[d] = loc[d]
  <1>1. Goto(c, "idle") /\ loc' = [loc EXCEPT ![c] = NoLocals]
    BY DEF Leave
  <1>2. "idle" \in Label
    BY DEF Label
  <1> QED BY Zenon, <1>1, <1>2, Moved, Held, LocalsTyped

(* A step of c changes c's own position and locals only, and only a field    *)
(* or two of those.                                                          *)
LEMMA Positions ==
  ASSUME Bounds, TypeOK, NEW c \in Caller,
         Step(c) \/ \E k \in Contract, scopes \in SUBSET Scope \ {{}} : Call(c, k, scopes)
  PROVE  /\ pc' \in [Caller -> Label]
         /\ loc' \in [Caller -> Locals]
         /\ \A d \in Caller \ {c} : pc'[d] = pc[d] /\ loc'[d] = loc[d]
  <1> USE Bounds, TypeOK
  <1>t. pc \in [Caller -> Label] /\ loc \in [Caller -> Locals] /\ loc[c] \in Locals /\ anchor \in Anchor
    BY DEF TypeOK, Label
  <1>1. ASSUME NEW l \in Label, Goto(c, l), UNCHANGED loc
        PROVE  /\ pc' \in [Caller -> Label]
               /\ loc' \in [Caller -> Locals]
               /\ \A d \in Caller \ {c} : pc'[d] = pc[d] /\ loc'[d] = loc[d]
    BY <1>1, <1>t, Moved
  <1>2. ASSUME NEW l \in Label, Goto(c, l), NEW r \in Locals, loc' = [loc EXCEPT ![c] = r]
        PROVE  /\ pc' \in [Caller -> Label]
               /\ loc' \in [Caller -> Locals]
               /\ \A d \in Caller \ {c} : pc'[d] = pc[d] /\ loc'[d] = loc[d]
    BY Zenon, <1>2, Moved, Held
  <1>l. {"idle", "sync", "take", "clear", "forget", "read", "check", "filter",
         "lookup", "run", "mark", "ok"} \subseteq Label
    BY DEF Label
  <1>3. CASE BlockSync(c)
    <2>1. (Goto(c, "take") /\ UNCHANGED loc) \/ Leave(c)
      BY <1>3, Zenon DEF BlockSync
    <2> QED BY <2>1, <1>1, <1>l, Left
  <1>4. CASE TakeAnchorChanged(c)
    <2>1. Goto(c, "clear") \/ Goto(c, "read")
      BY <1>4, Zenon DEF TakeAnchorChanged
    <2>2. UNCHANGED loc
      BY <1>4 DEF TakeAnchorChanged
    <2> QED BY <2>1, <2>2, <1>1, <1>l
  <1>5. CASE WipeSynced(c)
    BY <1>5, <1>1, <1>l DEF WipeSynced
  <1>6. CASE WipeHash(c)
    BY <1>6, <1>1, <1>l DEF WipeHash
  <1>7. CASE ReadAnchor(c)
    <2>1. \/ loc' = [loc EXCEPT ![c] = [@ EXCEPT !.at = anchor]] /\ Goto(c, "run")
          \/ loc' = [loc EXCEPT ![c] = [@ EXCEPT !.anchor = anchor]] /\ Goto(c, "check")
      BY <1>7 DEF ReadAnchor
    <2>2. [loc[c] EXCEPT !.at = anchor] \in Locals /\ [loc[c] EXCEPT !.anchor = anchor] \in Locals
      BY <1>t DEF Locals
    <2> QED BY <2>1, <2>2, <1>2, <1>l
  <1>8. CASE CheckHash(c)
    BY <1>8, <1>1, <1>l DEF CheckHash
  <1>9. CASE FilterScopes(c)
    <2> DEFINE todo == {s \in loc[c].scopes : <<loc[c].contract, s>> \notin synced}
    <2>1. loc' = [loc EXCEPT ![c] = [loc[c] EXCEPT !.todo = todo]]
      BY <1>9 DEF FilterScopes
    <2>2. [loc[c] EXCEPT !.todo = todo] \in Locals
      BY Zenon, <1>t DEF Locals
    <2>3. Goto(c, "ok") \/ Goto(c, "lookup")
      BY <1>9, Zenon DEF FilterScopes
    <2> QED BY Zenon, <2>1, <2>2, <2>3, <1>2, <1>l
  <1>10. CASE LookUpContract(c)
    <2>1. loc' = [loc EXCEPT ![c] = [loc[c] EXCEPT !.inner = TRUE]]
      BY <1>10 DEF LookUpContract
    <2>2. [loc[c] EXCEPT !.inner = TRUE] \in Locals
      BY Zenon, <1>t DEF Locals
    <2>3. Goto(c, "sync") \/ Goto(c, "mark")
      BY <1>10, Zenon DEF LookUpContract
    <2> QED BY Zenon, <2>1, <2>2, <2>3, <1>2, <1>l
  <1>11. CASE RunSyncState(c)
    <2>1. (Goto(c, "mark") /\ UNCHANGED loc) \/ Leave(c)
      BY <1>11, Zenon DEF RunSyncState
    <2> QED BY <2>1, <1>1, <1>l, Left
  <1>12. CASE MarkSynced(c)
    BY <1>12, <1>1, <1>l DEF MarkSynced
  <1>13. CASE Return(c)
    BY <1>13, Left DEF Return
  <1>14. CASE \E k \in Contract, scopes \in SUBSET Scope \ {{}} : Call(c, k, scopes)
    <2>1. PICK k \in Contract, scopes \in SUBSET Scope \ {{}} : Call(c, k, scopes)
      BY <1>14
    <2> DEFINE r == [loc[c] EXCEPT !.contract = k, !.scopes = scopes, !.inner = FALSE]
    <2>2. r \in Locals
      BY Zenon, <1>t DEF Locals
    <2>3. loc' = [loc EXCEPT ![c] = r] /\ Goto(c, "sync")
      BY Zenon, <2>1 DEF Call
    <2> QED BY Zenon, <2>2, <2>3, <1>2, <1>l
  <1> QED
    BY <1>3, <1>4, <1>5, <1>6, <1>7, <1>8, <1>9, <1>10, <1>11, <1>12, <1>13, <1>14, Zenon DEF Step

(* What a step does to the state the callers share: it stays typed, what has *)
(* been run stays run, and a calm history has been calm.                     *)
Shared ==
    /\ anchor \in Anchor
    /\ cachedHash \in Hash \union {NoHash}
    /\ synced \subseteq Contract \X Scope
    /\ registered \subseteq Contract
    /\ ranAt \in [Contract \X Scope -> 0..Len(HashOf)]

Grown ==
    /\ anchor <= anchor'
    /\ \A k \in Contract, s \in Scope : ranAt[<<k, s>>] <= ranAt'[<<k, s>>]
    /\ registered \subseteq registered'
    /\ calm' => calm

LEMMA Numbers ==
  ASSUME Bounds, TypeOK
  PROVE  /\ Len(HashOf) \in Nat /\ anchor \in Nat
         /\ \A k \in Contract, s \in Scope : ranAt[<<k, s>>] \in Nat
         /\ \A c \in Caller : loc[c].anchor \in Nat /\ loc[c].at \in Nat
  <1>1. Len(HashOf) \in Nat
    BY DEF Bounds
  <1>2. Anchor \subseteq Nat /\ 0..Len(HashOf) \subseteq Nat
    BY <1>1 DEF Anchor
  <1> QED BY Zenon, <1>1, <1>2 DEF TypeOK, Locals

LEMMA Plain ==
  ASSUME Bounds, TypeOK, UNCHANGED <<anchor, ranAt, registered>>
  PROVE  /\ anchor' \in Anchor /\ anchor <= anchor'
         /\ ranAt' \in [Contract \X Scope -> 0..Len(HashOf)]
         /\ \A k \in Contract, s \in Scope : ranAt[<<k, s>>] <= ranAt'[<<k, s>>]
         /\ registered' \subseteq Contract /\ registered \subseteq registered'
  <1>1. \A k \in Contract, s \in Scope : ranAt[<<k, s>>] <= ranAt'[<<k, s>>]
    <2> SUFFICES ASSUME NEW k \in Contract, NEW s \in Scope
                 PROVE  ranAt[<<k, s>>] <= ranAt'[<<k, s>>]
      BY Zenon
    <2> QED BY Numbers
  <1> QED BY <1>1, Numbers DEF TypeOK

LEMMA SharedStep ==
  ASSUME Bounds, TypeOK, NEW c \in Caller, Step(c)
  PROVE  Shared' /\ Grown
  <1> USE Bounds, TypeOK
  <1>t. Shared
    BY DEF TypeOK, Shared
  <1>1. CASE BlockSync(c)
    <2>1. UNCHANGED <<cachedHash, synced, ranAt, registered>>
      BY <1>1 DEF BlockSync, cache
    <2>2. CASE UNCHANGED <<anchor, changed, calm>>
      BY <2>1, <2>2, <1>t, Plain DEF Shared, Grown
    <2>3. CASE /\ anchor < Len(HashOf)
               /\ anchor' = anchor + 1
               /\ changed' = TRUE
               /\ calm' = (calm /\ \A d \in Caller \ {c} : pc[d] = "idle")
      <3>1. anchor' \in Anchor /\ anchor <= anchor'
        BY <2>3 DEF TypeOK, Anchor, Bounds
      <3>2. calm' => calm
        BY Zenon, <2>3
      <3>3. \A k \in Contract, s \in Scope : ranAt[<<k, s>>] <= ranAt'[<<k, s>>]
        <4> SUFFICES ASSUME NEW k \in Contract, NEW s \in Scope
                     PROVE  ranAt[<<k, s>>] <= ranAt'[<<k, s>>]
          BY Zenon
        <4> QED BY <2>1, Numbers
      <3> QED BY <3>1, <3>2, <3>3, <2>1, <1>t DEF Shared, Grown
    <2> QED BY Zenon, <1>1, <2>2, <2>3 DEF BlockSync
  <1>2. CASE TakeAnchorChanged(c)
    BY <1>2, <1>t, Plain DEF TakeAnchorChanged, cache, Shared, Grown
  <1>3. CASE WipeSynced(c)
    BY <1>3, <1>t, Plain DEF WipeSynced, Shared, Grown
  <1>4. CASE WipeHash(c)
    BY <1>4, <1>t, Plain DEF WipeHash, Shared, Grown
  <1>5. CASE ReadAnchor(c)
    BY <1>5, <1>t, Plain DEF ReadAnchor, cache, Shared, Grown
  <1>6. CASE CheckHash(c)
    <2>1. loc[c].anchor \in Anchor
      BY DEF TypeOK, Locals
    <2>2. cachedHash' \in Hash
      BY <1>6, <2>1 DEF CheckHash, Hash
    <2>3. synced' \subseteq Contract \X Scope
      BY <1>6 DEF CheckHash, TypeOK
    <2> QED BY <1>6, <2>2, <2>3, Plain DEF CheckHash, Shared, Grown
  <1>7. CASE FilterScopes(c)
    BY <1>7, <1>t, Plain DEF FilterScopes, cache, Shared, Grown
  <1>8. CASE LookUpContract(c)
    BY <1>8, <1>t, Plain DEF LookUpContract, cache, Shared, Grown
  <1>9. CASE RunSyncState(c)
    <2>1. UNCHANGED <<anchor, cachedHash, synced, registered, calm>>
      BY <1>9 DEF RunSyncState, cache
    <2>2. CASE UNCHANGED ranAt
      BY <2>1, <2>2, <1>t, Plain DEF Shared, Grown
    <2>3. CASE ranAt' = [k \in DOMAIN ranAt |-> IF k \in {loc[c].contract} \X loc[c].todo
                                                   /\ loc[c].at > ranAt[k]
                                                THEN loc[c].at ELSE ranAt[k]]
      <3>1. DOMAIN ranAt = Contract \X Scope /\ Len(HashOf) \in Nat /\ anchor \in Nat
        BY DEF TypeOK, Bounds, Anchor
      <3>2. loc[c].at \in 0..Len(HashOf) /\ loc[c].at \in Nat
        BY <3>1 DEF TypeOK, Locals, Anchor
      <3>3. ranAt' \in [Contract \X Scope -> 0..Len(HashOf)]
        BY <2>3, <3>1, <3>2 DEF TypeOK
      <3>4. \A k \in Contract, s \in Scope : ranAt[<<k, s>>] <= ranAt'[<<k, s>>]
        <4> SUFFICES ASSUME NEW k \in Contract, NEW s \in Scope
                     PROVE  ranAt[<<k, s>>] <= ranAt'[<<k, s>>]
          BY Zenon
        <4>1. ranAt[<<k, s>>] \in Nat
          BY Numbers
        <4>2. \/ ranAt'[<<k, s>>] = ranAt[<<k, s>>]
              \/ ranAt'[<<k, s>>] = loc[c].at /\ loc[c].at > ranAt[<<k, s>>]
          BY <2>3, <3>1
        <4> QED BY <4>1, <4>2, <3>2
      <3> QED BY <3>1, <3>3, <3>4, <2>1, <1>t DEF Shared, Grown
    <2> QED BY <1>9, <2>2, <2>3, Zenon DEF RunSyncState
  <1>10. CASE MarkSynced(c)
    <2>1. loc[c].contract \in Contract /\ loc[c].todo \subseteq Scope
      BY DEF TypeOK, Locals
    <2>2. synced' \subseteq Contract \X Scope
      BY <1>10, <2>1 DEF MarkSynced, TypeOK
    <2> QED BY <1>10, <2>2, <1>t, Plain DEF MarkSynced, Shared, Grown
  <1>11. CASE Return(c)
    BY <1>11, <1>t, Plain DEF Return, cache, Shared, Grown
  <1> QED
    BY <1>1, <1>2, <1>3, <1>4, <1>5, <1>6, <1>7, <1>8, <1>9, <1>10, <1>11, Zenon DEF Step

LEMMA SharedCall ==
  ASSUME Bounds, TypeOK, NEW c \in Caller, NEW k \in Contract, NEW scopes, Call(c, k, scopes)
  PROVE  Shared' /\ Grown
  BY Plain DEF Call, cache, Shared, Grown, TypeOK

LEMMA SharedRegister ==
  ASSUME Bounds, TypeOK, NEW k \in Contract, RegisterContract(k)
  PROVE  Shared' /\ Grown
  <1>1. registered' \subseteq Contract /\ registered \subseteq registered'
    BY DEF RegisterContract, TypeOK
  <1>2. anchor \in Nat
    BY Numbers
  <1>3. \A j \in Contract, s \in Scope : ranAt[<<j, s>>] <= ranAt'[<<j, s>>]
    <2> SUFFICES ASSUME NEW j \in Contract, NEW s \in Scope
                 PROVE  ranAt[<<j, s>>] <= ranAt'[<<j, s>>]
      BY Zenon
    <2> QED BY Numbers DEF RegisterContract
  <1> QED BY <1>1, <1>2, <1>3 DEF RegisterContract, cache, Shared, Grown, TypeOK

(* Booleans are left to the two flags. *)
LEMMA FlagsStep ==
  ASSUME TypeOK, [Next]_vars
  PROVE  changed' \in BOOLEAN /\ calm' \in BOOLEAN
  <1>1. changed \in BOOLEAN /\ calm \in BOOLEAN
    BY DEF TypeOK
  <1>2. CASE UNCHANGED vars
    BY <1>1, <1>2 DEF vars
  <1>3. ASSUME NEW k \in Contract, RegisterContract(k)
        PROVE  changed' \in BOOLEAN /\ calm' \in BOOLEAN
    BY <1>1, <1>3 DEF RegisterContract
  <1>4. ASSUME NEW c \in Caller, NEW k \in Contract, NEW scopes, Call(c, k, scopes)
        PROVE  changed' \in BOOLEAN /\ calm' \in BOOLEAN
    BY <1>1, <1>4 DEF Call
  <1>5. ASSUME NEW c \in Caller, Step(c)
        PROVE  changed' \in BOOLEAN /\ calm' \in BOOLEAN
    BY <1>1, <1>5, Zenon
       DEF Step, BlockSync, TakeAnchorChanged, WipeSynced, WipeHash, ReadAnchor, CheckHash,
           FilterScopes, LookUpContract, RunSyncState, MarkSynced, Return
  <1> QED BY <1>2, <1>3, <1>4, <1>5, Zenon DEF Next

LEMMA TypeNext ==
  ASSUME Bounds, TypeOK, [Next]_vars
  PROVE  TypeOK'
  <1> USE Bounds, TypeOK
  <1>1. ASSUME Shared', pc' \in [Caller -> Label], loc' \in [Caller -> Locals]
        PROVE  TypeOK'
    BY <1>1, FlagsStep DEF Shared, TypeOK, Label
  <1>2. CASE UNCHANGED vars
    BY <1>2 DEF vars, TypeOK
  <1>3. ASSUME NEW k \in Contract, RegisterContract(k)
        PROVE  TypeOK'
    <2>1. pc' \in [Caller -> Label] /\ loc' \in [Caller -> Locals]
      BY <1>3 DEF RegisterContract, TypeOK, Label
    <2> QED BY <1>1, <1>3, <2>1, SharedRegister
  <1>4. ASSUME NEW c \in Caller, NEW k \in Contract, NEW scopes \in SUBSET Scope \ {{}},
               Call(c, k, scopes)
        PROVE  TypeOK'
    BY <1>1, <1>4, SharedCall, Positions
  <1>5. ASSUME NEW c \in Caller, Step(c)
        PROVE  TypeOK'
    BY <1>1, <1>5, SharedStep, Positions
  <1> QED BY <1>2, <1>3, <1>4, <1>5, Zenon DEF Next

-------------------------------------------------------------------------------
(* The callers that a step leaves alone. *)

(* In a calm history the anchor stands still while another call is running.  *)
LEMMA Still ==
  ASSUME TypeOK, NEW c \in Caller, Step(c), calm', NEW d \in Caller \ {c}, pc[d] # "idle"
  PROVE  anchor' = anchor
  <1>1. CASE BlockSync(c)
    BY <1>1, Zenon DEF BlockSync
  <1>2. CASE ~BlockSync(c)
    BY <1>2, Zenon
       DEF Step, TakeAnchorChanged, WipeSynced, WipeHash, ReadAnchor, CheckHash,
           FilterScopes, LookUpContract, RunSyncState, MarkSynced, Return
  <1> QED BY <1>1, <1>2

LEMMA RanKept ==
  ASSUME Bounds, TypeOK, TypeOK', Grown, NEW k \in Contract, NEW s \in Scope, NEW v \in Nat,
         ranAt[<<k, s>>] >= v
  PROVE  ranAt'[<<k, s>>] >= v
  <1>1. ranAt[<<k, s>>] <= ranAt'[<<k, s>>]
    BY DEF Grown
  <1>2. ranAt'[<<k, s>>] \in 0..Len(HashOf)
    BY DEF TypeOK
  <1>3. ranAt[<<k, s>>] \in Nat /\ Len(HashOf) \in Nat
    BY Numbers
  <1> QED BY <1>1, <1>2, <1>3

LEMMA OtherKept ==
  ASSUME Bounds, TypeOK, TypeOK', Grown, NEW d \in Caller, pc'[d] = pc[d], loc'[d] = loc[d],
         pc[d] # "idle" => anchor' = anchor,
         Known(d), Current(d), Done(d)
  PROVE  Known(d)' /\ Current(d)' /\ Done(d)'
  <1>1. Known(d)'
    BY DEF Known, Grown
  <1>2. Current(d)'
    BY Zenon DEF Current
  <1>3. Done(d)'
    <2>1. loc[d].contract \in Contract /\ loc[d].scopes \subseteq Scope /\ loc[d].todo \subseteq Scope
      BY DEF TypeOK, Locals
    <2>2. loc[d].anchor \in Nat /\ anchor \in Nat
      BY Numbers
    <2>3. Decided(d)' => Decided(d)
      BY Zenon DEF Decided
    <2>4. ASSUME Decided(d)', NEW s \in loc[d].scopes \ loc[d].todo
          PROVE  ranAt'[<<loc[d].contract, s>>] >= loc[d].anchor
      BY <2>1, <2>2, <2>3, <2>4, RanKept DEF Done, Ran
    <2>5. ASSUME pc[d] = "mark", NEW s \in loc[d].todo
          PROVE  ranAt'[<<loc[d].contract, s>>] >= anchor
      BY <2>1, <2>2, <2>5, RanKept DEF Done, Ran
    <2>6. ASSUME pc[d] = "ok", NEW s \in loc[d].scopes
          PROVE  ranAt'[<<loc[d].contract, s>>] >= loc[d].anchor
      BY <2>1, <2>2, <2>6, RanKept DEF Done, Ran
    <2> QED BY <2>4, <2>5, <2>6 DEF Done, Ran
  <1> QED BY <1>1, <1>2, <1>3

-------------------------------------------------------------------------------
(* The caller that takes the step. *)

Good(c) == Known(c) /\ Current(c) /\ Done(c)

LEMMA GoneIdle ==
  ASSUME NEW c \in Caller, pc'[c] = "idle"
  PROVE  Good(c)'
  BY Zenon DEF Good, Known, Current, Done, Decided

(* Between the labels of the block sync and of the wipe. *)
LEMMA WentOn ==
  ASSUME Bounds, TypeOK, TypeOK', Grown, NEW c \in Caller, Good(c), loc'[c] = loc[c],
         pc[c] \in {"sync", "take", "clear", "forget"},
         pc'[c] \in {"take", "clear", "forget", "read"}
  PROVE  Good(c)'
  <1>1. Known(c)'
    BY DEF Good, Known, Grown
  <1>2. Current(c)'
    BY DEF Current
  <1>3. loc[c].contract \in Contract /\ loc[c].scopes \subseteq Scope /\ loc[c].anchor \in Nat
    BY Numbers DEF TypeOK, Locals
  <1>4. ASSUME Decided(c)', NEW s \in loc[c].scopes \ loc[c].todo
        PROVE  ranAt'[<<loc[c].contract, s>>] >= loc[c].anchor
    <2>1. Decided(c)
      BY <1>4 DEF Decided
    <2> QED BY <1>3, <1>4, <2>1, RanKept DEF Good, Done, Ran
  <1>5. Done(c)'
    BY <1>4 DEF Done, Ran
  <1> QED BY <1>1, <1>2, <1>5 DEF Good

LEMMA OwnRead ==
  ASSUME Bounds, TypeOK, NEW c \in Caller, Good(c), ReadAnchor(c)
  PROVE  Good(c)'
  <1>t. /\ loc \in [Caller -> Locals] /\ loc[c] \in Locals /\ pc \in [Caller -> Label]
        /\ "run" \in Label /\ "check" \in Label
    BY DEF TypeOK, Label
  <1>u. pc[c] = "read" /\ UNCHANGED <<anchor, ranAt, registered>>
    BY DEF ReadAnchor
  <1>1. CASE loc[c].inner
    <2>1. loc' = [loc EXCEPT ![c].at = anchor] /\ pc'[c] = "run"
      BY <1>1, <1>t DEF ReadAnchor, Goto
    <2>2. /\ loc'[c].at = anchor /\ loc'[c].contract = loc[c].contract /\ loc'[c].scopes = loc[c].scopes
          /\ loc'[c].todo = loc[c].todo /\ loc'[c].anchor = loc[c].anchor
      BY <2>1, <1>t DEF Locals
    <2>3. Decided(c)
      BY <1>1, <1>u DEF Decided
    <2> QED BY <2>1, <2>2, <2>3, <1>u DEF Good, Known, Current, Done, Ran
  <1>2. CASE ~loc[c].inner
    <2>1. loc' = [loc EXCEPT ![c].anchor = anchor] /\ pc'[c] = "check"
      BY <1>2, <1>t DEF ReadAnchor, Goto
    <2>2. loc'[c].anchor = anchor /\ loc'[c].contract = loc[c].contract
      BY <2>1, <1>t DEF Locals
    <2>3. ~Decided(c)'
      BY <2>1 DEF Decided
    <2> QED BY <2>1, <2>2, <2>3, <1>u DEF Good, Known, Current, Done
  <1> QED BY <1>1, <1>2

LEMMA OwnCheck ==
  ASSUME Bounds, TypeOK, NEW c \in Caller, Good(c), CheckHash(c)
  PROVE  Good(c)'
  <1>1. pc[c] = "check" /\ pc'[c] = "filter" /\ UNCHANGED <<anchor, registered, loc>>
    BY DEF CheckHash, Goto, TypeOK
  <1>2. ~Decided(c)'
    BY <1>1 DEF Decided
  <1> QED BY <1>1, <1>2, Zenon DEF Good, Known, Current, Done

(* What the cache holds needs no sync_state: the cache is trusted here. *)
LEMMA OwnFilter ==
  ASSUME Bounds, TypeOK, CacheTrue, NEW c \in Caller, Good(c), FilterScopes(c)
  PROVE  Good(c)'
  <1> DEFINE todo == {s \in loc[c].scopes : <<loc[c].contract, s>> \notin synced}
  <1>t. /\ loc \in [Caller -> Locals] /\ loc[c] \in Locals
        /\ loc[c].contract \in Contract /\ loc[c].scopes \subseteq Scope
    BY DEF TypeOK, Locals
  <1>1. pc[c] = "filter" /\ UNCHANGED <<anchor, registered, ranAt>>
    BY DEF FilterScopes
  <1>2. loc' = [loc EXCEPT ![c].todo = todo]
    BY DEF FilterScopes
  <1>3. (pc'[c] = "ok" /\ todo = {}) \/ pc'[c] = "lookup"
    BY DEF FilterScopes, Goto, TypeOK
  <1>4. /\ loc'[c].contract = loc[c].contract /\ loc'[c].scopes = loc[c].scopes
        /\ loc'[c].todo = todo /\ loc'[c].anchor = loc[c].anchor
    BY <1>2, <1>t DEF Locals
  <1>5. loc[c].anchor = anchor
    BY <1>1 DEF Good, Current
  <1>6. ASSUME NEW s \in loc[c].scopes, s \notin todo
        PROVE  ranAt[<<loc[c].contract, s>>] >= anchor
    <2>1. <<loc[c].contract, s>> \in synced /\ s \in Scope
      BY <1>6, <1>t
    <2>2. Trusted
      BY <1>1 DEF Trusted
    <2> QED BY <2>1, <2>2, <1>t DEF CacheTrue, Ran
  <1>7. Known(c)' /\ Current(c)'
    BY <1>1, <1>3, <1>4, <1>5 DEF Good, Known, Current
  <1>8. Done(c)'
    <2>1. CASE pc'[c] = "ok" /\ todo = {}
      <3>1. ~Decided(c)'
        BY <2>1 DEF Decided
      <3>2. ASSUME NEW s \in loc[c].scopes
            PROVE  ranAt'[<<loc[c].contract, s>>] >= loc[c].anchor
        BY <2>1, <1>6, <1>5, <1>1
      <3> QED BY <2>1, <3>1, <3>2, <1>4 DEF Done, Ran
    <2>2. CASE pc'[c] = "lookup"
      <3>1. ASSUME NEW s \in loc[c].scopes \ todo
            PROVE  ranAt'[<<loc[c].contract, s>>] >= loc[c].anchor
        BY <1>6, <1>5, <1>1
      <3> HIDE DEF todo
      <3> QED BY <2>2, <3>1, <1>4 DEF Done, Ran
    <2> QED BY <2>1, <2>2, <1>3
  <1> QED BY <1>7, <1>8 DEF Good

(* The contract is known, so sync_state is run. *)
LEMMA OwnLookUp ==
  ASSUME Bounds, TypeOK, NEW c \in Caller, Good(c), LookUpContract(c)
  PROVE  Good(c)'
  <1>t. loc \in [Caller -> Locals] /\ loc[c] \in Locals
    BY DEF TypeOK
  <1>1. pc[c] = "lookup" /\ UNCHANGED <<anchor, registered, ranAt>>
    BY DEF LookUpContract
  <1>2. loc' = [loc EXCEPT ![c].inner = TRUE]
    BY DEF LookUpContract
  <1>3. loc[c].contract \in registered
    BY <1>1 DEF Good, Known
  <1>4. pc'[c] = "sync"
    BY <1>3 DEF LookUpContract, Goto, TypeOK
  <1>5. /\ loc'[c].contract = loc[c].contract /\ loc'[c].scopes = loc[c].scopes
        /\ loc'[c].todo = loc[c].todo /\ loc'[c].anchor = loc[c].anchor
    BY <1>2, <1>t DEF Locals
  <1>6. Decided(c)
    BY <1>1 DEF Decided
  <1> QED BY <1>1, <1>3, <1>4, <1>5, <1>6 DEF Good, Known, Current, Done, Ran

LEMMA OwnRun ==
  ASSUME Bounds, TypeOK, TypeOK', Grown, NEW c \in Caller, Good(c), RunSyncState(c)
  PROVE  Good(c)'
  <1>1. pc[c] = "run" /\ UNCHANGED <<anchor, registered>>
    BY DEF RunSyncState
  <1>2. CASE Leave(c)
    BY <1>2, Left, GoneIdle
  <1>3. CASE /\ ranAt' = [k \in DOMAIN ranAt |-> IF k \in {loc[c].contract} \X loc[c].todo
                                                    /\ loc[c].at > ranAt[k]
                                                 THEN loc[c].at ELSE ranAt[k]]
             /\ Goto(c, "mark")
             /\ UNCHANGED loc
    <2>1. pc'[c] = "mark" /\ loc'[c] = loc[c]
      BY <1>3 DEF Goto, TypeOK
    <2>2. loc[c].at = anchor /\ Decided(c)
      BY <1>1 DEF Good, Current, Decided
    <2>3. /\ loc[c].contract \in Contract /\ loc[c].scopes \subseteq Scope /\ loc[c].todo \subseteq Scope
          /\ DOMAIN ranAt = Contract \X Scope
      BY DEF TypeOK, Locals
    <2>4. ASSUME NEW s \in loc[c].todo
          PROVE  ranAt'[<<loc[c].contract, s>>] >= anchor
      <3>1. <<loc[c].contract, s>> \in DOMAIN ranAt /\ <<loc[c].contract, s>> \in {loc[c].contract} \X loc[c].todo
        BY <2>3, <2>4
      <3>2. ranAt'[<<loc[c].contract, s>>] = IF anchor > ranAt[<<loc[c].contract, s>>]
                                             THEN anchor ELSE ranAt[<<loc[c].contract, s>>]
        BY <1>3, <3>1, <2>2
      <3>3. ranAt[<<loc[c].contract, s>>] \in Nat /\ anchor \in Nat
        BY <2>3, <2>4, Numbers
      <3> QED BY <3>2, <3>3
    <2>5. ASSUME NEW s \in loc[c].scopes \ loc[c].todo
          PROVE  ranAt'[<<loc[c].contract, s>>] >= loc[c].anchor
      BY <2>2, <2>3, <2>5, RanKept, Numbers DEF Good, Done, Ran
    <2>6. Known(c)' /\ Current(c)'
      BY <2>1, <2>2, <1>1 DEF Good, Known, Current
    <2>7. Done(c)'
      BY <2>1, <2>4, <2>5, <1>1 DEF Done, Ran
    <2> QED BY <2>6, <2>7 DEF Good
  <1> QED BY <1>2, <1>3 DEF RunSyncState

LEMMA OwnMark ==
  ASSUME Bounds, TypeOK, NEW c \in Caller, Past(c), Good(c), MarkSynced(c)
  PROVE  Good(c)'
  <1>1. pc[c] = "mark" /\ pc'[c] = "ok" /\ UNCHANGED <<anchor, registered, ranAt, loc>>
    BY DEF MarkSynced, Goto, TypeOK
  <1>2. Known(c)' /\ Current(c)'
    BY <1>1 DEF Good, Known, Current
  <1>3. ~Decided(c)' /\ Decided(c)
    BY <1>1 DEF Decided
  <1>4. ASSUME NEW s \in loc[c].scopes
        PROVE  ranAt[<<loc[c].contract, s>>] >= loc[c].anchor
    <2>1. CASE s \in loc[c].todo
      <3>1. ranAt[<<loc[c].contract, s>>] >= anchor /\ loc[c].anchor <= anchor
        BY <1>1, <2>1 DEF Good, Done, Ran, Past
      <3>2. loc[c].contract \in Contract /\ s \in Scope
        BY <1>4 DEF TypeOK, Locals
      <3> QED BY <3>1, <3>2, Numbers
    <2>2. CASE s \notin loc[c].todo
      BY <1>3, <1>4, <2>2 DEF Good, Done, Ran
    <2> QED BY <2>1, <2>2
  <1>5. Done(c)'
    BY <1>1, <1>3, <1>4 DEF Done, Ran
  <1> QED BY <1>2, <1>5 DEF Good

LEMMA OwnStep ==
  ASSUME Bounds, TypeOK, TypeOK', Grown, CacheTrue, NEW c \in Caller, Past(c), Good(c), Step(c)
  PROVE  Good(c)'
  <1>l. {"take", "clear", "forget", "read"} \subseteq Label
    BY DEF Label
  <1>1. CASE BlockSync(c)
    <2>1. CASE Leave(c)
      BY <2>1, Left, GoneIdle
    <2>2. CASE Goto(c, "take") /\ UNCHANGED loc
      BY <1>1, <2>2, <1>l, Moved, WentOn DEF BlockSync
    <2> QED BY <1>1, <2>1, <2>2, Zenon DEF BlockSync
  <1>2. CASE TakeAnchorChanged(c)
    <2>1. Goto(c, "clear") \/ Goto(c, "read")
      BY <1>2, Zenon DEF TakeAnchorChanged
    <2>2. pc'[c] \in {"clear", "read"}
      BY <2>1, <1>l, Moved
    <2> QED BY <1>2, <2>2, WentOn DEF TakeAnchorChanged
  <1>3. CASE WipeSynced(c)
    BY <1>3, <1>l, Moved, WentOn DEF WipeSynced
  <1>4. CASE WipeHash(c)
    BY <1>4, <1>l, Moved, WentOn DEF WipeHash
  <1>5. CASE Return(c)
    BY <1>5, Left, GoneIdle DEF Return
  <1> QED
    BY <1>1, <1>2, <1>3, <1>4, <1>5, OwnRead, OwnCheck, OwnFilter, OwnLookUp, OwnRun, OwnMark, Zenon
       DEF Step

-------------------------------------------------------------------------------
(* The cache. *)

(* A step that adds nothing to the cache, under the same anchor, and does    *)
(* not put a caller between the check and the choice of its scopes.          *)
LEMMA CacheKept ==
  ASSUME Bounds, TypeOK, TypeOK', Grown, CacheTrue,
         anchor' = anchor, synced' \subseteq synced,
         cachedHash' = cachedHash \/ cachedHash' = NoHash,
         \A d \in Caller : pc'[d] = "filter" => pc[d] = "filter"
  PROVE  CacheTrue'
  <1>1. Trusted' => Trusted
    BY DEF Trusted, Bounds, TypeOK
  <1>2. ASSUME Trusted', NEW k \in Contract, NEW s \in Scope, <<k, s>> \in synced'
        PROVE  ranAt'[<<k, s>>] >= anchor'
    <2>1. ranAt[<<k, s>>] >= anchor
      BY <1>1, <1>2 DEF CacheTrue, Ran
    <2> QED BY <2>1, RanKept, Numbers
  <1> QED BY <1>2 DEF CacheTrue, Ran

LEMMA CacheStep ==
  ASSUME Bounds, TypeOK, TypeOK', Grown, HashPast, CacheTrue, calm',
         NEW c \in Caller, Good(c), Step(c)
  PROVE  CacheTrue'
  <1>o. \A d \in Caller \ {c} : pc'[d] = pc[d]
    BY Positions
  <1>k. ASSUME pc'[c] # "filter" PROVE \A d \in Caller : pc'[d] = "filter" => pc[d] = "filter"
    BY <1>o, <1>k
  <1>g. ASSUME NEW l \in Label, Goto(c, l) PROVE pc'[c] = l
    BY <1>g, Moved
  <1>l. {"idle", "sync", "take", "clear", "forget", "read", "check", "filter",
         "lookup", "run", "mark", "ok"} \subseteq Label
    BY DEF Label
  <1>v. ASSUME Leave(c) PROVE pc'[c] = "idle"
    BY <1>v, Left
  <1>1. CASE BlockSync(c)
    <2>1. pc'[c] # "filter"
      <3>1. Goto(c, "take") \/ Leave(c)
        BY <1>1, Zenon DEF BlockSync
      <3> QED BY <3>1, <1>g, <1>v, <1>l
    <2>2. UNCHANGED <<synced, cachedHash>>
      BY <1>1 DEF BlockSync, cache
    <2>3. CASE UNCHANGED anchor
      BY <2>1, <2>2, <2>3, <1>k, CacheKept
    <2>4. CASE /\ anchor < Len(HashOf)
               /\ anchor' = anchor + 1
               /\ calm' = (calm /\ \A d \in Caller \ {c} : pc[d] = "idle")
      <3>1. \A d \in Caller : pc'[d] # "filter"
        BY Zenon, <2>1, <2>4, <1>o
      <3>2. cachedHash # HashOf[anchor']
        <4>1. anchor' \in Anchor /\ anchor \in Nat
          BY Numbers DEF TypeOK
        <4>2. CASE cachedHash = NoHash
          BY <4>1, <4>2 DEF Bounds
        <4>3. CASE \E v \in Anchor : v <= anchor /\ cachedHash = HashOf[v]
          <5>1. PICK v \in Anchor : v <= anchor /\ cachedHash = HashOf[v]
            BY <4>3
          <5>2. v # anchor'
            BY <5>1, <4>1, <2>4 DEF Anchor
          <5> QED BY <5>1, <5>2, <4>1 DEF Bounds
        <4> QED BY <4>2, <4>3 DEF HashPast
      <3>3. ~Trusted'
        BY <3>1, <3>2, <2>2 DEF Trusted
      <3> QED BY <3>3, Zenon DEF CacheTrue
    <2> QED BY Zenon, <1>1, <2>3, <2>4 DEF BlockSync
  <1>2. CASE TakeAnchorChanged(c)
    <2>1. Goto(c, "clear") \/ Goto(c, "read")
      BY <1>2, Zenon DEF TakeAnchorChanged
    <2>2. pc'[c] # "filter"
      BY <2>1, <1>g, <1>l
    <2> QED BY <1>2, <2>2, <1>k, CacheKept DEF TakeAnchorChanged, cache
  <1>3. CASE WipeSynced(c)
    <2>1. pc'[c] # "filter"
      BY <1>3, <1>g, <1>l DEF WipeSynced
    <2> QED BY <1>3, <2>1, <1>k, CacheKept DEF WipeSynced
  <1>4. CASE WipeHash(c)
    <2>1. pc'[c] # "filter"
      BY <1>4, <1>g, <1>l DEF WipeHash
    <2> QED BY <1>4, <2>1, <1>k, CacheKept DEF WipeHash
  <1>5. CASE ReadAnchor(c)
    <2>1. Goto(c, "run") \/ Goto(c, "check")
      BY <1>5, Zenon DEF ReadAnchor
    <2>2. pc'[c] # "filter"
      BY <2>1, <1>g, <1>l
    <2> QED BY <1>5, <2>2, <1>k, CacheKept DEF ReadAnchor, cache
  <1>6. CASE CheckHash(c)
    <2>1. loc[c].anchor = anchor /\ UNCHANGED <<anchor, ranAt>>
      BY <1>6 DEF CheckHash, Good, Current
    <2>2. synced' = IF cachedHash = HashOf[anchor] THEN synced ELSE {}
      BY <1>6, <2>1 DEF CheckHash
    <2>3. CASE cachedHash = HashOf[anchor]
      BY <2>1, <2>2, <2>3 DEF CacheTrue, Trusted, Ran
    <2>4. CASE cachedHash # HashOf[anchor]
      BY <2>2, <2>4 DEF CacheTrue
    <2> QED BY <2>3, <2>4
  <1>7. CASE FilterScopes(c)
    <2>1. Goto(c, "ok") \/ Goto(c, "lookup")
      BY <1>7, Zenon DEF FilterScopes
    <2>2. pc'[c] # "filter"
      BY <2>1, <1>g, <1>l
    <2> QED BY <1>7, <2>2, <1>k, CacheKept DEF FilterScopes, cache
  <1>8. CASE LookUpContract(c)
    <2>1. Goto(c, "sync") \/ Goto(c, "mark")
      BY <1>8, Zenon DEF LookUpContract
    <2>2. pc'[c] # "filter"
      BY <2>1, <1>g, <1>l
    <2> QED BY <1>8, <2>2, <1>k, CacheKept DEF LookUpContract, cache
  <1>9. CASE RunSyncState(c)
    <2>1. Goto(c, "mark") \/ Leave(c)
      BY <1>9, Zenon DEF RunSyncState
    <2>2. pc'[c] # "filter"
      BY <2>1, <1>g, <1>v, <1>l
    <2> QED BY <1>9, <2>2, <1>k, CacheKept DEF RunSyncState, cache
  <1>10. CASE MarkSynced(c)
    <2>1. pc[c] = "mark" /\ UNCHANGED <<anchor, cachedHash, ranAt>>
      BY <1>10 DEF MarkSynced
    <2>2. pc'[c] # "filter"
      BY <1>10, <1>g, <1>l DEF MarkSynced
    <2>3. Trusted' => Trusted
      BY <2>1, <2>2, <1>k DEF Trusted
    <2>4. ASSUME Trusted', NEW k \in Contract, NEW s \in Scope, <<k, s>> \in synced'
          PROVE  ranAt[<<k, s>>] >= anchor
      <3>1. CASE <<k, s>> \in synced
        BY <2>3, <2>4, <3>1 DEF CacheTrue, Ran
      <3>2. CASE <<k, s>> \in {loc[c].contract} \X loc[c].todo
        BY <2>1, <3>2 DEF Good, Done, Ran
      <3> QED BY <1>10, <2>4, <3>1, <3>2 DEF MarkSynced
    <2> QED BY <2>1, <2>4 DEF CacheTrue, Ran
  <1>11. CASE Return(c)
    <2>1. pc'[c] # "filter"
      BY <1>11, <1>v DEF Return
    <2> QED BY <1>11, <2>1, <1>k, CacheKept DEF Return, cache
  <1> QED
    BY <1>1, <1>2, <1>3, <1>4, <1>5, <1>6, <1>7, <1>8, <1>9, <1>10, <1>11, Zenon DEF Step

-------------------------------------------------------------------------------
(* The cached hash and the headers held are never of an anchor to come. *)

LEMMA NoLocalsAnchor ==
  NoLocals.anchor = 1
  <1> DEFINE k == CHOOSE j \in Contract : TRUE
  <1>1. NoLocals = [contract |-> k, scopes |-> {}, anchor |-> 1, todo |-> {}, inner |-> FALSE, at |-> 1]
    BY DEF NoLocals
  <1> HIDE DEF k
  <1> QED BY <1>1

LEMMA PastKept ==
  ASSUME Bounds, TypeOK, TypeOK', Grown, NEW d \in Caller, Past(d),
         \/ loc'[d].anchor = loc[d].anchor
         \/ loc'[d].anchor = anchor
         \/ loc'[d].anchor = 1
  PROVE  Past(d)'
  <1>1. anchor <= anchor' /\ anchor' \in Anchor /\ anchor \in Anchor
    BY DEF Grown, TypeOK
  <1>2. loc[d].anchor \in Nat /\ Len(HashOf) \in Nat
    BY Numbers
  <1> QED BY <1>1, <1>2 DEF Past, Anchor

LEMMA HashPastKept ==
  ASSUME Bounds, TypeOK, TypeOK', Grown, HashPast,
         \/ cachedHash' = cachedHash
         \/ cachedHash' = NoHash
         \/ \E v \in Anchor : v <= anchor /\ cachedHash' = HashOf[v]
  PROVE  HashPast'
  <1>1. anchor <= anchor' /\ anchor' \in Anchor /\ anchor \in Anchor
    BY DEF Grown, TypeOK
  <1>2. ASSUME NEW v \in Anchor, v <= anchor
        PROVE  v <= anchor'
    BY <1>1, <1>2, Numbers DEF Anchor
  <1> QED BY <1>2 DEF HashPast

LEMMA PastStep ==
  ASSUME Bounds, TypeOK, TypeOK', Grown, HashPast, NEW c \in Caller, Past(c), Step(c)
  PROVE  HashPast' /\ Past(c)'
  <1>t. loc \in [Caller -> Locals] /\ loc[c] \in Locals
    BY DEF TypeOK
  <1>v. ASSUME Leave(c) PROVE Past(c)'
    <2>1. loc'[c].anchor = 1
      BY <1>v, Left, NoLocalsAnchor
    <2> QED BY <2>1, PastKept
  <1>u. ASSUME UNCHANGED loc PROVE Past(c)'
    BY <1>u, PastKept
  <1>1. CASE BlockSync(c)
    <2>1. UNCHANGED loc \/ Leave(c)
      BY <1>1, Zenon DEF BlockSync
    <2> QED BY <1>1, <2>1, <1>u, <1>v, HashPastKept DEF BlockSync, cache
  <1>2. CASE TakeAnchorChanged(c)
    BY <1>2, <1>u, HashPastKept DEF TakeAnchorChanged, cache
  <1>3. CASE WipeSynced(c)
    BY <1>3, <1>u, HashPastKept DEF WipeSynced
  <1>4. CASE WipeHash(c)
    BY <1>4, <1>u, HashPastKept DEF WipeHash
  <1>5. CASE ReadAnchor(c)
    <2>1. \/ loc' = [loc EXCEPT ![c].at = anchor]
          \/ loc' = [loc EXCEPT ![c].anchor = anchor]
      BY <1>5, Zenon DEF ReadAnchor
    <2>2. loc'[c].anchor = loc[c].anchor \/ loc'[c].anchor = anchor
      BY <2>1, <1>t DEF Locals
    <2>3. cachedHash' = cachedHash
      BY <1>5 DEF ReadAnchor, cache
    <2> QED BY <2>2, <2>3, PastKept, HashPastKept
  <1>6. CASE CheckHash(c)
    <2>1. cachedHash' = HashOf[loc[c].anchor] /\ UNCHANGED loc
      BY <1>6 DEF CheckHash
    <2>2. loc[c].anchor \in Anchor /\ loc[c].anchor <= anchor
      BY <1>t DEF Locals, Past
    <2> QED BY <2>1, <2>2, <1>u, HashPastKept
  <1>7. CASE FilterScopes(c)
    <2>1. loc'[c].anchor = loc[c].anchor
      BY <1>7, <1>t DEF FilterScopes, Locals
    <2>2. cachedHash' = cachedHash
      BY <1>7 DEF FilterScopes, cache
    <2> QED BY <2>1, <2>2, PastKept, HashPastKept
  <1>8. CASE LookUpContract(c)
    <2>1. loc'[c].anchor = loc[c].anchor
      BY <1>8, <1>t DEF LookUpContract, Locals
    <2>2. cachedHash' = cachedHash
      BY <1>8 DEF LookUpContract, cache
    <2> QED BY <2>1, <2>2, PastKept, HashPastKept
  <1>9. CASE RunSyncState(c)
    <2>1. UNCHANGED loc \/ Leave(c)
      BY <1>9, Zenon DEF RunSyncState
    <2> QED BY <1>9, <2>1, <1>u, <1>v, HashPastKept DEF RunSyncState, cache
  <1>10. CASE MarkSynced(c)
    BY <1>10, <1>u, HashPastKept DEF MarkSynced
  <1>11. CASE Return(c)
    BY <1>11, <1>v, HashPastKept DEF Return, cache
  <1> QED
    BY <1>1, <1>2, <1>3, <1>4, <1>5, <1>6, <1>7, <1>8, <1>9, <1>10, <1>11, Zenon DEF Step

-------------------------------------------------------------------------------
(* The invariant. *)

LEMMA SyncInit ==
  ASSUME Bounds, Init
  PROVE  SyncInv
  <1>1. TypeOK
    BY TypeInit
  <1>2. HashPast
    BY DEF Init, HashPast
  <1>3. \A c \in Caller : Past(c)
    <2> SUFFICES ASSUME NEW c \in Caller
                 PROVE  loc[c].anchor <= anchor
      BY Zenon DEF Past
    <2>1. loc[c] = NoLocals /\ anchor = 1
      BY DEF Init
    <2>2. loc[c].anchor = 1
      BY <2>1, NoLocalsAnchor
    <2> QED BY <2>1, <2>2
  <1>4. CacheTrue
    BY DEF Init, CacheTrue
  <1>5. \A c \in Caller : Known(c) /\ Current(c) /\ Done(c)
    BY Zenon DEF Init, Known, Current, Done, Decided
  <1> QED BY <1>1, <1>2, <1>3, <1>4, <1>5 DEF SyncInv

LEMMA SyncByStep ==
  ASSUME Bounds, SyncInv, TypeOK', NEW c \in Caller, Step(c)
  PROVE  SyncInv'
  <1>t. TypeOK /\ HashPast /\ \A d \in Caller : Past(d)
    BY DEF SyncInv
  <1>g. Grown
    BY <1>t, SharedStep
  <1>o. \A d \in Caller \ {c} : pc'[d] = pc[d] /\ loc'[d] = loc[d]
    BY <1>t, Positions
  <1>1. HashPast' /\ Past(c)'
    BY <1>t, <1>g, PastStep
  <1>2. ASSUME NEW d \in Caller \ {c}
        PROVE  Past(d)'
    BY <1>t, <1>g, <1>o, <1>2, PastKept
  <1>3. \A d \in Caller : Past(d)'
    BY <1>1, <1>2
  <1>4. ASSUME calm'
        PROVE  CacheTrue' /\ \A d \in Caller : Known(d)' /\ Current(d)' /\ Done(d)'
    <2>1. calm
      BY <1>4, <1>g DEF Grown
    <2>2. CacheTrue /\ \A d \in Caller : Good(d)
      BY <2>1 DEF SyncInv, Good
    <2>3. CacheTrue'
      BY <1>4, <1>t, <1>g, <2>2, CacheStep
    <2>4. Good(c)'
      BY <1>t, <1>g, <2>2, OwnStep
    <2>5. ASSUME NEW d \in Caller \ {c}
          PROVE  Known(d)' /\ Current(d)' /\ Done(d)'
      <3>1. pc[d] # "idle" => anchor' = anchor
        BY <1>4, <1>t, <2>5, Still
      <3>2. Known(d) /\ Current(d) /\ Done(d)
        BY <2>2, <2>5 DEF Good
      <3> QED BY <3>1, <3>2, <1>t, <1>g, <1>o, <2>5, OtherKept
    <2> QED BY <2>3, <2>4, <2>5 DEF Good
  <1> QED BY <1>1, <1>3, <1>4, Zenon DEF SyncInv

LEMMA SyncByCall ==
  ASSUME Bounds, SyncInv, TypeOK', NEW c \in Caller, NEW k \in Contract,
         NEW scopes \in SUBSET Scope \ {{}}, Call(c, k, scopes)
  PROVE  SyncInv'
  <1>t. TypeOK /\ HashPast /\ \A d \in Caller : Past(d)
    BY DEF SyncInv
  <1>g. Grown
    BY <1>t, SharedCall
  <1>o. \A d \in Caller \ {c} : pc'[d] = pc[d] /\ loc'[d] = loc[d]
    BY <1>t, Positions
  <1>u. UNCHANGED <<anchor, changed, cachedHash, synced, registered, ranAt>>
    BY DEF Call, cache
  <1>c. /\ pc'[c] = "sync" /\ loc'[c].contract = k /\ loc'[c].inner = FALSE
        /\ loc'[c].anchor = loc[c].anchor
    <2>1. loc \in [Caller -> Locals] /\ loc[c] \in Locals /\ pc \in [Caller -> Label]
      BY <1>t DEF TypeOK, Label
    <2> QED BY <2>1 DEF Call, Goto, Locals
  <1>1. HashPast'
    BY <1>t, <1>g, <1>u, HashPastKept
  <1>2. \A d \in Caller : loc'[d].anchor = loc[d].anchor
    BY <1>o, <1>c
  <1>3. \A d \in Caller : Past(d)'
    BY <1>2, <1>t, <1>g, PastKept
  <1>4. ASSUME calm'
        PROVE  CacheTrue' /\ \A d \in Caller : Known(d)' /\ Current(d)' /\ Done(d)'
    <2>1. calm /\ k \in registered
      BY Zenon, <1>4 DEF Call
    <2>2. CacheTrue /\ \A d \in Caller : Known(d) /\ Current(d) /\ Done(d)
      BY <2>1 DEF SyncInv
    <2>3. CacheTrue'
      BY <1>t, <1>g, <1>u, <1>o, <1>c, <2>2, CacheKept
    <2>4. Known(c)' /\ Current(c)' /\ Done(c)'
      BY <1>c, <1>u, <2>1 DEF Known, Current, Done, Decided
    <2>5. ASSUME NEW d \in Caller \ {c}
          PROVE  Known(d)' /\ Current(d)' /\ Done(d)'
      BY <1>t, <1>g, <1>o, <1>u, <2>2, <2>5, OtherKept
    <2> QED BY <2>3, <2>4, <2>5
  <1> QED BY <1>1, <1>3, <1>4, Zenon DEF SyncInv

LEMMA SyncByRegister ==
  ASSUME Bounds, SyncInv, TypeOK', NEW k \in Contract, RegisterContract(k)
  PROVE  SyncInv'
  <1>t. TypeOK /\ HashPast /\ \A d \in Caller : Past(d)
    BY DEF SyncInv
  <1>g. Grown
    BY <1>t, SharedRegister
  <1>u. UNCHANGED <<anchor, cachedHash, synced, ranAt, pc, loc, calm>>
    BY DEF RegisterContract, cache
  <1>1. HashPast'
    BY <1>t, <1>g, <1>u, HashPastKept
  <1>2. \A d \in Caller : Past(d)'
    BY <1>t, <1>g, <1>u, PastKept
  <1>3. ASSUME calm'
        PROVE  CacheTrue' /\ \A d \in Caller : Known(d)' /\ Current(d)' /\ Done(d)'
    <2>1. CacheTrue /\ \A d \in Caller : Known(d) /\ Current(d) /\ Done(d)
      BY <1>3, <1>u DEF SyncInv
    <2>2. CacheTrue'
      BY <1>t, <1>g, <1>u, <2>1, CacheKept
    <2> QED BY <1>t, <1>g, <1>u, <2>1, <2>2, OtherKept
  <1> QED BY <1>1, <1>2, <1>3, Zenon DEF SyncInv

LEMMA SyncNext ==
  ASSUME Bounds, SyncInv, [Next]_vars
  PROVE  SyncInv'
  <1>1. TypeOK'
    BY TypeNext DEF SyncInv
  <1>2. CASE UNCHANGED vars
    <2>1. UNCHANGED <<anchor, changed, cachedHash, synced, registered, ranAt, pc, loc, calm>>
      BY <1>2 DEF vars
    <2>2. HashPast' /\ \A c \in Caller : Past(c)'
      BY <2>1 DEF SyncInv, HashPast, Past
    <2>3. ASSUME calm' PROVE CacheTrue' /\ \A c \in Caller : Known(c)' /\ Current(c)' /\ Done(c)'
      <3>1. CacheTrue /\ \A c \in Caller : Known(c) /\ Current(c) /\ Done(c)
        BY <2>1, <2>3 DEF SyncInv
      <3> QED BY <3>1, <2>1 DEF CacheTrue, Trusted, Known, Current, Done, Decided, Ran
    <2> QED BY <1>1, <2>2, <2>3, Zenon DEF SyncInv
  <1>3. CASE Next
    BY <1>1, <1>3, SyncByStep, SyncByCall, SyncByRegister, Zenon DEF Next
  <1> QED BY <1>2, <1>3

(* Every reachable state is typed. *)
THEOREM TypeCorrect ==
  ASSUME Bounds
  PROVE  Spec => []TypeOK
  <1>1. Init => TypeOK
    BY TypeInit
  <1>2. TypeOK /\ [Next]_vars => TypeOK'
    BY TypeNext
  <1> QED BY <1>1, <1>2, PTL DEF Spec

(* However many calls overlap and whichever of their syncs fail, a call that *)
(* ensure_contract_synced lets go on finds that sync_state has run for each  *)
(* of its scopes since its anchor became current.  The contracts are         *)
(* registered before they are called and the anchor moves only under a call  *)
(* that runs alone: that is the premise calm of the property.                *)
THEOREM CacheIsSound ==
  ASSUME Bounds
  PROVE  Spec => []SyncedForAnchorIfCalm
  <1>1. Init => SyncInv
    BY SyncInit
  <1>2. SyncInv /\ [Next]_vars => SyncInv'
    BY SyncNext
  <1>3. SyncInv => SyncedForAnchorIfCalm
    BY DEF SyncInv, SyncedForAnchorIfCalm, SyncedForAnchor, Done, Ran
  <1> QED BY <1>1, <1>2, <1>3, PTL DEF Spec

-----------------------------------------------------------------------------
(* RealKernelProver. *)
CONSTANTS Tx, Backends, MaxFaults, MaxToggles, NumCalls, None
VARIABLES backend, enabled, toggle, attempt, plan, lock, daemon, asked, reply,
          files, got, result, faults, toggles, disturbed
Prover == INSTANCE RealKernelProver

(* None is no transaction.                                               *)
ProverBounds == MaxFaults \in Nat /\ MaxToggles \in Nat /\ None \notin Tx

ProverLabel == Prover!Proving \cup {"idle", "executed", "done"}

(* The type invariant in three parts, one per sort of value. *)
Flags == enabled \in BOOLEAN /\ asked \in BOOLEAN /\ disturbed \in BOOLEAN

Places ==
    /\ backend \in Backends /\ toggle \in {"no", "start", "stop"}
    /\ pc \in [Tx -> ProverLabel] /\ attempt \in [Tx -> 1..2]
    /\ lock \in Tx \cup {None} /\ daemon \in {"none", "up", "exited"}
    /\ reply \in {"none", "ok", "failed", "eof"}
    /\ faults \in 0..MaxFaults /\ toggles \in 0..MaxToggles

Values ==
    /\ plan \in [Tx -> Prover!Plan]
    /\ files = [f \in Prover!File |-> files[f]] /\ got = [t \in Tx |-> got[t]]
    /\ result = [t \in Tx |-> result[t]]

(* The mutex is held exactly while a call waits for the daemon or reads its
   response; a message or an answer is there only for a call that waits, and
   not both at once.  A call that has a result is over. *)
Discipline ==
    /\ \A t \in Tx : pc[t] \in {"wait", "read"} => lock = t
    /\ asked \/ reply # "none" => lock # None /\ pc[lock] = "wait"
    /\ ~(asked /\ reply # "none")
    /\ \A t \in Tx : result[t] # None => pc[t] = "done"

(* One call at a time is in the helpers. *)
Alone == \A t, u \in Tx : pc[t] \in Prover!Proving /\ pc[u] \in Prover!Proving => t = u

(* What a call has put into the shared files is still in them when it needs
   it, and its request covers all its calls. *)
Covers(t) == plan[t].known => plan[t].acvm

Carried(t) ==
    /\ pc[t] \in Prover!Proving => Covers(t)
    /\ pc[t] = "executed" /\ enabled => Covers(t)
    /\ pc[t] \in Prover!Proving \ {"write"} => files["request"] = Prover!Request(t)
    /\ pc[t] = "wait" /\ reply = "ok" => files["response"] = Prover!Request(t)
    /\ pc[t] \in {"read", "collect"} => files["response"] = Prover!Request(t)
    /\ pc[t] \in {"steps", "chonk", "chonk_read"} => got[t] = Prover!Request(t)
    /\ pc[t] = "chonk" => files["steps"] = Prover!Request(t)
    /\ pc[t] = "chonk_read" => files["chonk"] = Prover!Request(t)

Delivered(t) ==
    result[t] # None /\ result[t].kind = "real" =>
        result[t].proof = Prover!Request(t) /\ result[t].inputs = Prover!Request(t) /\ Covers(t)

Undisturbed == Alone /\ \A t \in Tx : Carried(t) /\ Delivered(t)

ProverInv == Flags /\ Places /\ Values /\ Discipline /\ (~disturbed => Undisturbed)
-----------------------------------------------------------------------------
(* The types, one part at a time and one step per action.                *)
LEMMA ProverFlags == ASSUME Flags, [Prover!Next]_(Prover!vars) PROVE Flags'
<1> USE DEF Flags
<1>1. ASSUME NEW t \in Tx, Prover!Execute(t) \/ Prover!WriteRequest(t) \/ Prover!RunProcess(t) \/ Prover!CollectProcess(t) PROVE Flags'
  BY Zenon, <1>1 DEF Prover!Execute, Prover!WriteRequest, Prover!RunProcess, Prover!CollectProcess
<1>2. ASSUME NEW t \in Tx, Prover!Choose(t) PROVE Flags'
  BY <1>2 DEF Prover!Choose
<1>3. ASSUME NEW t \in Tx, Prover!Start(t) \/ Prover!Ask(t) PROVE Flags'
  BY Zenon, <1>3 DEF Prover!Start, Prover!Ask, Prover!StartDaemon, Prover!StartFails
<1>4. ASSUME NEW t \in Tx, Prover!TakeReply(t) \/ Prover!ReadResponse(t) \/ Prover!Stop(t) PROVE Flags'
  BY Zenon, <1>4 DEF Prover!TakeReply, Prover!ReadResponse, Prover!Stop, Prover!stop_real_kernel_prove_daemon
<1>5. ASSUME NEW t \in Tx, Prover!WriteSteps(t) \/ Prover!RunClientIvc(t) \/ Prover!CollectClientIvc(t) PROVE Flags'
  BY Zenon, <1>5 DEF Prover!WriteSteps, Prover!RunClientIvc, Prover!CollectClientIvc
<1>6. ASSUME NEW b \in BOOLEAN, Prover!SetProverEnabled(b) PROVE Flags'
  BY <1>6 DEF Prover!SetProverEnabled
<1>7. CASE Prover!Toggle
  BY Zenon, <1>7 DEF Prover!Toggle, Prover!StartDaemon, Prover!StartFails, Prover!stop_real_kernel_prove_daemon
<1>8. CASE Prover!DaemonProves \/ Prover!DaemonExits
  BY Zenon, <1>8 DEF Prover!DaemonProves, Prover!DaemonExits
<1>9. CASE UNCHANGED Prover!vars
  BY Zenon, <1>9 DEF Prover!vars
<1> QED BY Zenon, <1>1, <1>2, <1>3, <1>4, <1>5, <1>6, <1>7, <1>8, <1>9 DEF Prover!Next, Prover!Step, Prover!Finished

LEMMA PlacesStep == ASSUME ProverBounds, Places, [Prover!Next]_(Prover!vars) PROVE Places'
<1> USE DEF ProverBounds, Places, ProverLabel, Prover!Proving
<1>1. ASSUME NEW t \in Tx, Prover!Execute(t) \/ Prover!Choose(t) PROVE Places'
  BY <1>1 DEF Prover!Execute, Prover!Choose, Prover!Return, Prover!Goto
<1>2. ASSUME NEW t \in Tx, Prover!WriteRequest(t) \/ Prover!RunProcess(t) PROVE Places'
  BY <1>2 DEF Prover!WriteRequest, Prover!RunProcess, Prover!Return, Prover!Goto
<1>3. ASSUME NEW t \in Tx, Prover!CollectProcess(t) \/ Prover!ReadResponse(t) PROVE Places'
  BY <1>3 DEF Prover!CollectProcess, Prover!ReadResponse, Prover!Return, Prover!Goto
<1>4. ASSUME NEW t \in Tx, Prover!Start(t) PROVE Places'
  BY <1>4 DEF Prover!Start, Prover!StartDaemon, Prover!StartFails, Prover!AttemptFails, Prover!Return, Prover!Goto
<1>5. ASSUME NEW t \in Tx, Prover!Ask(t) PROVE Places'
  BY <1>5 DEF Prover!Ask, Prover!AttemptFails, Prover!Return, Prover!Goto
<1>6. ASSUME NEW t \in Tx, Prover!TakeReply(t) PROVE Places'
  BY <1>6 DEF Prover!TakeReply, Prover!AttemptFails, Prover!Return, Prover!Goto
<1>7. ASSUME NEW t \in Tx, Prover!Stop(t) \/ Prover!WriteSteps(t) \/ Prover!CollectClientIvc(t) PROVE Places'
  BY <1>7 DEF Prover!Stop, Prover!WriteSteps, Prover!CollectClientIvc, Prover!stop_real_kernel_prove_daemon, Prover!Return, Prover!Goto
<1>8. ASSUME NEW t \in Tx, Prover!RunClientIvc(t) PROVE Places'
  BY <1>8 DEF Prover!RunClientIvc, Prover!Return, Prover!Goto
<1>9. ASSUME NEW b \in BOOLEAN, Prover!SetProverEnabled(b) PROVE Places'
  BY <1>9 DEF Prover!SetProverEnabled
<1>10. CASE Prover!Toggle
  BY <1>10 DEF Prover!Toggle, Prover!StartDaemon, Prover!StartFails, Prover!stop_real_kernel_prove_daemon
<1>11. CASE Prover!DaemonProves \/ Prover!DaemonExits
  BY <1>11 DEF Prover!DaemonProves, Prover!DaemonExits
<1>12. CASE UNCHANGED Prover!vars
  BY <1>12 DEF Prover!vars
<1> QED BY Zenon, <1>1, <1>2, <1>3, <1>4, <1>5, <1>6, <1>7, <1>8, <1>9, <1>10, <1>11, <1>12 DEF Prover!Next, Prover!Step, Prover!Finished

LEMMA ValuesStep == ASSUME Values, [Prover!Next]_(Prover!vars) PROVE Values'
<1> USE DEF Values
<1>1. ASSUME NEW t \in Tx, Prover!Execute(t) PROVE Values'
  <2>1. CASE UNCHANGED plan
    BY <1>1, <2>1 DEF Prover!Execute, Prover!Return
  <2>2. ASSUME NEW public \in BOOLEAN, NEW known \in BOOLEAN, UNCHANGED result,
               plan' = [plan EXCEPT ![t] = [acvm |-> Prover!use_acvm_entrypoint(public) /\ known, known |-> known]]
        PROVE  Values'
    <3>1. (Prover!use_acvm_entrypoint(public) /\ known) \in BOOLEAN
      BY Zenon
    <3> QED BY <1>1, <2>2, <3>1 DEF Prover!Execute, Prover!Plan
  <2> QED BY Zenon, <1>1, <2>1, <2>2 DEF Prover!Execute
<1>2. ASSUME NEW t \in Tx, Prover!Choose(t) \/ Prover!CollectProcess(t) \/ Prover!ReadResponse(t) PROVE Values'
  BY <1>2 DEF Prover!Choose, Prover!CollectProcess, Prover!ReadResponse, Prover!Return
<1>3. ASSUME NEW t \in Tx, Prover!WriteRequest(t) \/ Prover!RunProcess(t) PROVE Values'
  BY <1>3 DEF Prover!WriteRequest, Prover!RunProcess, Prover!Write, Prover!Return, Prover!File
<1>4. ASSUME NEW t \in Tx, Prover!Start(t) \/ Prover!Ask(t) \/ Prover!TakeReply(t) PROVE Values'
  BY <1>4 DEF Prover!Start, Prover!Ask, Prover!TakeReply, Prover!AttemptFails, Prover!Return
<1>5. ASSUME NEW t \in Tx, Prover!Stop(t) \/ Prover!WriteSteps(t) \/ Prover!RunClientIvc(t) PROVE Values'
  BY <1>5 DEF Prover!Stop, Prover!WriteSteps, Prover!RunClientIvc, Prover!Write, Prover!Return, Prover!File
<1>6. ASSUME NEW t \in Tx, Prover!CollectClientIvc(t) PROVE Values'
  BY <1>6 DEF Prover!CollectClientIvc, Prover!Return, Prover!File
<1>7. ASSUME NEW b \in BOOLEAN, Prover!SetProverEnabled(b) PROVE Values'
  BY <1>7 DEF Prover!SetProverEnabled
<1>8. CASE Prover!Toggle \/ Prover!DaemonExits
  BY Zenon, <1>8 DEF Prover!Toggle, Prover!DaemonExits
<1>9. CASE Prover!DaemonProves
  BY <1>9 DEF Prover!DaemonProves, Prover!Write, Prover!File
<1>10. CASE UNCHANGED Prover!vars
  BY <1>10 DEF Prover!vars
<1> QED BY Zenon, <1>1, <1>2, <1>3, <1>4, <1>5, <1>6, <1>7, <1>8, <1>9, <1>10 DEF Prover!Next, Prover!Step, Prover!Finished

(* The mutex and the messages, one step per action. *)
LEMMA DisciplineStep ==
  ASSUME ProverBounds, Flags, Places, Values, Discipline, [Prover!Next]_(Prover!vars) PROVE Discipline'
<1> USE DEF ProverBounds, Places, Values, Discipline, ProverLabel, Prover!Proving
<1>1. ASSUME NEW t \in Tx, Prover!Execute(t) \/ Prover!Choose(t) PROVE Discipline'
  BY <1>1 DEF Prover!Execute, Prover!Choose, Prover!Return, Prover!Goto
<1>2. ASSUME NEW t \in Tx, Prover!WriteRequest(t) \/ Prover!RunProcess(t) \/ Prover!CollectProcess(t) PROVE Discipline'
  BY <1>2 DEF Prover!WriteRequest, Prover!RunProcess, Prover!CollectProcess, Prover!Return, Prover!Goto
<1>3. ASSUME NEW t \in Tx, Prover!Start(t) PROVE Discipline'
  BY <1>3 DEF Prover!Start, Prover!StartDaemon, Prover!StartFails, Prover!AttemptFails, Prover!Return, Prover!Goto
<1>4. ASSUME NEW t \in Tx, Prover!Ask(t) PROVE Discipline'
  BY <1>4 DEF Prover!Ask, Prover!AttemptFails, Prover!Return, Prover!Goto
<1>5. ASSUME NEW t \in Tx, Prover!TakeReply(t) PROVE Discipline'
  BY <1>5 DEF Prover!TakeReply, Prover!AttemptFails, Prover!Return, Prover!Goto
<1>6. ASSUME NEW t \in Tx, Prover!ReadResponse(t) PROVE Discipline'
  BY <1>6 DEF Prover!ReadResponse, Prover!Return, Prover!Goto
<1>7. ASSUME NEW t \in Tx, Prover!Stop(t) \/ Prover!WriteSteps(t) PROVE Discipline'
  BY <1>7 DEF Prover!Stop, Prover!WriteSteps, Prover!stop_real_kernel_prove_daemon, Prover!Goto
<1>8. ASSUME NEW t \in Tx, Prover!RunClientIvc(t) \/ Prover!CollectClientIvc(t) PROVE Discipline'
  BY <1>8 DEF Prover!RunClientIvc, Prover!CollectClientIvc, Prover!Return, Prover!Goto
<1>9. ASSUME NEW b \in BOOLEAN, Prover!SetProverEnabled(b) PROVE Discipline'
  BY <1>9 DEF Prover!SetProverEnabled
<1>10. CASE Prover!Toggle
  BY <1>10 DEF Prover!Toggle, Prover!StartDaemon, Prover!StartFails, Prover!stop_real_kernel_prove_daemon
<1>11. CASE Prover!DaemonProves \/ Prover!DaemonExits
  BY <1>11 DEF Prover!DaemonProves, Prover!DaemonExits
<1>12. CASE UNCHANGED Prover!vars
  BY <1>12 DEF Prover!vars
<1> QED BY Zenon, <1>1, <1>2, <1>3, <1>4, <1>5, <1>6, <1>7, <1>8, <1>9, <1>10, <1>11, <1>12 DEF Prover!Next, Prover!Step, Prover!Finished

(* A call that takes no part in a step keeps what it had, unless the step
   writes files that it is using. *)
LEMMA OthersKept ==
  ASSUME NEW u \in Tx, Carried(u), Delivered(u),
         pc'[u] = pc[u], plan'[u] = plan[u], got'[u] = got[u], result'[u] = result[u],
         enabled' = enabled, reply' = reply \/ reply' # "ok",
         files' = files \/ pc[u] \notin Prover!Proving
  PROVE  Carried(u)' /\ Delivered(u)'
<1>1. Prover!Request(u)' = Prover!Request(u) /\ (Covers(u) => Covers(u)')
  BY DEF Prover!Request, Prover!kernel_entrypoint, Covers
<1>2. Delivered(u)'
  BY <1>1 DEF Delivered
<1>3. CASE files' = files
  BY <1>1, <1>2, <1>3 DEF Carried
<1>4. CASE pc[u] \notin Prover!Proving
  BY <1>1, <1>2, <1>4 DEF Carried, Prover!Proving
<1> QED BY <1>2, <1>3, <1>4

(* The steps of one call, and what each leaves behind for it. *)
Moves(t, l) ==
    /\ pc' = [pc EXCEPT ![t] = l]
    /\ enabled' = enabled /\ (reply' = reply \/ reply' # "ok")
    /\ \A u \in Tx \ {t} : plan'[u] = plan[u] /\ got'[u] = got[u] /\ result'[u] = result[u]

LEMMA MoveKeeps ==
  ASSUME Places, Undisturbed, NEW t \in Tx, NEW l, Moves(t, l),
         l \in Prover!Proving => (pc[t] \in Prover!Proving \/ \A u \in Tx \ {t} : pc[u] \notin Prover!Proving),
         files' = files \/ pc[t] \in Prover!Proving,
         Carried(t)', Delivered(t)'
  PROVE  Undisturbed'
<1>1. \A u \in Tx \ {t} : pc'[u] = pc[u]
  BY DEF Moves, Places
<1>2. pc'[t] = l
  BY DEF Moves, Places
<1>3. Alone'
  BY <1>1, <1>2 DEF Undisturbed, Alone
<1>4. ASSUME NEW u \in Tx, u # t PROVE Carried(u)' /\ Delivered(u)'
  <2>1. files' = files \/ pc[u] \notin Prover!Proving
    BY <1>4 DEF Undisturbed, Alone
  <2> QED BY <1>1, <1>4, <2>1, OthersKept DEF Moves, Undisturbed
<1> QED BY <1>3, <1>4 DEF Undisturbed

(* One case per action: while no second call enters the helpers, the     *)
(* files hold what the call has put there.                               *)
LEMMA UndisturbedStep ==
  ASSUME ProverBounds, Flags, Places, Values, Discipline, ~disturbed => Undisturbed, [Prover!Next]_(Prover!vars), ~disturbed'
  PROVE  Undisturbed'
<1>0. ~disturbed
  <2>1. ASSUME NEW t \in Tx, Prover!Step(t) PROVE ~disturbed
    BY Zenon, <2>1 DEF Prover!Step, Prover!Execute, Prover!Choose, Prover!WriteRequest, Prover!RunProcess, Prover!CollectProcess, Prover!Start, Prover!Ask, Prover!TakeReply,
       Prover!ReadResponse, Prover!Stop, Prover!WriteSteps, Prover!RunClientIvc, Prover!CollectClientIvc
  <2>2. ASSUME NEW b \in BOOLEAN, Prover!SetProverEnabled(b) PROVE ~disturbed
    BY Zenon, <2>2 DEF Prover!SetProverEnabled
  <2> QED BY Zenon, <2>1, <2>2 DEF Prover!Next, Prover!Toggle, Prover!DaemonProves, Prover!DaemonExits, Prover!Finished, Prover!vars
<1>a. Undisturbed
  BY Zenon, <1>0
<1> USE DEF Places, Values
<1>1. ASSUME NEW t \in Tx, Prover!Execute(t) PROVE Undisturbed'
  <2>1. Moves(t, pc'[t]) /\ pc'[t] \in {"executed", "done"} /\ files' = files
    BY <1>1 DEF Prover!Execute, Prover!Return, Prover!Goto, Moves
  <2>2. Delivered(t)'
    BY <1>1 DEF Prover!Execute, Prover!Return, Prover!Goto, Delivered, Discipline
  <2>3. Carried(t)'
    <3>1. CASE pc'[t] = "done"
      BY <3>1 DEF Carried, Prover!Proving
    <3>2. CASE pc'[t] = "executed"
      <4>1. enabled => Covers(t)'
        BY <1>1, <3>2 DEF Prover!Execute, Prover!Return, Prover!Goto, Covers, Prover!use_acvm_entrypoint, Prover!Plan
      <4> QED BY <2>1, <3>2, <4>1 DEF Carried, Prover!Proving, Moves
    <3> QED BY <2>1, <3>1, <3>2
  <2> QED BY <1>a, <2>1, <2>2, <2>3, MoveKeeps DEF Prover!Proving
<1>2. ASSUME NEW t \in Tx, Prover!Choose(t) PROVE Undisturbed'
  <2>1. Moves(t, pc'[t]) /\ pc'[t] \in {"write", "done"} /\ files' = files
    BY <1>2 DEF Prover!Choose, Prover!Return, Prover!Goto, Moves
  <2>2. pc'[t] = "write" => \A u \in Tx \ {t} : pc[u] \notin Prover!Proving
    BY Zenon, <1>2 DEF Prover!Choose, Prover!Return, Prover!Goto
  <2>3. Delivered(t)'
    BY <1>2 DEF Prover!Choose, Prover!Return, Prover!Goto, Delivered, Discipline
  <2>4. Carried(t)'
    BY <1>a, <1>2, <2>1 DEF Prover!Choose, Prover!Return, Prover!Goto, Carried, Prover!Proving, Undisturbed, Covers
  <2> QED BY <1>a, <2>1, <2>2, <2>3, <2>4, MoveKeeps DEF Prover!Proving
<1>b. \A t \in Tx : UNCHANGED plan => Prover!Request(t)' = Prover!Request(t) /\ (Covers(t) => Covers(t)')
  BY DEF Prover!Request, Prover!kernel_entrypoint, Covers
<1>c. \A t \in Tx : pc[t] \in Prover!Proving => Carried(t) /\ Covers(t) /\ result[t] = None
  BY <1>a DEF Undisturbed, Carried, Discipline, Prover!Proving
<1>3. ASSUME NEW t \in Tx, Prover!WriteRequest(t) \/ Prover!RunProcess(t) PROVE Undisturbed'
  <2>1. Moves(t, pc'[t]) /\ pc[t] \in Prover!Proving /\ UNCHANGED plan
    BY <1>3 DEF Prover!WriteRequest, Prover!RunProcess, Prover!Return, Prover!Goto, Moves, Prover!Proving
  <2>2. Delivered(t)'
    BY <1>c, <1>3, <2>1 DEF Prover!WriteRequest, Prover!RunProcess, Prover!Return, Prover!Goto, Delivered
  <2>3. Carried(t)'
    <3>1. CASE Prover!WriteRequest(t)
      BY <1>b, <1>c, <2>1, <3>1 DEF Prover!WriteRequest, Prover!Write, Prover!Goto, Carried, Prover!Proving, Prover!File
    <3>2. CASE Prover!RunProcess(t)
      BY <1>b, <1>c, <2>1, <3>2 DEF Prover!RunProcess, Prover!Write, Prover!Return, Prover!Goto, Carried, Prover!Proving, Prover!File
    <3> QED BY <1>3, <3>1, <3>2
  <2> QED BY <1>a, <2>1, <2>2, <2>3, MoveKeeps
<1>4. ASSUME NEW t \in Tx, Prover!CollectProcess(t) PROVE Undisturbed'
  <2>1. Moves(t, "done") /\ pc[t] \in Prover!Proving /\ UNCHANGED <<plan, files>> /\ pc'[t] = "done"
    BY <1>4 DEF Prover!CollectProcess, Prover!Return, Prover!Goto, Moves, Prover!Proving
  <2>2. Delivered(t)'
    BY <1>b, <1>c, <1>4, <2>1 DEF Prover!CollectProcess, Prover!Return, Delivered, Carried, Prover!Real
  <2>3. Carried(t)'
    BY <2>1 DEF Carried, Prover!Proving
  <2> QED BY <1>a, <2>1, <2>2, <2>3, MoveKeeps
<1>5. ASSUME NEW t \in Tx, Prover!Start(t) \/ Prover!Ask(t) \/ Prover!Stop(t) PROVE Undisturbed'
  <2>1. Moves(t, pc'[t]) /\ pc[t] \in Prover!Proving \ {"write"} /\ UNCHANGED <<plan, files>>
    BY <1>5 DEF Prover!Start, Prover!StartDaemon, Prover!StartFails, Prover!Ask, Prover!Stop, Prover!stop_real_kernel_prove_daemon, Prover!AttemptFails, Prover!Return,
       Prover!Goto, Moves, Prover!Proving
  <2>2. pc'[t] \in {"ask", "wait", "stop", "start", "done"} /\ (pc'[t] = "wait" => reply' = "none")
    BY <1>5 DEF Prover!Start, Prover!StartDaemon, Prover!StartFails, Prover!Ask, Prover!Stop, Prover!AttemptFails, Prover!Return, Prover!Goto, Discipline
  <2>3. Delivered(t)'
    BY <1>c, <1>5, <2>1 DEF Prover!Start, Prover!Ask, Prover!Stop, Prover!AttemptFails, Prover!Return, Prover!Goto, Delivered
  <2>4. Carried(t)'
    BY <1>b, <1>c, <2>1, <2>2 DEF Carried, Prover!Proving
  <2> QED BY <1>a, <2>1, <2>3, <2>4, MoveKeeps
<1>6. ASSUME NEW t \in Tx, Prover!TakeReply(t) PROVE Undisturbed'
  <2>1. Moves(t, pc'[t]) /\ pc[t] \in Prover!Proving \ {"write"} /\ UNCHANGED <<plan, files>>
    BY <1>6 DEF Prover!TakeReply, Prover!AttemptFails, Prover!Return, Prover!Goto, Moves, Prover!Proving
  <2>2. pc'[t] \in {"read", "stop", "done"} /\ (pc'[t] = "read" => pc[t] = "wait" /\ reply = "ok")
    BY <1>6 DEF Prover!TakeReply, Prover!AttemptFails, Prover!Return, Prover!Goto
  <2>3. Delivered(t)'
    BY <1>c, <1>6, <2>1 DEF Prover!TakeReply, Prover!AttemptFails, Prover!Return, Prover!Goto, Delivered
  <2>4. Carried(t)'
    BY <1>b, <1>c, <2>1, <2>2 DEF Carried, Prover!Proving
  <2> QED BY <1>a, <2>1, <2>3, <2>4, MoveKeeps
<1>7. ASSUME NEW t \in Tx, Prover!ReadResponse(t) PROVE Undisturbed'
  <2>1. Moves(t, pc'[t]) /\ pc[t] \in Prover!Proving \ {"write"} /\ UNCHANGED <<plan, files>>
    BY <1>7 DEF Prover!ReadResponse, Prover!Return, Prover!Goto, Moves, Prover!Proving
  <2>2. Delivered(t)'
    BY <1>b, <1>c, <1>7, <2>1 DEF Prover!ReadResponse, Prover!Return, Prover!Goto, Delivered, Carried, Prover!Real
  <2>3. Carried(t)'
    BY <1>b, <1>c, <1>7, <2>1 DEF Prover!ReadResponse, Prover!Return, Prover!Goto, Carried, Prover!Proving
  <2> QED BY <1>a, <2>1, <2>2, <2>3, MoveKeeps
<1>8. ASSUME NEW t \in Tx, Prover!WriteSteps(t) \/ Prover!RunClientIvc(t) PROVE Undisturbed'
  <2>1. Moves(t, pc'[t]) /\ pc[t] \in Prover!Proving \ {"write"} /\ UNCHANGED <<plan, got>>
    BY <1>8 DEF Prover!WriteSteps, Prover!RunClientIvc, Prover!Return, Prover!Goto, Moves, Prover!Proving
  <2>2. Delivered(t)'
    BY <1>c, <1>8, <2>1 DEF Prover!WriteSteps, Prover!RunClientIvc, Prover!Return, Prover!Goto, Delivered
  <2>3. Carried(t)'
    BY <1>b, <1>c, <1>8, <2>1 DEF Prover!WriteSteps, Prover!RunClientIvc, Prover!Write, Prover!Return, Prover!Goto, Carried, Prover!Proving, Prover!File
  <2> QED BY <1>a, <2>1, <2>2, <2>3, MoveKeeps
<1>9. ASSUME NEW t \in Tx, Prover!CollectClientIvc(t) PROVE Undisturbed'
  <2>1. Moves(t, "done") /\ pc[t] \in Prover!Proving /\ UNCHANGED <<plan, got>> /\ pc'[t] = "done"
    BY <1>9 DEF Prover!CollectClientIvc, Prover!Return, Prover!Goto, Moves, Prover!Proving
  <2>2. Delivered(t)'
    BY <1>b, <1>c, <1>9, <2>1 DEF Prover!CollectClientIvc, Prover!Return, Delivered, Carried, Prover!Real
  <2>3. Carried(t)'
    BY <2>1 DEF Carried, Prover!Proving
  <2> QED BY <1>a, <2>1, <2>2, <2>3, MoveKeeps
<1>10. ASSUME NEW b \in BOOLEAN, Prover!SetProverEnabled(b) PROVE Undisturbed'
  <2>1. UNCHANGED <<pc, plan, files, got, result, reply>> /\ \A t \in Tx : pc[t] \in {"idle", "done"}
    BY Zenon, <1>10 DEF Prover!SetProverEnabled
  <2>2. ASSUME NEW t \in Tx PROVE Carried(t)' /\ Delivered(t)'
    BY <1>a, <1>b, <2>1 DEF Carried, Delivered, Prover!Proving, Undisturbed
  <2> QED BY <1>a, <2>1, <2>2 DEF Undisturbed, Alone
<1>11. CASE Prover!Toggle \/ Prover!DaemonExits
  <2>1. UNCHANGED <<pc, plan, files, got, result, enabled>> /\ (reply' = reply \/ reply' # "ok")
    BY <1>11 DEF Prover!Toggle, Prover!StartDaemon, Prover!StartFails, Prover!stop_real_kernel_prove_daemon, Prover!DaemonExits
  <2> QED BY <1>a, <2>1, OthersKept DEF Undisturbed, Alone
<1>12. CASE Prover!DaemonProves
  <2>1. UNCHANGED <<pc, plan, got, result, enabled>>
    BY <1>12 DEF Prover!DaemonProves
  <2>2. PICK t \in Tx : pc[t] = "wait" /\ lock = t
    BY <1>12 DEF Prover!DaemonProves, Discipline
  <2>3. Carried(t)'
    BY <1>b, <1>c, <1>12, <2>1, <2>2 DEF Prover!DaemonProves, Prover!Write, Carried, Prover!Proving, Prover!File
  <2>4. Delivered(t)'
    BY <1>c, <2>1, <2>2 DEF Delivered, Prover!Proving
  <2>5. ASSUME NEW u \in Tx, u # t PROVE Carried(u)' /\ Delivered(u)'
    <3>1. pc[u] \notin Prover!Proving
      BY <1>a, <2>2, <2>5 DEF Undisturbed, Alone, Prover!Proving
    <3> QED BY <1>a, <1>b, <2>1, <3>1 DEF Carried, Delivered, Prover!Proving, Undisturbed
  <2> QED BY <1>a, <2>1, <2>3, <2>4, <2>5 DEF Undisturbed, Alone
<1>13. CASE UNCHANGED Prover!vars
  BY <1>a, <1>13, OthersKept DEF Undisturbed, Alone, Prover!vars
<1> QED BY Zenon, <1>1, <1>2, <1>3, <1>4, <1>5, <1>6, <1>7, <1>8, <1>9, <1>10, <1>11, <1>12, <1>13 DEF Prover!Next, Prover!Step, Prover!Finished

-----------------------------------------------------------------------------
LEMMA ProverInit == ASSUME ProverBounds, Prover!Init PROVE ProverInv
<1> USE DEF Prover!Init, ProverBounds
<1>1. Flags
  BY Zenon DEF Flags
<1>2. Places
  BY DEF Places, ProverLabel
<1>3. Values
  BY DEF Values, Prover!Plan
<1>4. Discipline
  BY DEF Discipline
<1>5. Undisturbed
  BY DEF Undisturbed, Alone, Carried, Delivered, Prover!Proving
<1> QED BY Zenon, <1>1, <1>2, <1>3, <1>4, <1>5 DEF ProverInv

(* The parts together.                                                   *)
LEMMA ProverStep == ASSUME ProverBounds, ProverInv, [Prover!Next]_(Prover!vars) PROVE ProverInv'
  BY Zenon, ProverFlags, PlacesStep, ValuesStep, DisciplineStep, UndisturbedStep DEF ProverInv

(* Every variable of the prover keeps its type.                          *)
THEOREM ProverTypeCorrect == ASSUME ProverBounds PROVE Prover!Spec => []Prover!TypeOK
<1>1. ASSUME ProverInv PROVE Prover!TypeOK
  BY <1>1 DEF ProverInv, Flags, Places, Values, Prover!TypeOK, ProverLabel
<1> QED BY <1>1, ProverInit, ProverStep, PTL DEF Prover!Spec

(* A real proof that prove_tx returns is of its own transaction, with    *)
(* its own public inputs, and covers every call, for any number of       *)
(* transactions and faults, as long as no second call was inside the     *)
(* helpers, the flag did not change meanwhile and the account contract   *)
(* was in the store (the files and the daemon are shared by all calls).  *)
THEOREM ProofsAreOwn == ASSUME ProverBounds PROVE Prover!Spec => []Prover!ProofIsOwn
<1>1. ASSUME ProverInv PROVE Prover!ProofIsOwn
  <2> SUFFICES ASSUME NEW t \in Tx, result[t] # None, ~disturbed, result[t].kind = "real"
               PROVE  /\ result[t].proof.tx = t /\ result[t].inputs.tx = t
                      /\ plan[t].known => result[t].proof.calls = 1..NumCalls
    BY DEF Prover!ProofIsOwn
  <2>1. Delivered(t)
    BY <1>1 DEF ProverInv, Undisturbed
  <2> QED BY <2>1 DEF Delivered, Covers, Prover!Request, Prover!kernel_entrypoint
<1> QED BY <1>1, ProverInit, ProverStep, PTL DEF Prover!Spec
=============================================================================
