--------------------------- MODULE PrivateEventStore ---------------------------
(***************************************************************************)
(* stores/private_event_store.rs, one read or write of the key-value store  *)
(* at a time, with what comes before a write (sync/event_service.rs) and    *)
(* around a query (sync/event_filter.rs and get_private_events of           *)
(* embedded_pxe.rs).  An event is kept under its siloed commitment, its key *)
(* listed under contract and selector (for queries) and under its block     *)
(* (for rollbacks).  The process may stop between any two writes.           *)
(***************************************************************************)
EXTENDS Naturals, Sequences, FiniteSets, SequencesExt

CONSTANTS
    Event,      \* siloed event commitments
    Scope,
    KeyOf,      \* the contract and selector of an event
    TxOf,       \* the transaction that emits an event
    IndexOf,    \* the place of that transaction in its block
    Committed,  \* events whose commitment is a nullifier of their transaction
    MaxBlock    \* bound: blocks, and the anchor of every query

VARIABLES
    events,     \* event:<id>
    keyIdx,     \* event_idx:cs:<contract>_<selector>, <<>> if absent
    blockIdx,   \* event_idx:block:<n>, <<>> if absent
    op,         \* the call in progress
    cut,        \* events whose store call the process stopped in the middle of
    hidden,     \* events a stopped rollback had unindexed but not deleted
    rolledTo    \* the last rollback that completed, MaxBlock once a store follows

vars == <<events, keyIdx, blockIdx, op, cut, hidden, rolledTo>>

Block == 1..MaxBlock
Key == {KeyOf[e] : e \in Event}
None == [block |-> 0, scopes |-> {}]
Idle == [at |-> "idle"]

TypeOK ==
    /\ events \in [Event -> [block : 0..MaxBlock, scopes : SUBSET Scope]]
    /\ \A k \in Key : keyIdx[k] \in Seq(Event) /\ IsInjective(keyIdx[k])
    /\ \A b \in Block : blockIdx[b] \in Seq(Event) /\ IsInjective(blockIdx[b])
    /\ op.at \in {"idle", "put", "key", "block", "walk", "unindex", "delete"}
    /\ cut \subseteq Event /\ hidden \subseteq Event /\ rolledTo \in 0..MaxBlock

Init ==
    /\ events = [e \in Event |-> None]
    /\ keyIdx = [k \in Key |-> <<>>]
    /\ blockIdx = [b \in Block |-> <<>>]
    /\ op = Idle
    /\ cut = {} /\ hidden = {} /\ rolledTo = MaxBlock

-----------------------------------------------------------------------------
(* validate_and_store_event. *)

(* What the node answers to get_tx_effect: the effect itself is under "data". *)
TxEffect(e, b) ==
    [l2BlockNumber |-> b, txIndexInBlock |-> IndexOf[e],
     data |-> [nullifiers |-> {x \in Committed : TxOf[x] = TxOf[e]}]]

(* The check is made only when the answer has nullifiers at its top level. *)
NullifierMissing(effect, e) ==
    "nullifiers" \in DOMAIN effect /\ e \notin effect.nullifiers

(* The anchor is at the last block; the event's transaction is in block b.   *)
StoreEvent(e, b, s) ==
    /\ op = Idle
    /\ ~NullifierMissing(TxEffect(e, b), e)
    /\ op' = [at |-> "put", event |-> e, block |-> b, scope |-> s]
    /\ UNCHANGED <<events, keyIdx, blockIdx, cut, hidden, rolledTo>>

(* An event that is already there keeps its block, and its indexes are left  *)
(* as they are.                                                              *)
MergeScope ==
    /\ op.at = "put"
    /\ events[op.event] # None
    /\ events' = [events EXCEPT ![op.event].scopes = @ \union {op.scope}]
    /\ op' = Idle
    /\ UNCHANGED <<keyIdx, blockIdx, cut, hidden, rolledTo>>

PutEvent ==
    /\ op.at = "put"
    /\ events[op.event] = None
    /\ events' = [events EXCEPT ![op.event] = [block |-> op.block, scopes |-> {op.scope}]]
    /\ op' = [op EXCEPT !.at = "key"]
    /\ rolledTo' = MaxBlock
    /\ UNCHANGED <<keyIdx, blockIdx, cut, hidden>>

Listed(list, e) == IF e \in ToSet(list) THEN list ELSE Append(list, e)

PutKeyIndex ==
    /\ op.at = "key"
    /\ keyIdx' = [keyIdx EXCEPT ![KeyOf[op.event]] = Listed(@, op.event)]
    /\ op' = [op EXCEPT !.at = "block"]
    /\ UNCHANGED <<events, blockIdx, cut, hidden, rolledTo>>

PutBlockIndex ==
    /\ op.at = "block"
    /\ blockIdx' = [blockIdx EXCEPT ![op.block] = Listed(@, op.event)]
    /\ op' = Idle
    /\ UNCHANGED <<events, keyIdx, cut, hidden, rolledTo>>

-----------------------------------------------------------------------------
(* rollback. *)

(* Mutant: the first block after the target is kept. *)
AboveOff(target) == {b \in Block : b > target + 1}

Above(target) == {b \in Block : b > target}

(* The block keys and their lists are read once, at the start. *)
Rollback(target) ==
    /\ op = Idle
    /\ op' = [at |-> "walk", target |-> target,
              todo |-> [b \in {b \in Above(target) : blockIdx[b] # <<>>} |-> blockIdx[b]]]
    /\ UNCHANGED <<events, keyIdx, blockIdx, cut, hidden, rolledTo>>

(* An event that is gone is deleted once more, the index left alone. *)
NextEvent(b) ==
    /\ op.at = "walk"
    /\ b \in DOMAIN op.todo
    /\ op.todo[b] # <<>>
    /\ LET e == Head(op.todo[b]) IN
       op' = [at |-> IF events[e] = None THEN "delete" ELSE "unindex", event |-> e,
              target |-> op.target, todo |-> [op.todo EXCEPT ![b] = Tail(@)]]
    /\ UNCHANGED <<events, keyIdx, blockIdx, cut, hidden, rolledTo>>

Unindex ==
    /\ op.at = "unindex"
    /\ keyIdx' = [keyIdx EXCEPT ![KeyOf[op.event]] = Remove(@, op.event)]
    /\ op' = [op EXCEPT !.at = "delete"]
    /\ UNCHANGED <<events, blockIdx, cut, hidden, rolledTo>>

DeleteEvent ==
    /\ op.at = "delete"
    /\ events' = [events EXCEPT ![op.event] = None]
    /\ cut' = cut \ {op.event}
    /\ hidden' = hidden \ {op.event}
    /\ op' = [at |-> "walk", target |-> op.target, todo |-> op.todo]
    /\ UNCHANGED <<keyIdx, blockIdx, rolledTo>>

DeleteBlockKey(b) ==
    /\ op.at = "walk"
    /\ b \in DOMAIN op.todo
    /\ op.todo[b] = <<>>
    /\ blockIdx' = [blockIdx EXCEPT ![b] = <<>>]
    /\ op' = [op EXCEPT !.todo = Restrict(@, DOMAIN @ \ {b})]
    /\ UNCHANGED <<events, keyIdx, cut, hidden, rolledTo>>

FinishRollback ==
    /\ op.at = "walk"
    /\ DOMAIN op.todo = {}
    /\ rolledTo' = op.target
    /\ op' = Idle
    /\ UNCHANGED <<events, keyIdx, blockIdx, cut, hidden>>

(* The process stops and starts again. *)
Crash ==
    /\ op # Idle
    /\ op' = Idle
    /\ cut' = IF op.at \in {"key", "block"} THEN cut \union {op.event} ELSE cut
    /\ hidden' = IF op.at = "delete" /\ events[op.event] # None
                 THEN hidden \union {op.event} ELSE hidden
    /\ UNCHANGED <<events, keyIdx, blockIdx, rolledTo>>

Next ==
    \/ \E e \in Event, b \in Block, s \in Scope : StoreEvent(e, b, s)
    \/ MergeScope \/ PutEvent \/ PutKeyIndex \/ PutBlockIndex
    \/ \E b \in 0..MaxBlock : Rollback(b)
    \/ \E b \in Block : NextEvent(b) \/ DeleteBlockKey(b)
    \/ Unindex \/ DeleteEvent \/ FinishRollback
    \/ Crash

Spec == Init /\ [][Next]_vars

-----------------------------------------------------------------------------
(* Queries. *)

(* A caller's filter; 0 stands for a bound that is not given. *)
Filter == [key : Key, from : 0..MaxBlock + 1, to : 0..MaxBlock + 2, scopes : SUBSET Scope,
           tx : {"any"} \union {TxOf[e] : e \in Event}]

FromBlock(f) == IF f.from = 0 THEN 1 ELSE f.from
ToBlock(f) == IF f.to = 0 THEN MaxBlock + 1 ELSE f.to

(* PrivateEventFilterValidator::validate: what it refuses, ... *)
Refused(f) == f.scopes = {} \/ ToBlock(f) > MaxBlock + 1 \/ FromBlock(f) >= ToBlock(f)

(* Mutant: the exclusive bound is handed on as the inclusive one. *)
ValidatedInclusive(f) == [f EXCEPT !.from = FromBlock(f), !.to = ToBlock(f)]

(* ... and the filter of the store it makes of the rest, bounds inclusive. *)
Validated(f) == [f EXCEPT !.from = FromBlock(f), !.to = ToBlock(f) - 1]

Kept(e, q) ==
    /\ events[e] # None
    /\ q.from <= events[e].block /\ events[e].block <= q.to
    /\ q.scopes = {} \/ events[e].scopes \intersect q.scopes # {}
    /\ q.tx \in {"any", TxOf[e]}

Before(d, e) ==
    \/ events[d].block < events[e].block
    \/ events[d].block = events[e].block /\ IndexOf[d] < IndexOf[e]

(* get_private_events of the store; its sort is stable. *)
Found(q) ==
    LET kept == SelectSeq(keyIdx[q.key], LAMBDA e : Kept(e, q))
        rank(i) == Cardinality({j \in DOMAIN kept : \/ Before(kept[j], kept[i])
                                                    \/ ~Before(kept[i], kept[j]) /\ j < i}) + 1
    IN  [r \in DOMAIN kept |-> kept[CHOOSE i \in DOMAIN kept : rank(i) = r]]

-----------------------------------------------------------------------------
(* A query returns, in block order, exactly the stored events of the range   *)
(* [from, to) that a scope asked for can read: no event is lost from the     *)
(* index by stores, rollbacks and stops, unless its own store was cut short  *)
(* or a rollback that was about to delete it.                                *)
(* (get_private_events, private_event_store.rs and event_filter.rs.)         *)
QueryExact ==
    op = Idle => \A f \in Filter : Refused(f) \/
        LET found == Found(Validated(f))
            asked == {e \in Event : /\ KeyOf[e] = f.key /\ events[e] # None
                                    /\ (f.from = 0 \/ events[e].block >= f.from)
                                    /\ (f.to = 0 \/ events[e].block < f.to)
                                    /\ events[e].scopes \intersect f.scopes # {}
                                    /\ f.tx \in {"any", TxOf[e]}}
        IN  /\ asked \ (cut \union hidden) \subseteq ToSet(found) /\ ToSet(found) \subseteq asked
            /\ \A i, j \in DOMAIN found : i < j => ~Before(found[j], found[i])

(* When a rollback has completed, also one that repeats a rollback the       *)
(* process stopped in, no event of a block above its target is left, but for *)
(* events whose own store was cut short: those are in no block list and stay *)
(* for good.  (rollback, private_event_store.rs.)                            *)
RollbackLeavesNone ==
    op = Idle => \A e \in Event : events[e].block > rolledTo => e \in cut

(* Every stored event is committed to by a nullifier of its transaction, as  *)
(* the comment of validate_and_store_event says it validates.  It does not   *)
(* hold: the nullifiers are looked for where the node does not put them.     *)
StoredEventsCommitted == \A e \in Event : events[e] # None => e \in Committed
=============================================================================
