-------------------------- MODULE SenderTaggingStore --------------------------
(***************************************************************************)
(* stores/sender_tagging_store.rs: the indexes a sender has used to tag    *)
(* its logs, per directional secret.  get_next_index, which the oracle     *)
(* calls for every log of every transaction being executed, reads in one   *)
(* step and writes in another; the operations that follow a transaction's  *)
(* fate have no concurrent callers and are atomic.                         *)
(***************************************************************************)
EXTENDS Naturals, FiniteSetsExt

CONSTANTS
    Task,       \* private executions
    Secret,
    Tx,
    ZeroTx,     \* TxHash::zero(), the placeholder of get_next_index
    WindowLen,  \* UNFINALIZED_TAGGING_INDEXES_WINDOW_LEN
    MaxIndex    \* bound

VARIABLES
    finalized,  \* the last finalized index of each secret, 0 if there is none
    pending,    \* the PendingTagIndex entries of each secret
    issued,     \* the indexes get_next_index has returned
    read        \* what the get_next_index call of each task has read

vars == <<finalized, pending, issued, read>>

Index == 1..MaxIndex
PendingTagIndex == [index : Index, tx : Tx \union {ZeroTx}]
Reading == [secret : Secret, next : Index, list : SUBSET PendingTagIndex]
Nothing == [next |-> 0]

TypeOK ==
    /\ finalized \in [Secret -> 0..MaxIndex]
    /\ pending \in [Secret -> SUBSET PendingTagIndex]
    /\ issued \in [Secret -> SUBSET Index]
    /\ read \in [Task -> Reading \union {Nothing}]

Init ==
    /\ finalized = [s \in Secret |-> 0]
    /\ pending = [s \in Secret |-> {}]
    /\ issued = [s \in Secret |-> {}]
    /\ read = [t \in Task |-> Nothing]

Indexes(entries) == {e.index : e \in entries}

(* Mutant: what is finalized does not count as used. *)
LastUsedIndexPending(s) == Max(Indexes(pending[s]) \union {0})

LastUsedIndex(s) == Max(Indexes(pending[s]) \union {finalized[s]})

GetNextIndex(t, s) ==
    /\ read[t] = Nothing
    /\ LastUsedIndex(s) < MaxIndex
    /\ read' = [read EXCEPT ![t] = [secret |-> s, next |-> LastUsedIndex(s) + 1, list |-> pending[s]]]
    /\ UNCHANGED <<finalized, pending, issued>>

(* ... and stores the index as pending, for no transaction in particular. *)
PutNextIndex(t) ==
    /\ read[t] # Nothing
    /\ LET r == read[t] IN
         /\ pending' = [pending EXCEPT ![r.secret] = r.list \union {[index |-> r.next, tx |-> ZeroTx]}]
         /\ issued' = [issued EXCEPT ![r.secret] = @ \union {r.next}]
    /\ read' = [read EXCEPT ![t] = Nothing]
    /\ UNCHANGED finalized

(* Mutant: a second index for the same transaction is let through. *)
AcceptableTwice(s, i, x) == i > finalized[s] /\ i <= finalized[s] + WindowLen

Acceptable(s, i, x) ==
    /\ i > finalized[s]
    /\ i <= finalized[s] + WindowLen
    /\ \A e \in pending[s] : e.tx = x => e.index = i

(* store_pending_indexes: the first pre-tag that is not acceptable makes the *)
(* call fail; the ones before it are stored already.                         *)
StorePendingIndexes(tags, x) ==
    /\ \E done \in SUBSET DOMAIN tags :
         /\ \A s \in done : Acceptable(s, tags[s], x)
         /\ done = DOMAIN tags \/ \E s \in DOMAIN tags \ done : ~Acceptable(s, tags[s], x)
         /\ pending' = [s \in Secret |->
                          IF s \in done
                          THEN {e \in pending[s] : e.tx # x} \union {[index |-> tags[s], tx |-> x]}
                          ELSE pending[s]]
    /\ UNCHANGED <<finalized, issued, read>>

DropPendingIndexes(txs) ==
    /\ pending' = [s \in Secret |-> {e \in pending[s] : e.tx \notin txs}]
    /\ UNCHANGED <<finalized, issued, read>>

(* finalize_pending_indexes: raise the finalized index, never lower it, and  *)
(* drop the pending entries up to it.                                        *)
FinalizePendingIndexes(s, upTo) ==
    /\ finalized' = [finalized EXCEPT ![s] = IF upTo > @ THEN upTo ELSE @]
    /\ pending' = [pending EXCEPT ![s] = {e \in @ : e.index > upTo}]
    /\ UNCHANGED <<issued, read>>

Next ==
    \/ \E t \in Task, s \in Secret : GetNextIndex(t, s)
    \/ \E t \in Task : PutNextIndex(t)
    \/ /\ \A t \in Task : read[t] = Nothing
       /\ \/ \E D \in SUBSET Secret \ {{}}, x \in Tx : \E tags \in [D -> Index] : StorePendingIndexes(tags, x)
          \/ \E txs \in SUBSET Tx \ {{}} : DropPendingIndexes(txs)
          \/ \E s \in Secret, i \in Index : FinalizePendingIndexes(s, i)

Spec == Init /\ [][Next]_vars

-----------------------------------------------------------------------------
(* get_next_index never returns an index of the secret twice, whatever was   *)
(* stored, dropped or finalized in between: two logs never share a tag.      *)
IssuedOnceStep ==
    \A t \in Task : PutNextIndex(t) => read[t].next \notin issued[read[t].secret]

IssuedOnce == [][IssuedOnceStep]_vars

(* A transaction's pending index of a secret is not replaced by another,     *)
(* however often its pre-tags are stored.                                    *)
TxKeepsIndexStep ==
    \A s \in Secret : \A e \in pending[s] : e.tx # ZeroTx =>
        \A d \in pending'[s] : d.tx = e.tx => d.index = e.index

(* Both: an index, once given out or stored, keeps its one use. *)
IndexesStable == [][IssuedOnceStep /\ TxKeepsIndexStep]_vars
=============================================================================
