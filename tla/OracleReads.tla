------------------------------ MODULE OracleReads ------------------------------
(***************************************************************************)
(* What a running function reads from the node while the chain goes on: the *)
(* oracle calls of a utility function (execution/utility_oracle.rs) and of  *)
(* a private one (execution/oracle.rs) that answer with public storage, a   *)
(* membership witness or the existence of a nullifier.  A function runs at  *)
(* an anchor block, whose header its circuit checks everything against; a   *)
(* call is one or more requests to the node, and blocks are added and       *)
(* pruned between them.                                                     *)
(***************************************************************************)
EXTENDS Naturals, Sequences, SequencesExt

CONSTANTS
    Block, Genesis,
    Parent,         \* the parent of every other block
    Storage,        \* public storage after a block: a function on Slot
    Nullifiers,     \* siloed nullifiers after a block
    Messages,       \* L1 to L2 messages after a block
    Contract,       \* the contract that runs, a number
    Inner, Message, \* nullifiers it may ask for, messages it may consume
    Modulus, Word,  \* field modulus and 2^256: Modulus < Word
    MaxElements,    \* bound: elements of one storage read
    MaxMoves        \* bound: blocks added or pruned

VARIABLES
    chain,      \* the node's blocks, genesis first
    exec,       \* the function that runs: its kind, anchor block and number
    pending,    \* nullifiers it has emitted
    call,       \* oracle call in progress
    answers,    \* what the node has answered to it so far
    result,     \* what the last call returned
    moves,
    left        \* the anchor was off the chain at some time since it was read

vars == <<chain, exec, pending, call, answers, result, moves, left>>

Slot == 0..(Modulus - 1)
Kinds == {"utility", "private"}
silo_nullifier(inner) == <<Contract>> \o inner
OnChain(b) == b \in ToSet(chain)
Idle == [name |-> "none"]
Ok(value) == [ok |-> TRUE, value |-> value]
Err == [ok |-> FALSE]

-----------------------------------------------------------------------------
(* The node (external): the block a request is about, if it has it, and its  *)
(* answer.  A witness proves membership under the root of a tree, which      *)
(* stands for the tree's contents.                                           *)
block_hash_param_json(b) == [by |-> "hash", hash |-> b]
block_param_json(n) == IF n = 0 THEN [by |-> "latest"] ELSE [by |-> "number", number |-> n]

BlockAt(at) ==
    CASE at.by = "latest" -> {Last(chain)}
      [] at.by = "number" -> {chain[i] : i \in {at.number + 1} \intersect DOMAIN chain}
      [] at.by = "hash" -> {at.hash} \intersect ToSet(chain)

Witness(root, key) == [found |-> TRUE, root |-> root, key |-> key]
NoWitness == [found |-> FALSE]

NodeAnswer(q, b) ==
    CASE q.what = "storage" -> Storage[b][q.key]
      [] q.what = "nullifier" ->
            IF q.key \in Nullifiers[b] THEN Witness(Nullifiers[b], q.key) ELSE NoWitness
      [] q.what = "low" -> Witness(Nullifiers[b], q.key)
      [] q.what = "data" -> Witness(Storage[b], q.key)
      [] q.what = "message" ->
            IF q.key \in Messages[b] THEN Witness(Messages[b], q.key) ELSE NoWitness

Query(what, at, key) == [what |-> what, at |-> at, key |-> key]

(* The node client's requests. *)
get_public_storage_at(n, slot) == Query("storage", block_param_json(n), slot)
get_public_storage_at_by_hash(b, slot) == Query("storage", block_hash_param_json(b), slot)
NullifierWitnessAt(n, key) == Query("nullifier", block_param_json(n), key)
LowNullifierWitnessAt(n, key) == Query("low", block_param_json(n), key)
get_public_data_witness_by_hash(b, slot) == Query("data", block_hash_param_json(b), slot)
MessageWitnessAt(n, message) == Query("message", block_param_json(n), message)

-----------------------------------------------------------------------------
(* The calls, and the requests each makes.  A storage read names a block,    *)
(* a first slot and a number of elements, or, in older bytecode, one slot.   *)
slot_with_offset(start, offset) == ((start + offset) % Word) % Modulus

(* Mutant: every element is read at the latest block. *)
StorageReadsLatest(c) ==
    [i \in 1..(IF c.form = "range" /\ c.count > 1 THEN c.count ELSE 1) |->
        get_public_storage_at(0, slot_with_offset(c.slot, i - 1))]

StorageReads(c) ==
    IF c.form = "range"
      THEN [i \in 1..(IF c.count > 1 THEN c.count ELSE 1) |->
                get_public_storage_at_by_hash(c.block, slot_with_offset(c.slot, i - 1))]
      ELSE <<get_public_storage_at(0, c.slot)>>

(* Mutant: the nullifier is looked up as the contract passes it. *)
CheckNullifierUnsiloed(c) == <<NullifierWitnessAt(0, c.key)>>

check_nullifier_exists(c) == <<NullifierWitnessAt(0, silo_nullifier(c.key))>>

(* The block of the call is not used. *)
get_nullifier_membership_witness(c) == <<NullifierWitnessAt(0, c.key)>>
get_low_nullifier_membership_witness(c) == <<LowNullifierWitnessAt(0, c.key)>>
get_public_data_witness(c) == <<get_public_data_witness_by_hash(c.block, c.slot)>>

UtilityReads(c) ==
    CASE c.name = "storageRead" -> StorageReads(c)
      [] c.name = "checkNullifierExists" -> check_nullifier_exists(c)
      [] c.name = "getNullifierMembershipWitness" -> get_nullifier_membership_witness(c)
      [] c.name = "getLowNullifierMembershipWitness" -> get_low_nullifier_membership_witness(c)
      [] c.name = "getPublicDataWitness" -> get_public_data_witness(c)
      [] OTHER -> <<>>      \* also a name it does not know

(* The private oracle has storage reads and public data witnesses of the     *)
(* same form.                                                                *)
PrivateStorageReads(c) == StorageReads(c)
PrivateDataWitness(c) == get_public_data_witness(c)

(* It looks among the nullifiers of the execution first, which are not       *)
(* siloed.                                                                   *)
PrivateNullifierReads(c) ==
    IF silo_nullifier(c.key) \in pending THEN <<>> ELSE <<NullifierWitnessAt(0, silo_nullifier(c.key))>>

(* The message must be in the tree of the anchor's number: 0, and so the     *)
(* latest block, when the header has none.                                   *)
get_l1_to_l2_membership_witness(c) ==
    <<MessageWitnessAt(exec.number, c.message)>>

(* It asks for the witness, and returns nothing. *)
PrivateNullifierWitness(c) == <<NullifierWitnessAt(0, c.key)>>

PrivateReads(c) ==
    CASE c.name = "storageRead" -> PrivateStorageReads(c)
      [] c.name = "checkNullifierExists" -> PrivateNullifierReads(c)
      [] c.name = "getNullifierMembershipWitness" -> PrivateNullifierWitness(c)
      [] c.name = "getPublicDataWitness" -> PrivateDataWitness(c)
      [] c.name = "getL1ToL2MembershipWitness" -> get_l1_to_l2_membership_witness(c)
      [] OTHER -> <<>>

Reads(c) == IF exec.kind = "utility" THEN UtilityReads(c) ELSE PrivateReads(c)

-----------------------------------------------------------------------------
(* What a call returns, from the answers. *)
IsSome(as) == as[1].found
WitnessOrZeros(as) == as[1]     \* zeros when there is none
BlockHeader == exec.anchor

UtilityResult(c, as) ==
    CASE c.name = "storageRead" -> Ok(as)
      [] c.name = "checkNullifierExists" -> Ok(IsSome(as))
      [] c.name \in {"getNullifierMembershipWitness", "getLowNullifierMembershipWitness",
                     "getPublicDataWitness"} -> Ok(WitnessOrZeros(as))
      [] c.name = "getBlockHeader" -> Ok(BlockHeader)
      [] OTHER -> Ok(<<>>)

is_nullifier_pending(c) == c.key \in pending
MessageWitness(as) == IF as[1].found THEN Ok(as[1]) ELSE Err

PrivateResult(c, as) ==
    CASE c.name = "storageRead" -> Ok(as)
      [] c.name = "checkNullifierExists" -> Ok(as = <<>> \/ IsSome(as))
      [] c.name = "isNullifierPending" -> Ok(is_nullifier_pending(c))
      [] c.name = "getPublicDataWitness" -> Ok(WitnessOrZeros(as))
      [] c.name = "getL1ToL2MembershipWitness" -> MessageWitness(as)
      [] c.name \in {"getBlockHeader", "getNullifierMembershipWitness"} -> Ok(<<>>)
      [] OTHER -> Err       \* a name it does not know

Result(c, as) == IF exec.kind = "utility" THEN UtilityResult(c, as) ELSE PrivateResult(c, as)

-----------------------------------------------------------------------------
TypeOK ==
    /\ ToSet(chain) \subseteq Block
    /\ exec.kind \in Kinds /\ exec.anchor \in Block /\ exec.number \in Nat
    /\ \A n \in pending : n \in Inner
    /\ Len(answers) <= MaxElements
    /\ result.ok \in BOOLEAN
    /\ moves \in 0..MaxMoves /\ left \in BOOLEAN

Init ==
    /\ chain \in {<<Genesis>>} \union {<<Genesis, b>> : b \in {x \in Block \ {Genesis} : Parent[x] = Genesis}}
    /\ exec \in {[kind |-> k, anchor |-> Last(chain), number |-> Len(chain) - 1] : k \in Kinds}
    /\ pending = {} /\ call = Idle /\ answers = <<>> /\ result = Err
    /\ moves = 0 /\ left = FALSE

(* The blocks a function may name: those its header lets it know. *)
Known == {b \in Block : b = exec.anchor \/ (exec.anchor # Genesis /\ b = Parent[exec.anchor])}

Calls ==
    {[name |-> "storageRead", form |-> "range", block |-> b, slot |-> s, count |-> n] :
        b \in Known, s \in Slot, n \in 0..MaxElements}
    \union {[name |-> "storageRead", form |-> "one", slot |-> s] : s \in Slot}
    \union {[name |-> n, key |-> k] : n \in {"checkNullifierExists", "isNullifierPending"}, k \in Inner}
    \union {[name |-> n, key |-> silo_nullifier(k)] :
        n \in {"getNullifierMembershipWitness", "getLowNullifierMembershipWitness"}, k \in Inner}
    \union {[name |-> "getPublicDataWitness", block |-> b, slot |-> s] : b \in Known, s \in Slot}
    \union {[name |-> "getL1ToL2MembershipWitness", message |-> m] : m \in Message}
    \union {[name |-> "getBlockHeader"]}

-----------------------------------------------------------------------------
Begin(c) ==
    /\ call = Idle
    /\ call' = c /\ result' = Err
    /\ UNCHANGED <<chain, exec, pending, answers, moves, left>>

(* One request, answered for the block the node then has. *)
Read ==
    /\ call # Idle /\ Len(answers) < Len(Reads(call))
    /\ LET q == Reads(call)[Len(answers) + 1] IN
       \E b \in BlockAt(q.at) : answers' = Append(answers, NodeAnswer(q, b))
    /\ UNCHANGED <<chain, exec, pending, call, result, moves, left>>

(* A request for a block the node does not have fails, and so may any other: *)
(* the call is over, and with it the function.                               *)
ReadFails ==
    /\ call # Idle /\ Len(answers) < Len(Reads(call))
    /\ call' = Idle /\ answers' = <<>> /\ result' = Err
    /\ UNCHANGED <<chain, exec, pending, moves, left>>

Return ==
    /\ call # Idle /\ Len(answers) = Len(Reads(call))
    /\ LET returned == Result(call, answers) IN
       result' = IF returned.ok THEN [ok |-> TRUE, of |-> call, value |-> returned.value] ELSE Err
    /\ call' = Idle /\ answers' = <<>>
    /\ UNCHANGED <<chain, exec, pending, moves, left>>

(* notify_created_nullifier: the value is the inner one. *)
notify_created_nullifier(inner) ==
    /\ call = Idle /\ exec.kind = "private"
    /\ pending' = pending \union {inner}
    /\ UNCHANGED <<chain, exec, call, answers, result, moves, left>>

(* The chain (external). *)
Extend(b) ==
    /\ moves < MaxMoves /\ b # Genesis /\ Parent[b] = Last(chain)
    /\ chain' = Append(chain, b)
    /\ moves' = moves + 1
    /\ UNCHANGED <<exec, pending, call, answers, result, left>>

Prune ==
    /\ moves < MaxMoves /\ Len(chain) > 1
    /\ chain' = Front(chain)
    /\ left' = (left \/ Last(chain) = exec.anchor)
    /\ moves' = moves + 1
    /\ UNCHANGED <<exec, pending, call, answers, result>>

Next ==
    \/ \E c \in Calls : Begin(c)
    \/ Read \/ ReadFails \/ Return
    \/ \E n \in Inner : notify_created_nullifier(n)
    \/ \E b \in Block : Extend(b)
    \/ Prune

Spec == Init /\ [][Next]_vars

-----------------------------------------------------------------------------
Returned(names) == result.ok /\ result.of.name \in names

(* A storage read that names a block returns, element by element, what was   *)
(* in storage after that block, and a public data witness proves under that  *)
(* block's root, whatever was added or pruned between the requests.  A       *)
(* message's witness in a private function proves under the anchor's root,    *)
(* unless the anchor was pruned meanwhile or is the genesis block, whose      *)
(* number reads as "latest".                                                  *)
(* (The block parameters of get_public_storage_at, get_public_data_witness   *)
(* and get_l1_to_l2_membership_witness.)                                     *)
ReadsMatchBlock ==
    /\ Returned({"storageRead"}) /\ result.of.form = "range" =>
        \A i \in DOMAIN result.value :
            result.value[i] = Storage[result.of.block][(result.of.slot + i - 1) % Modulus]
    /\ Returned({"getPublicDataWitness"}) =>
        result.value = Witness(Storage[result.of.block], result.of.slot)
    /\ Returned({"getL1ToL2MembershipWitness"}) /\ exec.kind = "private"
            /\ ~left /\ exec.number # 0 =>
        result.value = Witness(Messages[exec.anchor], result.of.message)

(* A contract is never told that a nullifier is missing which is in the      *)
(* anchor's tree, as long as the anchor stays on the chain: the latest block *)
(* has every nullifier of the blocks before it.                              *)
AnchoredNullifierSeen ==
    Returned({"checkNullifierExists"}) /\ ~result.value /\ ~left =>
        silo_nullifier(result.of.key) \notin Nullifiers[exec.anchor]

(* A nullifier the execution has emitted exists for it.  It does not hold:   *)
(* the siloed nullifier asked for is compared with the bare ones emitted.    *)
PendingNullifierSeen ==
    Returned({"checkNullifierExists"}) /\ ~result.value => result.of.key \notin pending

(* A nullifier's witness proves under the root of the header the function    *)
(* runs with.  It does not hold: the tree is read at the latest block.       *)
NullifierWitnessMatchesHeader ==
    exec.kind = "utility"
        /\ Returned({"getNullifierMembershipWitness", "getLowNullifierMembershipWitness"})
        /\ result.value.found
      => result.value.root = Nullifiers[exec.anchor]
=============================================================================
