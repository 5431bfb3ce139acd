--------------------------- MODULE OracleReadProofs ---------------------------
(***************************************************************************)
(* What a running function reads from the node, for any chain, storage,    *)
(* nullifiers and messages and any sequence of blocks added and pruned: a  *)
(* read of several requests is of one block, and a nullifier of the anchor *)
(* is never reported missing.                                              *)
(***************************************************************************)
EXTENDS OracleReads, TLAPS

(* A slot and the elements read from it fit the word the code adds in, and a *)
(* block has the nullifiers of its parent.                                   *)
ReadBounds ==
    /\ Modulus \in Nat \ {0} /\ MaxElements \in Nat /\ Word \in Nat /\ Modulus + MaxElements <= Word
    /\ Genesis \in Block
    /\ \A b \in Block \ {Genesis} : Parent[b] \in Block /\ Nullifiers[Parent[b]] \subseteq Nullifiers[b]

(* Until it is pruned the anchor keeps its place on the chain, and every     *)
(* block after it has its nullifiers.                                        *)
Anchored ==
    /\ exec.number + 1 \in DOMAIN chain /\ chain[exec.number + 1] = exec.anchor
    /\ \A i \in DOMAIN chain : i > exec.number => Nullifiers[exec.anchor] \subseteq Nullifiers[chain[i]]

Chained ==
    /\ chain \in Seq(Block) /\ Len(chain) > 0 /\ left \in BOOLEAN
    /\ exec.kind \in Kinds /\ exec.anchor \in Block /\ exec.number \in Nat
    /\ ~left => Anchored

(* What the node has answered to the call so far. *)
Answer(i) ==
    /\ call.name = "storageRead" /\ call.form = "range" =>
          answers[i] = Storage[call.block][slot_with_offset(call.slot, i - 1)]
    /\ call.name = "getPublicDataWitness" => answers[i] = Witness(Storage[call.block], call.slot)
    /\ call.name = "getL1ToL2MembershipWitness" /\ exec.kind = "private" /\ ~left /\ exec.number # 0 =>
          answers[i] \in {Witness(Messages[exec.anchor], call.message), NoWitness}
    /\ call.name = "checkNullifierExists" /\ ~left =>
          answers[i].found \/ silo_nullifier(call.key) \notin Nullifiers[exec.anchor]

Asked ==
    /\ call \in Calls \union {Idle}
    /\ \E S : answers \in Seq(S)
    /\ call = Idle => answers = <<>>
    /\ \A i \in 1..Len(answers) : Answer(i)

ReadInv == Chained /\ Asked /\ ReadsMatchBlock /\ AnchoredNullifierSeen

-----------------------------------------------------------------------------
(* The requests of the calls whose answers matter. *)
LEMMA RequestIs ==
  ASSUME ReadBounds, NEW c \in Calls, exec.kind \in Kinds, NEW i \in 1..Len(Reads(c))
  PROVE  /\ c.name = "storageRead" /\ c.form = "range" =>
               Reads(c)[i] = get_public_storage_at_by_hash(c.block, slot_with_offset(c.slot, i - 1))
         /\ c.name = "getPublicDataWitness" => Reads(c)[i] = get_public_data_witness_by_hash(c.block, c.slot)
         /\ c.name = "getL1ToL2MembershipWitness" /\ exec.kind = "private" =>
               Reads(c)[i] = MessageWitnessAt(exec.number, c.message)
         /\ c.name = "checkNullifierExists" => Reads(c)[i] = NullifierWitnessAt(0, silo_nullifier(c.key))
<1>1. ASSUME c.name = "storageRead", c.form = "range"
      PROVE  Reads(c)[i] = get_public_storage_at_by_hash(c.block, slot_with_offset(c.slot, i - 1))
  <2> DEFINE n == IF c.count > 1 THEN c.count ELSE 1
             Ask(j) == get_public_storage_at_by_hash(c.block, slot_with_offset(c.slot, j - 1))
  <2>1. Reads(c) = [j \in 1..n |-> Ask(j)]
    BY <1>1 DEF Reads, UtilityReads, PrivateReads, PrivateStorageReads, StorageReads
  <2>2. n \in Nat
    BY <1>1 DEF Calls, ReadBounds
  <2> HIDE DEF n, Ask
  <2>3. Reads(c)[i] = Ask(i)
    BY <2>1, <2>2
  <2> QED BY <2>3 DEF Ask
<1>2. ASSUME c.name = "getPublicDataWitness"
      PROVE  Reads(c)[i] = get_public_data_witness_by_hash(c.block, c.slot)
  <2>1. Reads(c) = <<get_public_data_witness_by_hash(c.block, c.slot)>>
    BY <1>2 DEF Reads, UtilityReads, PrivateReads, PrivateDataWitness, get_public_data_witness
  <2> QED BY <2>1
<1>3. ASSUME c.name = "getL1ToL2MembershipWitness", exec.kind = "private"
      PROVE  Reads(c)[i] = MessageWitnessAt(exec.number, c.message)
  <2>1. Reads(c) = <<MessageWitnessAt(exec.number, c.message)>>
    BY <1>3 DEF Reads, PrivateReads, get_l1_to_l2_membership_witness
  <2> QED BY <2>1
<1>4. ASSUME c.name = "checkNullifierExists"
      PROVE  Reads(c)[i] = NullifierWitnessAt(0, silo_nullifier(c.key))
  <2>1. Reads(c) = <<NullifierWitnessAt(0, silo_nullifier(c.key))>> \/ Reads(c) = <<>>
    BY <1>4 DEF Reads, UtilityReads, PrivateReads, PrivateNullifierReads, check_nullifier_exists
  <2> QED BY <2>1
<1> QED BY <1>1, <1>2, <1>3, <1>4

(* The block an answer is about.                                         *)
LEMMA AnswerIs ==
  ASSUME Chained
  PROVE  /\ \A b, h : b \in BlockAt(block_hash_param_json(h)) => b = h
         /\ \A b : b \in BlockAt(block_param_json(0)) => b = Last(chain)
         /\ \A b : b \in BlockAt(block_param_json(exec.number)) /\ exec.number # 0 /\ ~left => b = exec.anchor
<1>1. ASSUME NEW b, NEW h, b \in BlockAt(block_hash_param_json(h)) PROVE b = h
  BY <1>1 DEF BlockAt, block_hash_param_json
<1>2. ASSUME NEW b, b \in BlockAt(block_param_json(0)) PROVE b = Last(chain)
  BY <1>2 DEF BlockAt, block_param_json
<1>3. ASSUME NEW b, b \in BlockAt(block_param_json(exec.number)), exec.number # 0, ~left PROVE b = exec.anchor
  <2>1. block_param_json(exec.number) = [by |-> "number", number |-> exec.number]
    BY <1>3 DEF block_param_json
  <2>2. BlockAt([by |-> "number", number |-> exec.number])
          = {chain[i] : i \in {exec.number + 1} \intersect DOMAIN chain}
    BY DEF BlockAt
  <2> QED BY <1>3, <2>1, <2>2, Zenon DEF Chained, Anchored
<1> QED BY <1>1, <1>2, <1>3

(* What the node answers about a block.                                  *)
LEMMA NodeSays ==
  ASSUME NEW b, NEW k
  PROVE  /\ \A at : NodeAnswer(Query("storage", at, k), b) = Storage[b][k]
         /\ \A at : NodeAnswer(Query("data", at, k), b) = Witness(Storage[b], k)
         /\ \A at : NodeAnswer(Query("message", at, k), b) \in {Witness(Messages[b], k), NoWitness}
         /\ \A at : NodeAnswer(Query("nullifier", at, k), b).found \/ k \notin Nullifiers[b]
<1>1. ASSUME NEW at PROVE NodeAnswer(Query("storage", at, k), b) = Storage[b][k]
  BY DEF NodeAnswer, Query
<1>2. ASSUME NEW at PROVE NodeAnswer(Query("data", at, k), b) = Witness(Storage[b], k)
  BY DEF NodeAnswer, Query
<1>3. ASSUME NEW at PROVE NodeAnswer(Query("message", at, k), b) \in {Witness(Messages[b], k), NoWitness}
  BY DEF NodeAnswer, Query
<1>4. ASSUME NEW at, k \in Nullifiers[b] PROVE NodeAnswer(Query("nullifier", at, k), b).found
  <2>1. NodeAnswer(Query("nullifier", at, k), b) = Witness(Nullifiers[b], k)
    BY <1>4 DEF NodeAnswer, Query
  <2> QED BY <2>1 DEF Witness
<1> QED BY <1>1, <1>2, <1>3, <1>4

(* The chain grows or loses its last block. *)
LEMMA ChainStep ==
  ASSUME ReadBounds, Chained, Prune \/ \E b \in Block : Extend(b)
  PROVE  Chained' /\ (left => left')
<1> USE DEF Chained
<1>1. ASSUME NEW b \in Block, Extend(b) PROVE Chained' /\ UNCHANGED left
  <2>1. /\ chain' = Append(chain, b) /\ UNCHANGED <<exec, left>>
        /\ b # Genesis /\ Parent[b] = Last(chain)
    BY <1>1 DEF Extend
  <2>2. chain' \in Seq(Block) /\ Len(chain') = Len(chain) + 1 /\ chain'[Len(chain) + 1] = b
        /\ \A i \in 1..Len(chain) : chain'[i] = chain[i]
    BY <2>1
  <2>3. ASSUME ~left PROVE Anchored'
    <3>1. exec.number + 1 \in 1..Len(chain) /\ chain[exec.number + 1] = exec.anchor
      BY <2>3 DEF Anchored
    <3>2. Nullifiers[exec.anchor] \subseteq Nullifiers[Last(chain)]
      BY <2>3, <3>1 DEF Anchored, Last
    <3>3. Nullifiers[Last(chain)] \subseteq Nullifiers[b]
      BY <2>1 DEF ReadBounds
    <3>4. exec.number + 1 \in DOMAIN chain' /\ chain'[exec.number + 1] = exec.anchor
      BY <2>2, <3>1
    <3>5. ASSUME NEW i \in DOMAIN chain', i > exec.number
          PROVE  Nullifiers[exec.anchor] \subseteq Nullifiers[chain'[i]]
      <4>1. CASE i = Len(chain) + 1
        BY <2>2, <3>2, <3>3, <4>1
      <4>2. CASE i \in 1..Len(chain)
        BY <2>2, <2>3, <3>5, <4>2 DEF Anchored
      <4> QED BY <2>2, <4>1, <4>2
    <3> QED BY <2>1, <3>4, <3>5 DEF Anchored
  <2> QED BY <2>1, <2>2, <2>3
<1>2. ASSUME Prune PROVE Chained' /\ (left => left')
  <2>1. /\ chain' = Front(chain) /\ UNCHANGED exec /\ Len(chain) > 1
        /\ left' = (left \/ Last(chain) = exec.anchor)
    BY <1>2, Zenon DEF Prune
  <2>2. chain' \in Seq(Block) /\ Len(chain') = Len(chain) - 1
        /\ \A i \in 1..Len(chain') : chain'[i] = chain[i]
    BY <2>1 DEF Front
  <2>3. left' \in BOOLEAN /\ (left => left')
    BY <2>1, Zenon
  <2>4. ASSUME ~left' PROVE Anchored'
    <3>1. ~left /\ Last(chain) # exec.anchor
      BY <2>1, <2>4, Zenon
    <3>2. exec.number + 1 \in 1..Len(chain) /\ chain[exec.number + 1] = exec.anchor
      BY <3>1 DEF Anchored
    <3>3. exec.number + 1 # Len(chain)
      BY <3>1, <3>2 DEF Last
    <3>4. exec.number + 1 \in 1..Len(chain') /\ chain'[exec.number + 1] = exec.anchor
      BY <2>2, <3>2, <3>3
    <3>5. ASSUME NEW i \in 1..Len(chain'), i > exec.number
          PROVE  Nullifiers[exec.anchor] \subseteq Nullifiers[chain'[i]]
      BY <2>2, <3>1, <3>5 DEF Anchored
    <3> QED BY <2>1, <2>2, <3>4, <3>5 DEF Anchored
  <2> QED BY <2>1, <2>2, <2>3, <2>4
<1> QED BY <1>1, <1>2

(* A step after which the anchor is no better placed keeps what was read. *)
LEMMA ReadsKept ==
  ASSUME Asked, ReadsMatchBlock, AnchoredNullifierSeen,
         UNCHANGED <<exec, call, answers, result>>, left => left'
  PROVE  Asked' /\ ReadsMatchBlock' /\ AnchoredNullifierSeen'
<1>1. Calls' = Calls
  BY DEF Calls, Known
<1>2. ASSUME NEW i \in 1..Len(answers) PROVE Answer(i)'
  <2>1. Answer(i)
    BY DEF Asked
  <2> QED BY <2>1, Zenon DEF Answer
<1>3. Asked'
  <2>1. call' \in Calls' \union {Idle} /\ (call' = Idle => answers' = <<>>)
    BY <1>1, Zenon DEF Asked
  <2>2. \E S : answers' \in Seq(S)
    BY Zenon DEF Asked
  <2>3. \A i \in 1..Len(answers') : Answer(i)'
    BY <1>2, Zenon
  <2> QED BY <2>1, <2>2, <2>3, Zenon DEF Asked
<1>4. ReadsMatchBlock'
  BY Zenon DEF ReadsMatchBlock, Returned
<1>5. AnchoredNullifierSeen'
  BY Zenon DEF AnchoredNullifierSeen, Returned
<1> QED BY <1>3, <1>4, <1>5

(* One request more: the answer is about the block the call names, or    *)
(* about the latest, which has the nullifiers of the anchor.             *)
LEMMA ReadStep ==
  ASSUME ReadBounds, Chained, Asked, Read
  PROVE  Asked'
<1>1. call \in Calls /\ call # Idle /\ UNCHANGED <<chain, exec, call, left>> /\ Len(answers) < Len(Reads(call))
  BY DEF Read, Asked
<1>3. PICK S : answers \in Seq(S)
  BY DEF Asked
<1>n. PICK n \in Nat : n = Len(answers) + 1
  BY <1>3
<1>q. PICK q : q = Reads(call)[n]
  OBVIOUS
<1>2. PICK b \in BlockAt(q.at) : answers' = Append(answers, NodeAnswer(q, b))
  BY <1>n, <1>q DEF Read
<1>a. PICK a : a = NodeAnswer(q, b)
  OBVIOUS
<1>4. /\ answers' \in Seq(S \union {a}) /\ Len(answers') = n /\ answers'[n] = a
      /\ \A i \in 1..Len(answers) : answers'[i] = answers[i]
  <2>1. answers' = Append(answers, a) /\ answers \in Seq(S \union {a})
    BY <1>2, <1>3, <1>a
  <2> QED BY <1>n, <2>1
<1>5. n \in 1..Len(Reads(call))
  BY <1>1, <1>3, <1>n
<1>6. Calls' = Calls
  BY <1>1 DEF Calls, Known
<1>7. Answer(n)'
  <2>1. CASE call.name = "storageRead" /\ call.form = "range"
    <3>1. q = Query("storage", block_hash_param_json(call.block), slot_with_offset(call.slot, n - 1))
      BY <1>1, <1>5, <1>q, <2>1, RequestIs DEF Chained, get_public_storage_at_by_hash
    <3>2. b = call.block
      BY <3>1, AnswerIs DEF Query
    <3>3. a = Storage[call.block][slot_with_offset(call.slot, n - 1)]
      BY <1>a, <3>1, <3>2, NodeSays, Zenon
    <3> QED BY <1>1, <1>4, <2>1, <3>3 DEF Answer
  <2>2. CASE call.name = "getPublicDataWitness"
    <3>1. q = Query("data", block_hash_param_json(call.block), call.slot)
      BY <1>1, <1>5, <1>q, <2>2, RequestIs DEF Chained, get_public_data_witness_by_hash
    <3>2. b = call.block
      BY <3>1, AnswerIs DEF Query
    <3>3. a = Witness(Storage[call.block], call.slot)
      BY <1>a, <3>1, <3>2, NodeSays, Zenon
    <3> QED BY <1>1, <1>4, <2>2, <3>3 DEF Answer
  <2>3. CASE call.name = "getL1ToL2MembershipWitness"
    <3> SUFFICES ASSUME exec.kind = "private", ~left, exec.number # 0
                 PROVE  a \in {Witness(Messages[exec.anchor], call.message), NoWitness}
      BY <1>1, <1>4, <2>3, Zenon DEF Answer
    <3>1. q = Query("message", block_param_json(exec.number), call.message)
      BY <1>1, <1>5, <1>q, <2>3, RequestIs DEF Chained, MessageWitnessAt
    <3>2. b = exec.anchor
      BY <3>1, AnswerIs DEF Query
    <3> QED BY <1>a, <3>1, <3>2, NodeSays, Zenon
  <2>4. CASE call.name = "checkNullifierExists"
    <3> SUFFICES ASSUME ~left PROVE a.found \/ silo_nullifier(call.key) \notin Nullifiers[exec.anchor]
      BY <1>1, <1>4, <2>4, Zenon DEF Answer
    <3>1. q = Query("nullifier", block_param_json(0), silo_nullifier(call.key))
      BY <1>1, <1>5, <1>q, <2>4, RequestIs DEF Chained, NullifierWitnessAt
    <3>2. b = Last(chain)
      BY <3>1, AnswerIs DEF Query
    <3>3. Nullifiers[exec.anchor] \subseteq Nullifiers[Last(chain)]
      BY DEF Chained, Anchored, Last
    <3>4. a.found \/ silo_nullifier(call.key) \notin Nullifiers[b]
      BY <1>a, <3>1, NodeSays
    <3> QED BY <3>2, <3>3, <3>4, Zenon
  <2> QED BY <1>1, <2>1, <2>2, <2>3, <2>4, Zenon DEF Answer
<1>8. ASSUME NEW i \in 1..Len(answers) PROVE Answer(i)'
  <2>1. Answer(i) /\ answers'[i] = answers[i]
    BY <1>4 DEF Asked
  <2> QED BY <1>1, <2>1, Zenon DEF Answer
<1>9. \A i \in 1..Len(answers') : Answer(i)'
  <2>1. \A i \in 1..Len(answers') : i \in 1..Len(answers) \/ i = n
    BY <1>3, <1>4, <1>n
  <2> QED BY <1>7, <1>8, <2>1, Zenon
<1> QED BY <1>1, <1>4, <1>6, <1>9, Zenon DEF Asked

(* What a call returns, where it matters. *)
LEMMA ResultIs ==
  ASSUME NEW c, NEW as, exec.kind \in Kinds
  PROVE  /\ c.name \in {"storageRead"} => Result(c, as) = Ok(as)
         /\ c.name = "getPublicDataWitness" => Result(c, as) = Ok(as[1])
         /\ c.name = "getL1ToL2MembershipWitness" /\ exec.kind = "private" => Result(c, as) = MessageWitness(as)
         /\ c.name = "checkNullifierExists" =>
               \/ exec.kind = "utility" /\ Result(c, as) = Ok(as[1].found)
               \/ exec.kind = "private" /\ Result(c, as) = Ok(as = <<>> \/ as[1].found)
<1>1. c.name \in {"storageRead"} => Result(c, as) = Ok(as)
  BY Zenon DEF Result, UtilityResult, PrivateResult
<1>2. c.name = "getPublicDataWitness" => Result(c, as) = Ok(as[1])
  BY DEF Result, UtilityResult, PrivateResult, WitnessOrZeros
<1>3. c.name = "getL1ToL2MembershipWitness" /\ exec.kind = "private" => Result(c, as) = MessageWitness(as)
  BY DEF Result, PrivateResult
<1>4. ASSUME c.name = "checkNullifierExists"
      PROVE  \/ exec.kind = "utility" /\ Result(c, as) = Ok(as[1].found)
             \/ exec.kind = "private" /\ Result(c, as) = Ok(as = <<>> \/ as[1].found)
  <2> DEFINE some == as[1].found
             pend == as = <<>> \/ as[1].found
  <2>1. UtilityResult(c, as) = Ok(some)
    BY <1>4 DEF UtilityResult, IsSome
  <2>2. PrivateResult(c, as) = Ok(pend)
    BY <1>4 DEF PrivateResult, IsSome
  <2>3. exec.kind = "utility" \/ (exec.kind # "utility" /\ exec.kind = "private")
    BY DEF Kinds
  <2> QED BY <2>1, <2>2, <2>3, Zenon DEF Result
<1> QED BY <1>1, <1>2, <1>3, <1>4, Zenon

(* How many requests these calls make. *)
LEMMA RequestCount ==
  ASSUME ReadBounds, NEW c \in Calls, exec.kind \in Kinds
  PROVE  /\ c.name = "storageRead" /\ c.form = "range" =>
               /\ c.slot \in 0..(Modulus - 1) /\ c.count \in 0..MaxElements
               /\ Len(Reads(c)) = IF c.count > 1 THEN c.count ELSE 1
         /\ c.name = "getPublicDataWitness" => Len(Reads(c)) = 1
         /\ c.name = "getL1ToL2MembershipWitness" /\ exec.kind = "private" => Len(Reads(c)) = 1
         /\ c.name = "checkNullifierExists" =>
               Len(Reads(c)) = 1 \/ (exec.kind = "private" /\ Len(Reads(c)) = 0)
<1>1. ASSUME c.name = "storageRead", c.form = "range"
      PROVE  /\ c.slot \in 0..(Modulus - 1) /\ c.count \in 0..MaxElements
             /\ Len(Reads(c)) = IF c.count > 1 THEN c.count ELSE 1
  <2> DEFINE n == IF c.count > 1 THEN c.count ELSE 1
             Ask(j) == get_public_storage_at_by_hash(c.block, slot_with_offset(c.slot, j - 1))
  <2>1. Reads(c) = [j \in 1..n |-> Ask(j)]
    BY <1>1 DEF Reads, UtilityReads, PrivateReads, PrivateStorageReads, StorageReads
  <2>2. c.slot \in 0..(Modulus - 1) /\ c.count \in 0..MaxElements
    BY <1>1 DEF Calls, Slot
  <2>3. n \in Nat
    BY <2>2 DEF ReadBounds
  <2>4. Len(Reads(c)) = n
    <3> HIDE DEF n, Ask
    <3> QED BY <2>1, <2>3
  <2> QED BY <2>2, <2>4
<1>2. c.name = "getPublicDataWitness" => Len(Reads(c)) = 1
  BY DEF Reads, UtilityReads, PrivateReads, PrivateDataWitness, get_public_data_witness
<1>3. c.name = "getL1ToL2MembershipWitness" /\ exec.kind = "private" => Len(Reads(c)) = 1
  BY DEF Reads, PrivateReads, get_l1_to_l2_membership_witness
<1>4. c.name = "checkNullifierExists" =>
               Len(Reads(c)) = 1 \/ (exec.kind = "private" /\ Len(Reads(c)) = 0)
  BY DEF Reads, UtilityReads, PrivateReads, PrivateNullifierReads, check_nullifier_exists, Kinds
<1> QED BY <1>1, <1>2, <1>3, <1>4

(* Slots do not wrap around the word before they wrap around the field. *)
LEMMA OffsetIs ==
  ASSUME ReadBounds, NEW s \in 0..(Modulus - 1), NEW i \in Nat, i > 0, i <= MaxElements \/ i = 1
  PROVE  slot_with_offset(s, i - 1) = (s + i - 1) % Modulus
<1>1. s + (i - 1) \in 0..(Word - 1) /\ Word \in Nat \ {0}
  BY DEF ReadBounds
<1>2. (s + (i - 1)) % Word = s + (i - 1)
  BY <1>1
<1>3. s + (i - 1) = s + i - 1
  BY DEF ReadBounds
<1> QED BY <1>2, <1>3, Zenon DEF slot_with_offset

(* The result of a call from its answers.                                *)
LEMMA ReturnStep ==
  ASSUME ReadBounds, Chained, Asked, Return
  PROVE  ReadsMatchBlock' /\ AnchoredNullifierSeen'
<1>1. call \in Calls /\ call # Idle /\ UNCHANGED <<exec, left>> /\ Len(answers) = Len(Reads(call))
  BY DEF Return, Asked
<1>k. exec.kind \in Kinds
  BY DEF Chained
<1>r. PICK r : r = Result(call, answers)
  OBVIOUS
<1>2. result' = IF r.ok THEN [ok |-> TRUE, of |-> call, value |-> r.value] ELSE Err
  BY <1>r DEF Return
<1>3. result'.ok => r.ok /\ result'.of = call /\ result'.value = r.value
  BY <1>2 DEF Err
<1>4. ASSUME result'.ok, call.name = "storageRead", call.form = "range"
      PROVE  \A i \in DOMAIN result'.value :
               result'.value[i] = Storage[call.block][(call.slot + i - 1) % Modulus]
  <2>1. result'.value = answers
    BY <1>k, <1>r, <1>3, <1>4, ResultIs DEF Ok
  <2>2. PICK S : answers \in Seq(S)
    BY DEF Asked
  <2>3. ASSUME NEW i \in DOMAIN answers
        PROVE  answers[i] = Storage[call.block][(call.slot + i - 1) % Modulus]
    <3>1. i \in 1..Len(answers)
      BY <2>2
    <3>2. call.slot \in 0..(Modulus - 1) /\ (i <= MaxElements \/ i = 1)
      BY <1>1, <1>k, <1>4, <3>1, RequestCount DEF ReadBounds
    <3>3. answers[i] = Storage[call.block][slot_with_offset(call.slot, i - 1)]
      BY <1>4, <3>1, Zenon DEF Asked, Answer
    <3> QED BY <3>1, <3>2, <3>3, OffsetIs
  <2> QED BY <2>1, <2>3, Zenon
<1>5. ASSUME result'.ok, call.name = "getPublicDataWitness"
      PROVE  result'.value = Witness(Storage[call.block], call.slot)
  <2>1. result'.value = answers[1]
    BY <1>k, <1>r, <1>3, <1>5, ResultIs DEF Ok
  <2>2. 1 \in 1..Len(answers)
    <3>1. Len(answers) = 1
      BY <1>1, <1>k, <1>5, RequestCount, Zenon
    <3> QED BY <3>1
  <2> QED BY <1>5, <2>1, <2>2, Zenon DEF Asked, Answer
<1>6. ASSUME result'.ok, call.name = "getL1ToL2MembershipWitness", exec.kind = "private", ~left, exec.number # 0
      PROVE  result'.value = Witness(Messages[exec.anchor], call.message)
  <2>1. r = MessageWitness(answers)
    BY <1>k, <1>r, <1>6, ResultIs
  <2>2. answers[1].found /\ result'.value = answers[1]
    BY <1>3, <1>6, <2>1 DEF MessageWitness, Ok, Err
  <2>3. 1 \in 1..Len(answers)
    <3>1. Len(answers) = 1
      BY <1>1, <1>k, <1>6, RequestCount, Zenon
    <3> QED BY <3>1
  <2>4. answers[1] # NoWitness
    BY <2>2 DEF NoWitness
  <2> QED BY <1>6, <2>2, <2>3, <2>4, Zenon DEF Asked, Answer
<1>7. ASSUME result'.ok, call.name = "checkNullifierExists", ~result'.value, ~left
      PROVE  silo_nullifier(call.key) \notin Nullifiers[exec.anchor]
  <2> DEFINE pend == answers = <<>> \/ answers[1].found
  <2>a. \A v : Ok(v).value = v
    BY DEF Ok
  <2>b. \/ exec.kind = "utility" /\ r = Ok(answers[1].found)
        \/ exec.kind = "private" /\ r = Ok(pend)
    BY <1>k, <1>r, <1>7, ResultIs
  <2>1. ~answers[1].found /\ (exec.kind = "utility" \/ answers # <<>>)
    BY <1>3, <1>7, <2>a, <2>b, Zenon
  <2>2. 1 \in 1..Len(answers)
    <3>1. exec.kind = "private" => answers # <<>>
      BY <2>1
    <3>2. Len(answers) = 1 \/ (exec.kind = "private" /\ Len(answers) = 0)
      BY <1>1, <1>k, <1>7, RequestCount, Zenon
    <3>3. PICK S : answers \in Seq(S)
      BY DEF Asked
    <3> QED BY <3>1, <3>2, <3>3
  <2> QED BY <1>7, <2>1, <2>2, Zenon DEF Asked, Answer
<1>8. ReadsMatchBlock'
  BY <1>1, <1>3, <1>4, <1>5, <1>6, Zenon DEF ReadsMatchBlock, Returned
<1>9. AnchoredNullifierSeen'
  BY <1>1, <1>3, <1>7, Zenon DEF AnchoredNullifierSeen, Returned
<1> QED BY <1>8, <1>9

LEMMA ReadInitially == ASSUME ReadBounds, Init PROVE ReadInv
<1>1. chain = <<Genesis>> \/ \E b \in Block : chain = <<Genesis, b>> /\ b # Genesis /\ Parent[b] = Genesis
  BY Zenon DEF Init
<1>2. PICK k \in Kinds : exec = [kind |-> k, anchor |-> Last(chain), number |-> Len(chain) - 1]
  BY DEF Init
<1>3. Chained
  <2>1. ASSUME chain = <<Genesis>> PROVE Chained
    <3>1. Last(chain) = Genesis /\ Len(chain) = 1
      BY <2>1 DEF Last
    <3>2. exec.kind \in Kinds /\ exec.anchor = Genesis /\ exec.number = 0
      BY <1>2, <3>1
    <3>3. Genesis \in Block /\ left = FALSE
      BY DEF ReadBounds, Init
    <3>4. Anchored
      BY <2>1, <3>2 DEF Anchored
    <3>5. chain \in Seq(Block) /\ Len(chain) > 0 /\ exec.anchor \in Block /\ exec.number \in Nat
      BY <2>1, <3>2, <3>3
    <3> QED BY <3>2, <3>3, <3>4, <3>5, Zenon DEF Chained
  <2>2. ASSUME NEW b \in Block, chain = <<Genesis, b>> PROVE Chained
    <3>1. Last(chain) = b /\ Len(chain) = 2
      BY <2>2 DEF Last
    <3>2. exec.kind \in Kinds /\ exec.anchor = b /\ exec.number = 1
      BY <1>2, <3>1
    <3>3. Genesis \in Block /\ left = FALSE
      BY DEF ReadBounds, Init
    <3>4. Anchored
      BY <2>2, <3>2 DEF Anchored
    <3>5. chain \in Seq(Block) /\ Len(chain) > 0 /\ exec.anchor \in Block /\ exec.number \in Nat
      BY <2>2, <3>2, <3>3
    <3> QED BY <3>2, <3>3, <3>4, <3>5, Zenon DEF Chained
  <2> QED BY <1>1, <2>1, <2>2
<1>4. Asked
  BY DEF Init, Asked
<1>5. ReadsMatchBlock /\ AnchoredNullifierSeen
  BY DEF Init, ReadsMatchBlock, AnchoredNullifierSeen, Returned, Err
<1> QED BY <1>3, <1>4, <1>5 DEF ReadInv

(* One case per action.                                                  *)
LEMMA ReadsStep ==
  ASSUME ReadBounds, ReadInv, [Next]_vars
  PROVE  ReadInv'
<1> USE DEF ReadInv
<1>0. ASSUME result' = Err PROVE ReadsMatchBlock' /\ AnchoredNullifierSeen'
  <2>1. ~result'.ok
    BY <1>0 DEF Err
  <2> QED BY <2>1, Zenon DEF ReadsMatchBlock, AnchoredNullifierSeen, Returned
<1>c. UNCHANGED <<chain, exec, left>> => Chained' /\ Calls' = Calls
  BY DEF Chained, Anchored, OnChain, Calls, Known
<1>i. call' = Idle /\ answers' = <<>> => Asked'
  BY DEF Asked
<1>1. ASSUME NEW c \in Calls, Begin(c) PROVE ReadInv'
  <2>1. UNCHANGED <<chain, exec, left, answers>> /\ call' = c /\ result' = Err /\ answers = <<>>
    BY <1>1 DEF Begin, Asked
  <2>2. Asked'
    BY <1>c, <2>1 DEF Asked
  <2> QED BY <1>0, <1>c, <2>1, <2>2
<1>2. CASE Read
  <2>1. Asked'
    BY <1>2, ReadStep
  <2>2. UNCHANGED <<chain, exec, left, result>>
    BY <1>2 DEF Read
  <2>3. ReadsMatchBlock' /\ AnchoredNullifierSeen'
    BY <2>2, Zenon DEF ReadsMatchBlock, AnchoredNullifierSeen, Returned
  <2> QED BY <1>c, <2>1, <2>2, <2>3
<1>3. CASE ReadFails
  BY <1>0, <1>c, <1>i, <1>3 DEF ReadFails
<1>4. CASE Return
  <2>1. UNCHANGED <<chain, exec, left>> /\ call' = Idle /\ answers' = <<>>
    BY <1>4 DEF Return
  <2> QED BY <1>4, <1>c, <1>i, <2>1, ReturnStep
<1>5. ASSUME NEW n \in Inner, notify_created_nullifier(n) PROVE ReadInv'
  <2>1. UNCHANGED <<chain, exec, left, call, answers, result>>
    BY <1>5 DEF notify_created_nullifier
  <2> QED BY <1>c, <2>1, ReadsKept
<1>6. ASSUME Prune \/ \E b \in Block : Extend(b) PROVE ReadInv'
  <2>1. UNCHANGED <<exec, call, answers, result>>
    BY <1>6 DEF Prune, Extend
  <2> QED BY <1>6, <2>1, ChainStep, ReadsKept
<1>7. CASE UNCHANGED vars
  <2>1. UNCHANGED <<chain, exec, left, call, answers, result>>
    BY <1>7 DEF vars
  <2> QED BY <1>c, <2>1, ReadsKept
<1> QED BY <1>1, <1>2, <1>3, <1>4, <1>5, <1>6, <1>7, Zenon DEF Next

(* Storage read by several requests is that of the block the call names, *)
(* element by element, a public data witness is of that block and a      *)
(* private function's message witness is of its anchor, whatever blocks  *)
(* come and go between the requests (get_public_storage_at,              *)
(* get_public_data_witness, get_l1_to_l2_membership_witness).            *)
THEOREM ReadsMatch == ASSUME ReadBounds PROVE Spec => []ReadsMatchBlock
<1>1. ReadInv => ReadsMatchBlock
  BY DEF ReadInv
<1> QED BY <1>1, ReadInitially, ReadsStep, PTL DEF Spec

(* A function is told that a nullifier does not exist only if it is not  *)
(* in its anchor's tree, while the anchor stays on the chain:            *)
(* check_nullifier_exists reads the latest block, which has every        *)
(* nullifier of the anchor.                                              *)
THEOREM NullifierSeen == ASSUME ReadBounds PROVE Spec => []AnchoredNullifierSeen
<1>1. ReadInv => AnchoredNullifierSeen
  BY DEF ReadInv
<1> QED BY <1>1, ReadInitially, ReadsStep, PTL DEF Spec
=============================================================================
