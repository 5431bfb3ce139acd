----------------------------- MODULE ClassHashes -----------------------------
(****************************************************************************)
(* How a contract artifact becomes a class id, and the membership witnesses *)
(* the kernels ask for: crates/core/src/hash.rs computes the id (artifact   *)
(* hash, private functions root, bytecode commitment), and                  *)
(* crates/pxe/src/kernel/oracle.rs recomputes the preimage of the id and    *)
(* the sibling paths with code of its own.                                  *)
(*                                                                          *)
(* A hash is the tuple of its tag and its inputs, so hashes are equal       *)
(* exactly when the code hashes equal inputs.  The tag stands for the hash  *)
(* function, the domain separator and the layout of the data.  A field      *)
(* that is not a hash is <<n>>.                                             *)
(*                                                                          *)
(* An artifact is [name, functions], a function                             *)
(* [type, unconstrained, name, selector, vk, returns, code].  vk and code   *)
(* are options: <<>> or <<x>>.  An encoded bytecode is [form, bytes]: "hex" *)
(* and "base64" decode to bytes, "text" does not decode and bytes are those *)
(* of the string itself.                                                    *)
(****************************************************************************)
EXTENDS Integers, Sequences, FiniteSets, SequencesExt

CONSTANTS FUNCTION_TREE_HEIGHT,  \* 7 in constants.rs
          ChunkSize              \* 31: the bytes one field carries

Zero == <<0>>

poseidon2_hash(left, right) == <<"poseidon2", left, right>>

sha256_pair(left, right) == <<"sha256", left, right>>

------------------------------------------------------------------------------
(* Merkle trees.                                                            *)

\* One level up: nodes are hashed in pairs, a missing right node is zero.
NextLevel(Hash(_, _), level) ==
    [i \in 1..((Len(level) + 1) \div 2) |->
        Hash(level[2 * i - 1],
             IF 2 * i <= Len(level) THEN level[2 * i] ELSE Zero)]

RECURSIVE MerkleRoot(_, _)
MerkleRoot(Hash(_, _), level) ==
    IF Len(level) = 0 THEN Zero
    ELSE IF Len(level) = 1 THEN level[1]
    ELSE MerkleRoot(Hash, NextLevel(Hash, level))

poseidon_merkle_root(leaves) == MerkleRoot(poseidon2_hash, leaves)

sha256_merkle_root(leaves) == MerkleRoot(sha256_pair, leaves)

\* Vec::resize: cut or padded to n elements.
Resize(s, n, x) == [i \in 1..n |-> IF i <= Len(s) THEN s[i] ELSE x]

IsPrivate(f) == f.type = "private"

\* The private functions as (selector, vk hash), a missing hash being zero.
PrivatePairs(artifact) ==
    LET fs == SelectSeq(artifact.functions, IsPrivate)
    IN [i \in 1..Len(fs) |->
          <<fs[i].selector, IF fs[i].vk = <<>> THEN Zero ELSE fs[i].vk[1]>>]

SortedBySelector(pairs) == SortSeq(pairs, LAMBDA p, q : p[1] < q[1])

FunctionLeaf(pair) == <<"private_function_leaf", <<pair[1]>>, pair[2]>>

ZeroLeaf == poseidon2_hash(Zero, Zero)

\* The padded leaves of the private function tree, in selector order.
FunctionLeavesUnsorted(pairs) ==
    Resize([i \in 1..Len(pairs) |-> FunctionLeaf(pairs[i])],
           2 ^ FUNCTION_TREE_HEIGHT, ZeroLeaf)

FunctionLeaves(pairs) ==
    LET sorted == SortedBySelector(pairs)
    IN Resize([i \in 1..Len(sorted) |-> FunctionLeaf(sorted[i])],
              2 ^ FUNCTION_TREE_HEIGHT, ZeroLeaf)

compute_private_functions_root(pairs) ==
    poseidon_merkle_root(FunctionLeaves(pairs))

\* Mutant: the sibling of an odd node is taken on the wrong side.
SiblingOfAlwaysRight(index) == index + 1

\* The sibling of a node, counted from 0.
SiblingOf(index) == IF index % 2 = 1 THEN index - 1 ELSE index + 1

RECURSIVE sibling_path_from_leaves(_, _)
sibling_path_from_leaves(level, index) ==
    IF Len(level) <= 1 THEN <<>>
    ELSE LET s == SiblingOf(index) + 1
         IN <<IF s <= Len(level) THEN level[s] ELSE Zero>>
              \o sibling_path_from_leaves(NextLevel(poseidon2_hash, level), index \div 2)

\* (leaf index, sibling path) of a private function, or an error.
private_function_membership_witness(artifact, selector) ==
    LET pairs  == SortedBySelector(PrivatePairs(artifact))
        found  == {i \in 1..Len(pairs) : pairs[i][1] = selector}
    IN IF found = {} THEN <<>>
       ELSE LET first == CHOOSE i \in found : \A j \in found : i <= j
            IN <<[leaf  |-> FunctionLeaf(pairs[first]),
                  index |-> first - 1,
                  path  |-> sibling_path_from_leaves(FunctionLeaves(pairs), first - 1)]>>

------------------------------------------------------------------------------
(* The tree of verification keys, kept as one list of rows, leaves first.   *)

\* load_vk_tree accepts 2^(height + 1) - 1 nodes with at least one edge.
ValidNodeCount(n) == n > 1 /\ \E h \in 1..n : n = 2 ^ (h + 1) - 1

RECURSIVE FlatPath(_, _, _, _)
FlatPath(nodes, row_offset, row_size, index) ==
    IF row_size <= 1 THEN <<>>
    ELSE <<nodes[row_offset + SiblingOf(index) + 1]>>
           \o FlatPath(nodes, row_offset + row_size, row_size \div 2, index \div 2)

sibling_path_from_flat_tree(nodes, index) ==
    LET leaf_count == (Len(nodes) + 1) \div 2
    IN IF index >= leaf_count THEN <<>>
       ELSE <<FlatPath(nodes, 0, leaf_count, index)>>

get_vk_membership_witness(nodes, vk_hash) ==
    LET leaf_count == (Len(nodes) + 1) \div 2
        found == {i \in 1..leaf_count : nodes[i] = vk_hash}
    IN IF ~ValidNodeCount(Len(nodes)) \/ found = {} THEN <<>>
       ELSE LET first == CHOOSE i \in found : \A j \in found : i <= j
            IN <<[leaf  |-> vk_hash,
                  index |-> first - 1,
                  path  |-> sibling_path_from_flat_tree(nodes, first - 1)[1]]>>

------------------------------------------------------------------------------
(* The artifact hash.                                                       *)

\* hash.rs: what does not decode is hashed as it is written.
decode_artifact_bytes(encoded) == encoded.bytes

compute_function_bytecode_hash(f) ==
    IF f.code = <<>> THEN Zero ELSE <<"bytecode", decode_artifact_bytes(f.code[1])>>

compute_function_metadata_hash(f) == <<"metadata", f.returns>>

ArtifactLeaf(f) ==
    <<"artifact_leaf", f.selector, compute_function_metadata_hash(f),
      compute_function_bytecode_hash(f)>>

\* ceil(log2(n)) levels above n leaves.
TreeHeight(n) == CHOOSE h \in 0..n : 2 ^ h >= n /\ (h = 0 \/ 2 ^ (h - 1) < n)

IsUnconstrained(f) == f.type = "utility" \/ f.unconstrained

\* The functions keep the order of the artifact.
ArtifactTreeRoot(functions) ==
    IF functions = <<>> THEN Zero
    ELSE sha256_merkle_root(
           Resize([i \in 1..Len(functions) |-> ArtifactLeaf(functions[i])],
                  2 ^ TreeHeight(Len(functions)), Zero))

compute_artifact_function_tree_root(artifact, unconstrained) ==
    ArtifactTreeRoot(IF unconstrained THEN SelectSeq(artifact.functions, IsUnconstrained)
                                      ELSE SelectSeq(artifact.functions, IsPrivate))

compute_artifact_metadata_hash(artifact) == <<"artifact_metadata", artifact.name>>

compute_artifact_hash(artifact) ==
    <<"artifact", compute_artifact_function_tree_root(artifact, FALSE),
      compute_artifact_function_tree_root(artifact, TRUE),
      compute_artifact_metadata_hash(artifact)>>

------------------------------------------------------------------------------
(* The public bytecode: chunks of ChunkSize bytes, left aligned in a field. *)

Chunks(bytes) ==
    [i \in 1..((Len(bytes) + ChunkSize - 1) \div ChunkSize) |->
        Resize(SubSeq(bytes, (i - 1) * ChunkSize + 1,
                      IF i * ChunkSize < Len(bytes) THEN i * ChunkSize ELSE Len(bytes)),
               ChunkSize, 0)]

\* Mutant: the commitment leaves out the byte length.
CommitmentWithoutLength(bytes) == <<"public_bytecode", 0, Chunks(bytes)>>

\* The separator carries the byte length above its low 32 bits.
compute_public_bytecode_commitment(bytes) ==
    <<"public_bytecode", Len(bytes), Chunks(bytes)>>

IsPublicDispatch(f) == f.type = "public" /\ f.name = "public_dispatch"

extract_packed_public_bytecode(artifact, Decode(_)) ==
    LET fs == SelectSeq(artifact.functions, IsPublicDispatch)
    IN IF fs = <<>> \/ fs[1].code = <<>> THEN <<>> ELSE Decode(fs[1].code[1])

\* Bytes of a published bytecode: the length, then the chunks, padded with
\* zero fields; too many fields are an error.
buffer_as_fields(bytes, target_length) ==
    LET encoded == <<<<Len(bytes)>>>> \o Chunks(bytes)
    IN IF Len(encoded) > target_length THEN <<>>
       ELSE <<Resize(encoded, target_length, Resize(<<>>, ChunkSize, 0))>>

\* Mutant: the length field is not used to cut the padding.
BufferKeepsPadding(fields) ==
    IF fields = <<>> THEN <<>> ELSE <<FlattenSeq(Tail(fields))>>

buffer_from_fields(fields) ==
    IF fields = <<>> THEN <<>>
    ELSE LET all == FlattenSeq(Tail(fields))
             length == fields[1][1]
         IN <<SubSeq(all, 1, IF length < Len(all) THEN length ELSE Len(all))>>

------------------------------------------------------------------------------
(* The class id, and the preimage the kernel oracle recomputes.             *)

compute_contract_class_id(artifact_hash, root, commitment) ==
    <<"class_id", artifact_hash, root, commitment>>

compute_contract_class_id_from_artifact(artifact) ==
    compute_contract_class_id(
        compute_artifact_hash(artifact),
        compute_private_functions_root(PrivatePairs(artifact)),
        compute_public_bytecode_commitment(
            extract_packed_public_bytecode(artifact, decode_artifact_bytes)))

\* kernel/oracle.rs: what does not decode counts as no bytecode at all.
decode_bytecode(encoded) == IF encoded.form = "text" THEN <<>> ELSE encoded.bytes

contract_class_preimage(artifact) ==
    [artifactHash |-> compute_artifact_hash(artifact),
     privateFunctionsRoot |-> compute_private_functions_root(PrivatePairs(artifact)),
     publicBytecodeCommitment |->
        compute_public_bytecode_commitment(
            extract_packed_public_bytecode(artifact, decode_bytecode))]

------------------------------------------------------------------------------
(* References: what a verifier recomputes.                                  *)

RECURSIVE RootFrom(_, _, _)
RootFrom(node, index, path) ==
    IF path = <<>> THEN node
    ELSE RootFrom(IF index % 2 = 0 THEN poseidon2_hash(node, Head(path))
                                   ELSE poseidon2_hash(Head(path), node),
                  index \div 2, Tail(path))

\* The rows of the tree over these leaves, one after the other.
RECURSIVE FlatTree(_)
FlatTree(level) ==
    IF Len(level) <= 1 THEN level
    ELSE level \o FlatTree(NextLevel(poseidon2_hash, level))

\* What two artifacts of one class agree on.
ClassContent(artifact) ==
    LET Code(f) == IF f.code = <<>> THEN <<>> ELSE <<f.code[1].bytes>>
        Side(fs) == [i \in 1..Len(fs) |-> <<fs[i].selector, fs[i].returns, Code(fs[i])>>]
    IN [name    |-> artifact.name,
        private |-> Side(SelectSeq(artifact.functions, IsPrivate)),
        keys    |-> ToSet(PrivatePairs(artifact)),
        utility |-> Side(SelectSeq(artifact.functions, IsUnconstrained)),
        public  |-> extract_packed_public_bytecode(artifact, decode_artifact_bytes)]

\* The published bytecode decodes, or there is none.
PublicCodeDecodes(artifact) ==
    LET fs == SelectSeq(artifact.functions, IsPublicDispatch)
    IN fs # <<>> /\ fs[1].code # <<>> => fs[1].code[1].form # "text"

------------------------------------------------------------------------------
(* Properties.                                                              *)

\* The sibling path the kernel oracle builds for a private function leads from
\* the function's leaf to the private functions root the class id commits to
\* (private_function_membership_witness against compute_private_functions_root).
FunctionWitnessProves(artifact) ==
    \A i \in 1..Len(artifact.functions) :
        IsPrivate(artifact.functions[i]) =>
            LET w == private_function_membership_witness(
                        artifact, artifact.functions[i].selector)
            IN /\ w # <<>>
               /\ w[1].leaf = FunctionLeaf(
                    <<artifact.functions[i].selector,
                      IF artifact.functions[i].vk = <<>> THEN Zero
                      ELSE artifact.functions[i].vk[1]>>)
               /\ RootFrom(w[1].leaf, w[1].index, w[1].path)
                    = contract_class_preimage(artifact).privateFunctionsRoot

\* The sibling path cut out of the flat key tree leads from every key to the
\* last node, the root (get_vk_membership_witness).
KeyWitnessProves(leaves) ==
    LET nodes == FlatTree(leaves)
    IN \A i \in 1..Len(leaves) :
          LET w == get_vk_membership_witness(nodes, leaves[i])
          IN w # <<>> /\ RootFrom(w[1].leaf, w[1].index, w[1].path) = nodes[Len(nodes)]

\* The preimage the kernel oracle answers with hashes to the class id the
\* contract was registered under, as long as its public bytecode decodes.
PreimageOfClass(artifact) ==
    PublicCodeDecodes(artifact) =>
        LET p == contract_class_preimage(artifact)
        IN compute_contract_class_id(p.artifactHash, p.privateFunctionsRoot,
                                     p.publicBytecodeCommitment)
             = compute_contract_class_id_from_artifact(artifact)

\* Artifacts that differ in what a class promises have different class ids:
\* padding, the order of the leaves and the cut into chunks hide nothing.
ClassIdBinds(a, b) ==
    (compute_contract_class_id_from_artifact(a)
        = compute_contract_class_id_from_artifact(b))
      <=> (ClassContent(a) = ClassContent(b))

\* The bytecode in a class publication is the bytecode that was published,
\* whatever its last bytes are (buffer_as_fields, buffer_from_fields).
BufferRoundTrips(bytes, target_length) ==
    LET fields == buffer_as_fields(bytes, target_length)
    IN fields # <<>> => buffer_from_fields(fields[1]) = <<bytes>>
==============================================================================
